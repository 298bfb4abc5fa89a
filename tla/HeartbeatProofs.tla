--------------------------- MODULE HeartbeatProofs ---------------------------
(***************************************************************************)
(* For every set of profiles, calls, desks and feedback items: while       *)
(* heartbeats end within their lease, profiles have one at a time, keep    *)
(* their leases, and wait for one confirmation of the same thing; and, on  *)
(* time or not, no heartbeat works past a gate it has met.  LeaseInv is    *)
(* inductive, GateInv and AskInv are inductive with it.                    *)
(***************************************************************************)
EXTENDS ProfileHeartbeats, FiniteSetTheorems, TLAPS

LEMMA InitLease == Init => LeaseInv
  BY BeatAssumption, GateAssumption
  DEF Init, LeaseInv, RowsOK, LeasesAreHeld, ProfileRow, ProfileStatus, BeatState,
      IdleBeat, Beating, Leased

\* A call that leaves the profiles alone and does not begin a heartbeat keeps
\* the invariant, whatever else it does.
LEMMA QuietStep ==
  ASSUME LeaseInv,
         NEW h \in Beats,
         NEW s \in BeatState,
         beat' = [beat EXCEPT ![h] = s],
         profile' = profile,
         s.pc \in Leased => \/ s.profile = NoProfile
                            \/ beat[h].pc \in Leased /\ s.profile = beat[h].profile
  PROVE  LeaseInv'
<1>1. RowsOK'
  BY DEF LeaseInv, RowsOK
<1>2. LeasesAreHeld'
  <2> SUFFICES ASSUME OnTime, NEW p \in Profiles, NEW g \in Beats, Beating(g, p)'
               PROVE  profile'[p].lease = g
    BY DEF LeasesAreHeld
  <2>1. CASE g = h
    <3>1. beat'[g] = s
      BY <2>1 DEF LeaseInv, RowsOK
    <3>2. s.pc \in Leased /\ s.profile = p
      BY <3>1 DEF Beating
    <3>3. Beating(h, p)
      BY <3>2, GateAssumption DEF Beating
    <3> QED
      BY <3>3, <2>1 DEF LeaseInv, LeasesAreHeld
  <2>2. CASE g # h
    <3>1. beat'[g] = beat[g]
      BY <2>2 DEF LeaseInv, RowsOK
    <3>2. Beating(g, p)
      BY <3>1 DEF Beating
    <3> QED
      BY <3>2 DEF LeaseInv, LeasesAreHeld
  <2> QED
    BY <2>1, <2>2
<1> QED
  BY <1>1, <1>2 DEF LeaseInv

\* The two steps of a heartbeat that write its profile.
LEMMA ClaimKeepsLeases ==
  ASSUME LeaseInv, NEW h \in Beats, NEW p \in Profiles, ClaimHeartbeat(h, p)
  PROVE  LeaseInv'
<1> DEFINE s == [beat[h] EXCEPT !.pc = "run", !.agenda = @ \ {p}, !.profile = p,
                                !.blocked = FALSE, !.held = OpenItems]
<1>1. s \in BeatState /\ s.profile = p
  BY DEF LeaseInv, RowsOK, BeatState, Leased, OpenItems
<1>2. /\ beat' = [beat EXCEPT ![h] = s]
      /\ profile' = [profile EXCEPT ![p].lease = h]
      /\ profile[p].lease \in {NoLease, Expired}
  BY DEF ClaimHeartbeat, Become, Claimable, Free
<1>3. RowsOK'
  BY <1>1, <1>2 DEF LeaseInv, RowsOK, ProfileRow
<1>4. ASSUME OnTime, NEW q \in Profiles, NEW g \in Beats, Beating(g, q)'
      PROVE  profile'[q].lease = g
  <2>1. CASE g = h
    <3>1. beat'[g] = s
      BY <2>1, <1>2 DEF LeaseInv, RowsOK
    <3>2. q = p
      BY <3>1, <1>1, <1>4 DEF Beating
    <3> QED
      BY <3>2, <2>1, <1>2 DEF LeaseInv, RowsOK, ProfileRow
  <2>2. CASE g # h
    <3>1. Beating(g, q)
      BY <2>2, <1>2, <1>4 DEF Beating, LeaseInv, RowsOK
    <3>2. profile[q].lease = g
      BY <1>4, <3>1 DEF LeaseInv, LeasesAreHeld
    <3>3. q # p
      BY <3>2, <1>2, BeatAssumption
    <3> QED
      BY <3>2, <3>3, <1>2 DEF LeaseInv, RowsOK
  <2> QED
    BY <2>1, <2>2
<1> QED
  BY <1>3, <1>4 DEF LeaseInv, LeasesAreHeld

LEMMA RecordKeepsLeases ==
  ASSUME LeaseInv, NEW h \in Beats, Record(h)
  PROVE  LeaseInv'
<1> DEFINE p == beat[h].profile
           s == [beat[h] EXCEPT !.pc = "next", !.profile = NoProfile,
                                !.blocked = FALSE, !.held = {}]
<1>1. s \in BeatState /\ s.pc = "next"
  BY DEF LeaseInv, RowsOK, BeatState, Leased
<1>2. /\ beat' = [beat EXCEPT ![h] = s]
      /\ profile' = [profile EXCEPT ![p].due = FALSE, ![p].lease = NoLease]
      /\ beat[h].pc = "record"
  BY DEF Record, RecordHeartbeat, Become, At
<1>3. RowsOK'
  BY <1>1, <1>2 DEF LeaseInv, RowsOK, ProfileRow
<1>4. ASSUME OnTime, NEW q \in Profiles, NEW g \in Beats, Beating(g, q)'
      PROVE  profile'[q].lease = g
  <2>1. g # h
    BY <1>1, <1>2, <1>4 DEF Beating, LeaseInv, RowsOK, Leased
  <2>2. Beating(g, q)
    BY <2>1, <1>2, <1>4 DEF Beating, LeaseInv, RowsOK
  <2>3. profile[q].lease = g
    BY <1>4, <2>2 DEF LeaseInv, LeasesAreHeld
  <2>4. q # p
    <3>1. SUFFICES ASSUME q = p PROVE FALSE
      OBVIOUS
    <3>2. Beating(h, q)
      BY <3>1, <1>2 DEF Beating, Leased
    <3>3. profile[q].lease = h
      BY <1>4, <3>2 DEF LeaseInv, LeasesAreHeld
    <3> QED
      BY <3>3, <2>3, <2>1
  <2> QED
    BY <2>3, <2>4, <1>2 DEF LeaseInv, RowsOK
<1> QED
  BY <1>3, <1>4 DEF LeaseInv, LeasesAreHeld

\* Every step of a call keeps the invariant.
LEMMA CallKeepsLeases ==
  ASSUME LeaseInv,
         NEW h \in Beats,
         \/ StartPass(h)
         \/ \E p \in Profiles : CallHeartbeat(h, p)
         \/ CallResume(h)
         \/ BeatStep(h)
         \/ Crash(h)
  PROVE  LeaseInv'
<1> USE DEF profileVars, Become, Proceed, At
<1>0. beat[h] \in BeatState /\ IdleBeat \in BeatState
  BY DEF LeaseInv, RowsOK, IdleBeat, BeatState
<1>1. CASE StartPass(h)
  <2> DEFINE s == [IdleBeat EXCEPT !.pc = "next", !.agenda = DueProfiles]
  <2>1. s \in BeatState /\ s.pc = "next"
    BY DEF IdleBeat, BeatState, DueProfiles, Active
  <2> QED
    BY <1>1, <2>1, QuietStep DEF StartPass, Leased
<1>2. ASSUME NEW p \in Profiles, CallHeartbeat(h, p)
      PROVE  LeaseInv'
  <2> DEFINE s == [IdleBeat EXCEPT !.pc = "next", !.agenda = {p}]
  <2>1. s \in BeatState /\ s.pc = "next"
    BY DEF IdleBeat, BeatState
  <2> QED
    BY <1>2, <2>1, QuietStep DEF CallHeartbeat, Leased
<1>3. CASE CallResume(h)
  <2> DEFINE s == [IdleBeat EXCEPT !.pc = "run", !.resumes = TRUE]
  <2>1. s \in BeatState /\ s.profile = NoProfile
    BY DEF IdleBeat, BeatState, Leased
  <2> QED
    BY <1>3, <2>1, QuietStep DEF CallResume
<1>4. CASE BeatStep(h)
  <2>1. ASSUME NEW p \in Profiles, ClaimHeartbeat(h, p)
        PROVE  LeaseInv'
    BY <2>1, ClaimKeepsLeases
  <2>2. ASSUME NEW p \in Profiles, SkipProfile(h, p)
        PROVE  LeaseInv'
    <3> DEFINE s == [beat[h] EXCEPT !.agenda = @ \ {p}]
    <3>1. s \in BeatState /\ s.pc = beat[h].pc /\ s.profile = beat[h].profile
      BY <1>0 DEF BeatState
    <3> QED
      BY <2>2, <3>1, QuietStep DEF SkipProfile
  <2>3. CASE ReadRun(h)
    <3>1. PICK b \in BOOLEAN : beat' = [beat EXCEPT ![h] =
                 [beat[h] EXCEPT !.pc = "messages",
                                 !.blocked = \/ runStatus = "waiting_for_human"
                                             \/ /\ runStatus = "completed"
                                                /\ beat[h].profile = NoProfile
                                                /\ b]]
      BY <2>3 DEF ReadRun
    <3> DEFINE c == \/ runStatus = "waiting_for_human"
                    \/ runStatus = "completed" /\ beat[h].profile = NoProfile /\ b
               s == [beat[h] EXCEPT !.pc = "messages", !.blocked = c]
    <3>2. c \in BOOLEAN
      OBVIOUS
    <3> HIDE DEF c
    <3>3. s \in BeatState /\ s.profile = beat[h].profile
      BY <1>0, <3>2 DEF BeatState, Leased
    <3>4. beat' = [beat EXCEPT ![h] = s]
      BY <3>1 DEF c
    <3>5. beat[h].pc \in Leased /\ profile' = profile
      BY <2>3 DEF ReadRun, Leased
    <3> QED
      BY <3>3, <3>4, <3>5, QuietStep
  <2>4. CASE ReadMessages(h)
    <3> DEFINE c == beat[h].blocked \/ stopped
               s == [beat[h] EXCEPT !.pc = "feedback", !.blocked = c]
    <3>1. c \in BOOLEAN
      OBVIOUS
    <3>2. beat' = [beat EXCEPT ![h] = s]
      BY <2>4 DEF ReadMessages
    <3> HIDE DEF c
    <3>3. s \in BeatState /\ s.profile = beat[h].profile
      BY <1>0, <3>1 DEF BeatState, Leased
    <3>4. beat[h].pc \in Leased /\ profile' = profile
      BY <2>4 DEF ReadMessages, Leased
    <3> QED
      BY <3>2, <3>3, <3>4, QuietStep
  <2>5. ASSUME NEW label \in {"restart", "gates", "file", "park", "work",
                              "escalate", "record"},
               beat' = [beat EXCEPT ![h] = [beat[h] EXCEPT !.pc = label]],
               profile' = profile,
               beat[h].pc \in Leased
        PROVE  LeaseInv'
    <3> DEFINE s == [beat[h] EXCEPT !.pc = label]
    <3>1. s \in BeatState /\ s.profile = beat[h].profile
      BY <1>0 DEF BeatState, Leased
    <3> QED
      BY <3>1, <2>5, QuietStep
  <2>6. ASSUME beat' = [beat EXCEPT ![h] = IdleBeat], profile' = profile
        PROVE  LeaseInv'
    BY <1>0, <2>6, QuietStep DEF IdleBeat
  <2>7. CASE ReadFeedback(h)
    <3>1. beat[h].pc \in Leased /\ profile' = profile
      BY <2>7 DEF ReadFeedback, Leased
    <3>2. CASE StopAtGate(h)
      BY <3>1, <3>2, <2>5, <2>6 DEF StopAtGate
    <3>3. CASE GoAhead(h)
      <4>1. CASE beat' = [beat EXCEPT ![h] =
                     [beat[h] EXCEPT !.pc = "restart", !.agenda = Active]]
        <5> DEFINE s == [beat[h] EXCEPT !.pc = "restart", !.agenda = Active]
        <5>1. s \in BeatState /\ s.pc = "restart"
          BY <1>0 DEF BeatState, Active
        <5> QED
          BY <3>1, <4>1, <5>1, QuietStep DEF Leased
      <4>2. CASE beat' = [beat EXCEPT ![h] = [beat[h] EXCEPT !.pc = "work"]]
        BY <3>1, <4>2, <2>5
      <4>3. ASSUME NEW q \in Policies,
                   beat[h].profile # NoProfile,
                   beat' = [beat EXCEPT ![h] = [beat[h] EXCEPT
                              !.pc = "gates", !.asks = <<beat[h].profile, q>>]]
            PROVE  LeaseInv'
        <5> DEFINE s == [beat[h] EXCEPT !.pc = "gates",
                                        !.asks = <<beat[h].profile, q>>]
        <5>1. <<beat[h].profile, q>> \in Gate
          BY <1>0, <4>3 DEF BeatState, Gate
        <5>2. s \in BeatState /\ s.profile = beat[h].profile
          BY <1>0, <5>1 DEF BeatState, Leased
        <5> QED
          BY <3>1, <4>3, <5>2, QuietStep
      <4> QED
        BY <3>3, <4>1, <4>2, <4>3 DEF GoAhead
    <3> QED
      BY <2>7, <3>2, <3>3 DEF ReadFeedback
  <2>8. CASE RestartRun(h)
    <3> DEFINE s == [beat[h] EXCEPT !.pc = "next"]
    <3>1. s \in BeatState /\ s.pc = "next"
      BY <1>0 DEF BeatState
    <3> QED
      BY <2>8, <3>1, QuietStep DEF RestartRun, Leased
  <2>9. ASSUME GateStands(h), profile' = profile, beat[h].pc \in Leased
        PROVE  LeaseInv'
    <3> DEFINE s == [beat[h] EXCEPT !.pc = "park", !.asks = NoGate]
    <3>1. s \in BeatState /\ s.profile = beat[h].profile
      BY <1>0 DEF BeatState, Leased
    <3> QED
      BY <2>9, <3>1, QuietStep DEF GateStands
  <2>10. CASE FindGate(h) \/ FileGate(h)
    BY <2>10, <2>5, <2>9 DEF FindGate, FileGate, Leased
  <2>11. CASE ParkRun(h)
    BY <2>11, <2>5 DEF ParkRun, Leased
  <2>12. CASE Work(h)
    BY <2>12, <2>5, <2>6 DEF Work, Leased
  <2>13. CASE BlockExhausted(h)
    BY <2>13, <2>5 DEF BlockExhausted, Leased
  <2>14. CASE Escalate(h)
    BY <2>14, <2>5 DEF Escalate, Leased
  <2>15. CASE Record(h)
    BY <2>15, RecordKeepsLeases
  <2>16. CASE EndCall(h)
    <3> DEFINE s == [IdleBeat EXCEPT !.pc = "work"]
    <3>1. s \in BeatState /\ s.profile = NoProfile
      BY DEF IdleBeat, BeatState, Leased
    <3>2. CASE beat[h].resumes
      BY <2>16, <3>1, <3>2, QuietStep DEF EndCall
    <3>3. CASE ~beat[h].resumes
      BY <2>16, <2>6, <3>3 DEF EndCall
    <3> QED
      BY <3>2, <3>3
  <2> QED
    BY <1>4, <2>1, <2>2, <2>3, <2>4, <2>7, <2>8, <2>10, <2>11, <2>12, <2>13,
       <2>14, <2>15, <2>16 DEF BeatStep
<1>5. CASE Crash(h)
  BY <1>0, <1>5, QuietStep DEF Crash, IdleBeat
<1> QED
  BY <1>1, <1>2, <1>3, <1>4, <1>5

\* Deadlines pass only where no heartbeat needs them.
LEMMA TimeKeepsLeases ==
  ASSUME LeaseInv, NEW p \in Profiles, ExpireLease(p)
  PROVE  LeaseInv'
<1>1. /\ profile' = [profile EXCEPT ![p].lease = Expired]
      /\ beat' = beat
      /\ profile[p].lease \in Beats
      /\ OnTime => ~Beating(profile[p].lease, p)
  BY DEF ExpireLease
<1>2. RowsOK'
  BY <1>1 DEF LeaseInv, RowsOK, ProfileRow
<1>3. ASSUME OnTime, NEW q \in Profiles, NEW h \in Beats, Beating(h, q)'
      PROVE  profile'[q].lease = h
  <2>1. Beating(h, q)
    BY <1>1, <1>3 DEF Beating
  <2>2. profile[q].lease = h
    BY <1>3, <2>1 DEF LeaseInv, LeasesAreHeld
  <2>3. q # p
    BY <2>1, <2>2, <1>1, <1>3
  <2> QED
    BY <2>2, <2>3, <1>1 DEF LeaseInv, RowsOK
<1> QED
  BY <1>2, <1>3 DEF LeaseInv, LeasesAreHeld

\* A write of a profile that keeps its lease.
LEMMA PeopleKeepLeases ==
  ASSUME LeaseInv, NEW p \in Profiles,
         BecomeDue(p) \/ \E s \in ProfileStatus : UpdateProfileStatus(p, s)
  PROVE  LeaseInv'
<1>1. beat' = beat
  BY DEF BecomeDue, UpdateProfileStatus
<1>2. RowsOK'
  BY DEF BecomeDue, UpdateProfileStatus, LeaseInv, RowsOK, ProfileRow
<1>3. \A q \in Profiles : profile'[q].lease = profile[q].lease
  BY DEF BecomeDue, UpdateProfileStatus, LeaseInv, RowsOK, ProfileRow
<1> QED
  BY <1>1, <1>2, <1>3 DEF LeaseInv, LeasesAreHeld, Beating

\* A desk takes from a call only what it holds, and only what was closed.
SameButHeld(h) ==
    /\ beat'[h].pc = beat[h].pc
    /\ beat'[h].profile = beat[h].profile
    /\ beat'[h].asks = beat[h].asks
    /\ beat'[h].held = beat[h].held \cap OpenItems'

LEMMA DeskSparesBeats ==
  ASSUME beat \in [Beats -> BeatState], DeskStep
  PROVE  /\ beat' \in [Beats -> BeatState]
         /\ \A h \in Beats : SameButHeld(h)
<1> SUFFICES ASSUME NEW h \in Beats
             PROVE  beat'[h] \in BeatState /\ SameButHeld(h)
  BY DEF DeskStep
<1> DEFINE S == beat[h].held \cap OpenItems'
<1>1. beat'[h] = [beat[h] EXCEPT !.held = S]
  BY DEF DeskStep
<1>2. S \subseteq Items
  BY DEF OpenItems
<1> HIDE DEF S
<1>3. beat'[h] \in BeatState
  BY <1>1, <1>2 DEF BeatState
<1>4. SameButHeld(h)
  BY <1>1 DEF BeatState, SameButHeld, S
<1> QED
  BY <1>3, <1>4

LEMMA NextLease ==
  ASSUME LeaseInv, [Next]_vars
  PROVE  LeaseInv'
<1>1. CASE BeatNext
  BY <1>1, CallKeepsLeases DEF BeatNext
<1>2. CASE DeskStep
  <2>1. beat' \in [Beats -> BeatState] /\ \A h \in Beats : SameButHeld(h)
    BY <1>2, DeskSparesBeats DEF LeaseInv, RowsOK
  <2> QED
    BY <1>2, <2>1 DEF DeskStep, SameButHeld, LeaseInv, RowsOK, LeasesAreHeld, Beating, profileVars
<1>3. ASSUME NEW p \in Profiles, ExpireLease(p) \/ BecomeDue(p)
      PROVE  LeaseInv'
  BY <1>3, TimeKeepsLeases, PeopleKeepLeases
<1>4. ASSUME NEW p \in Profiles, NEW s \in ProfileStatus, UpdateProfileStatus(p, s)
      PROVE  LeaseInv'
  BY <1>4, PeopleKeepLeases
<1>5. CASE UNCHANGED vars
  BY <1>5 DEF LeaseInv, RowsOK, LeasesAreHeld, Beating, vars
<1> QED
  BY <1>1, <1>2, <1>3, <1>4, <1>5 DEF Next

LEMMA LeaseInductive == Spec => []LeaseInv
<1>1. Init => LeaseInv
  BY InitLease
<1>2. LeaseInv /\ [Next]_vars => LeaseInv'
  BY NextLease
<1> QED
  BY <1>1, <1>2, PTL DEF Spec

\* A profile has one heartbeat at a time, whatever calls overlap or die.
THEOREM OneHeartbeat ==
  ASSUME OnTime
  PROVE  Spec => []OneHeartbeatAtATime
<1>1. LeaseInv => OneHeartbeatAtATime
  BY DEF LeaseInv, LeasesAreHeld, OneHeartbeatAtATime
<1>2. Spec => []LeaseInv
  BY LeaseInductive
<1> QED
  BY <1>1, <1>2, PTL

-----------------------------------------------------------------------------
\* A call gives back only the lease of the profile it records.
LEMMA CallGivesBackItsOwn ==
  ASSUME OnTime, LeaseInv, NEW g \in Beats, StartPass(g)
                      \/ (\E p \in Profiles : CallHeartbeat(g, p))
                      \/ CallResume(g) \/ BeatStep(g) \/ Crash(g)
  PROVE  GivenBackByHolder
<1>1. CASE profile' = profile
  BY <1>1, BeatAssumption DEF GivenBackByHolder
<1>2. ASSUME NEW q \in Profiles, ClaimHeartbeat(g, q)
      PROVE  GivenBackByHolder
  <2>1. \A p \in Profiles : profile'[p].lease \in {profile[p].lease, g}
    BY <1>2 DEF ClaimHeartbeat, LeaseInv, RowsOK, ProfileRow
  <2> QED
    BY <2>1, BeatAssumption DEF GivenBackByHolder
<1>3. CASE Record(g)
  <2> SUFFICES ASSUME NEW p \in Profiles, NEW h \in Beats,
                      profile[p].lease = h, profile'[p].lease = NoLease
               PROVE  Beating(h, p) /\ ~Beating(h, p)'
    BY DEF GivenBackByHolder
  <2>1. /\ profile' = [profile EXCEPT ![beat[g].profile].due = FALSE,
                                      ![beat[g].profile].lease = NoLease]
        /\ beat' = [beat EXCEPT ![g] = [beat[g] EXCEPT !.pc = "next",
                      !.profile = NoProfile, !.blocked = FALSE, !.held = {}]]
        /\ beat[g].pc = "record"
    BY <1>3 DEF Record, RecordHeartbeat, Become, At
  <2>2. p = beat[g].profile
    BY <2>1, BeatAssumption DEF LeaseInv, RowsOK
  <2>3. Beating(g, p)
    BY <2>1, <2>2 DEF Beating, Leased
  <2>4. g = h
    BY <2>3 DEF LeaseInv, LeasesAreHeld
  <2>5. beat'[g].pc = "next"
    BY <2>1 DEF LeaseInv, RowsOK, BeatState
  <2>6. ~Beating(g, p)'
    BY <2>5 DEF Beating, Leased
  <2> QED
    BY <2>3, <2>4, <2>6
<1>4. \/ profile' = profile
      \/ \E q \in Profiles : ClaimHeartbeat(g, q)
      \/ Record(g)
  BY DEF StartPass, CallHeartbeat, CallResume, BeatStep, Crash, profileVars, SkipProfile,
         ReadRun, ReadMessages, ReadFeedback, RestartRun, FindGate, FileGate, ParkRun,
         Work, BlockExhausted, Escalate, EndCall
<1> QED
  BY <1>1, <1>2, <1>3, <1>4

LEMMA NextGivesBack ==
  ASSUME OnTime, LeaseInv, [Next]_vars
  PROVE  [GivenBackByHolder]_vars
<1>1. CASE BeatNext
  BY <1>1, CallGivesBackItsOwn DEF BeatNext
<1>2. CASE profile' = profile
  BY <1>2, BeatAssumption DEF GivenBackByHolder
<1>3. ASSUME NEW q \in Profiles,
             \/ ExpireLease(q)
             \/ BecomeDue(q)
             \/ \E s \in ProfileStatus : UpdateProfileStatus(q, s)
      PROVE  GivenBackByHolder
  <2>1. \A p \in Profiles : profile'[p].lease \in {profile[p].lease, Expired}
    BY <1>3 DEF ExpireLease, BecomeDue, UpdateProfileStatus, LeaseInv, RowsOK, ProfileRow
  <2> QED
    BY <2>1, BeatAssumption DEF GivenBackByHolder
<1> QED
  BY <1>1, <1>2, <1>3 DEF Next, DeskStep, vars, profileVars

\* A live lease is given back by its own heartbeat or by nobody.
THEOREM LeasesAreSafe ==
  ASSUME OnTime
  PROVE  Spec => LeaseIsItsHolders
<1>1. LeaseInv /\ [Next]_vars => [GivenBackByHolder]_vars
  BY NextGivesBack
<1>2. Spec => []LeaseInv
  BY LeaseInductive
<1> QED
  BY <1>1, <1>2, PTL DEF Spec, LeaseIsItsHolders

-----------------------------------------------------------------------------
(* Gates: a heartbeat does not work past a gate that was open when it began,
   on time or not. *)

AtWork == {"work", "escalate"}

LEMMA InitGates == Init => GateInv
<1> SUFFICES ASSUME Init PROVE GateInv
  OBVIOUS
<1>1. feedback \in [Items -> Item]
  BY DEF Init, GatesInit, Item, NewItem, FeedbackStatus
<1>2. \A h \in Beats : beat[h].held = {}
  BY DEF Init, IdleBeat
<1> QED
  BY <1>1, <1>2 DEF GateInv, HeldItemsAreOpen, GatesStopHeartbeats

\* The three ways to write the feedback.
LEMMA RecordsKeepItems ==
  ASSUME feedback \in [Items -> Item], NEW i \in Items, NEW g \in Gate \cup {NoGate},
         RecordFeedback(i, g)
  PROVE  /\ feedback' \in [Items -> Item]
         /\ OpenItems \subseteq OpenItems'
<1>1. NewItem(g) \in Item
  BY DEF NewItem, Item, FeedbackStatus
<1> QED
  BY <1>1 DEF RecordFeedback, OpenItems, Unused

LEMMA UpdatesKeepItems ==
  ASSUME feedback \in [Items -> Item], NEW i \in Items, NEW s \in FeedbackStatus,
         UpdateFeedbackStatus(i, s)
  PROVE  feedback' \in [Items -> Item]
<1> DEFINE b == s \in Standing /\ (feedback[i].reopened \/ feedback[i].status \notin Standing)
           row == [feedback[i] EXCEPT !.status = s, !.reopened = b]
<1>1. b \in BOOLEAN
  OBVIOUS
<1>2. feedback' = [feedback EXCEPT ![i] = row]
  BY DEF UpdateFeedbackStatus
<1> HIDE DEF b
<1>3. row \in Item
  BY <1>1 DEF Item
<1> QED
  BY <1>2, <1>3

LEMMA DesksKeepItems ==
  ASSUME feedback \in [Items -> Item], DeskNext
  PROVE  feedback' \in [Items -> Item]
<1>1. ASSUME NEW d \in Desks, OpenGate(d)
      PROVE  \E i \in Items : RecordFeedback(i, NoGate)
  BY <1>1 DEF OpenGate
<1>2. ASSUME NEW d \in Desks, NEW i \in Items, NEW s \in FeedbackStatus, Answer(d, i, s)
      PROVE  UpdateFeedbackStatus(i, s)
  BY <1>2 DEF Answer
<1>3. ASSUME NEW d \in Desks,
             \/ WriteRunStatus(d) \/ StopTask(d) \/ ReleaseTask(d)
             \/ CountOpenItems(d) \/ ChooseRunStatus(d) \/ DropCall(d)
      PROVE  feedback' = feedback
  BY <1>3 DEF WriteRunStatus, StopTask, ReleaseTask, CountOpenItems, ChooseRunStatus,
              DropCall, gateVars
<1> QED
  BY <1>1, <1>2, <1>3, RecordsKeepItems, UpdatesKeepItems DEF DeskNext

\* Heartbeats open items and close none; people do both, which the items held
\* by a heartbeat follow.
LEMMA FeedbackStep ==
  ASSUME LeaseInv, feedback \in [Items -> Item], [Next]_vars
  PROVE  /\ feedback' \in [Items -> Item]
         /\ OpenItems \subseteq OpenItems' \/ DeskStep
<1>1. CASE feedback' = feedback
  BY <1>1 DEF OpenItems
<1>2. CASE DeskStep
  BY <1>2, DesksKeepItems DEF DeskStep
<1>3. CASE BeatNext
  <2>1. ASSUME NEW h \in Beats, FileGate(h)
        PROVE  /\ beat[h].asks \in Gate \cup {NoGate}
               /\ \E i \in Items : RecordFeedback(i, beat[h].asks)
    BY <2>1 DEF FileGate, LeaseInv, RowsOK, BeatState
  <2>2. \/ feedback' = feedback
        \/ \E h \in Beats : FileGate(h)
    BY <1>3 DEF BeatNext, StartPass, CallHeartbeat, CallResume, BeatStep, Crash, gateVars,
                ClaimHeartbeat, SkipProfile, ReadRun, ReadMessages, ReadFeedback,
                RestartRun, FindGate, ParkRun, Work, BlockExhausted, Escalate, Record,
                EndCall
  <2> QED
    BY <1>1, <2>1, <2>2, RecordsKeepItems
<1> QED
  BY <1>1, <1>2, <1>3 DEF Next, vars, ExpireLease, BecomeDue, UpdateProfileStatus, gateVars

\* What a step does to the items a call remembers, and how it gets to work.
LEMMA BeatChange ==
  ASSUME LeaseInv, [Next]_vars, NEW h \in Beats
  PROVE  \/ DeskStep /\ SameButHeld(h)
         \/ beat'[h] = beat[h]
         \/ beat'[h].held = {}
         \/ /\ feedback' = feedback
            /\ beat'[h].held = OpenItems
            /\ beat'[h].pc = "run"
         \/ /\ beat'[h].held = beat[h].held
            /\ \/ beat'[h].pc \notin AtWork
               \/ feedback' = feedback /\ OpenItems = {}
               \/ /\ beat[h].pc \in AtWork
                  /\ beat'[h].profile = beat[h].profile
<1> DEFINE Goal ==
         \/ DeskStep /\ SameButHeld(h)
         \/ beat'[h] = beat[h]
         \/ beat'[h].held = {}
         \/ /\ feedback' = feedback
            /\ beat'[h].held = OpenItems
            /\ beat'[h].pc = "run"
         \/ /\ beat'[h].held = beat[h].held
            /\ \/ beat'[h].pc \notin AtWork
               \/ feedback' = feedback /\ OpenItems = {}
               \/ /\ beat[h].pc \in AtWork
                  /\ beat'[h].profile = beat[h].profile
<1> SUFFICES Goal
  OBVIOUS
<1>1. CASE UNCHANGED beat
  BY <1>1
<1>2. ASSUME NEW g \in Beats,
             \/ StartPass(g)
             \/ \E p \in Profiles : CallHeartbeat(g, p)
             \/ CallResume(g)
             \/ BeatStep(g)
             \/ Crash(g)
      PROVE  Goal
  <2> USE DEF Become, Proceed, At, StopAtGate, GoAhead, GateStands
  <2>0. beat \in [Beats -> BeatState]
    BY DEF LeaseInv, RowsOK
  <2>1. CASE g # h
    <3>1. PICK s : beat' = [beat EXCEPT ![g] = s]
      BY <1>2 DEF StartPass, CallHeartbeat, CallResume, BeatStep, Crash, ClaimHeartbeat,
                  SkipProfile, ReadRun, ReadMessages, ReadFeedback, RestartRun, FindGate,
                  FileGate, ParkRun, Work, BlockExhausted, Escalate, Record, EndCall
    <3> QED
      BY <2>0, <2>1, <3>1
  <2>2. CASE g = h
    <3>1. CASE StartPass(h) \/ (\E p \in Profiles : CallHeartbeat(h, p)) \/ CallResume(h)
               \/ Crash(h) \/ EndCall(h) \/ Record(h)
      <4>1. CASE \/ StartPass(h) \/ (\E p \in Profiles : CallHeartbeat(h, p))
                 \/ CallResume(h) \/ Crash(h)
        <5>1. beat'[h].held = {}
          <6>1. CASE StartPass(h)
            BY <2>0, <6>1 DEF StartPass, IdleBeat
          <6>2. CASE \E p \in Profiles : CallHeartbeat(h, p)
            BY <2>0, <6>2 DEF CallHeartbeat, IdleBeat
          <6>3. CASE CallResume(h)
            BY <2>0, <6>3 DEF CallResume, IdleBeat
          <6>4. CASE Crash(h)
            BY <2>0, <6>4 DEF Crash, IdleBeat
          <6> QED
            BY <4>1, <6>1, <6>2, <6>3, <6>4
        <5> QED
          BY <5>1
      <4>2. CASE EndCall(h)
        BY <2>0, <4>2 DEF EndCall, IdleBeat
      <4>3. CASE Record(h)
        <5>1. beat'[h].held = {}
          BY <2>0, <4>3 DEF Record, BeatState
        <5> QED
          BY <5>1
      <4> QED
        BY <3>1, <4>1, <4>2, <4>3
    <3>2. ASSUME NEW p \in Profiles, ClaimHeartbeat(h, p)
          PROVE  Goal
      BY <2>0, <3>2 DEF ClaimHeartbeat, BeatState, gateVars
    <3>3. ASSUME NEW p \in Profiles, SkipProfile(h, p)
          PROVE  Goal
      BY <2>0, <3>3 DEF SkipProfile, BeatState, AtWork
    <3>4. CASE ReadRun(h) \/ ReadMessages(h) \/ RestartRun(h) \/ FindGate(h)
               \/ FileGate(h) \/ ParkRun(h)
      <4>1. CASE ReadRun(h)
        <5>1. PICK b : beat' = [beat EXCEPT ![h] =
                         [beat[h] EXCEPT !.pc = "messages", !.blocked = b]]
          BY <4>1 DEF ReadRun
        <5> QED
          BY <2>0, <5>1 DEF BeatState, AtWork
      <4>2. CASE ReadMessages(h) \/ RestartRun(h)
        <5>1. \/ \E b : beat' = [beat EXCEPT ![h] =
                         [beat[h] EXCEPT !.pc = "feedback", !.blocked = b]]
              \/ beat' = [beat EXCEPT ![h] =
                         [beat[h] EXCEPT !.pc = "next"]]
          BY <4>2 DEF ReadMessages, RestartRun
        <5> QED
          BY <2>0, <5>1 DEF BeatState, AtWork
      <4>3. CASE FindGate(h) \/ FileGate(h) \/ ParkRun(h)
        <5>1. \/ \E label \in {"file", "record"} :
                   beat' = [beat EXCEPT ![h] = [beat[h] EXCEPT !.pc = label]]
              \/ beat' = [beat EXCEPT ![h] =
                           [beat[h] EXCEPT !.pc = "park", !.asks = NoGate]]
          BY <4>3 DEF FindGate, FileGate, ParkRun
        <5> QED
          BY <2>0, <5>1 DEF BeatState, AtWork
      <4> QED
        BY <3>4, <4>1, <4>2, <4>3
    <3>5. CASE ReadFeedback(h)
      <4>1. CASE StopAtGate(h)
        BY <2>0, <4>1 DEF BeatState, AtWork, IdleBeat
      <4>2. CASE OpenItems = {} /\ GoAhead(h)
        <5>1. feedback' = feedback
          BY <3>5 DEF ReadFeedback, gateVars
        <5>2. \/ \E label, S : beat' = [beat EXCEPT ![h] =
                           [beat[h] EXCEPT !.pc = label, !.agenda = S]]
              \/ beat' = [beat EXCEPT ![h] = [beat[h] EXCEPT !.pc = "work"]]
              \/ \E label, q : beat' = [beat EXCEPT ![h] =
                           [beat[h] EXCEPT !.pc = label, !.asks = q]]
          BY <4>2
        <5>3. beat'[h].held = beat[h].held
          BY <2>0, <5>2 DEF BeatState
        <5> QED
          BY <4>2, <5>1, <5>3
      <4> QED
        BY <3>5, <4>1, <4>2 DEF ReadFeedback
    <3>6. CASE Work(h) \/ BlockExhausted(h) \/ Escalate(h)
      <4>1. \/ beat'[h].held = {}
            \/ /\ beat'[h].held = beat[h].held
               /\ beat'[h].profile = beat[h].profile
        BY <2>0, <3>6 DEF Work, BlockExhausted, Escalate, BeatState, IdleBeat
      <4>2. beat[h].pc \in AtWork
        BY <3>6 DEF Work, BlockExhausted, Escalate, AtWork
      <4> QED
        BY <4>1, <4>2
    <3> QED
      BY <1>2, <2>2, <3>1, <3>2, <3>3, <3>4, <3>5, <3>6 DEF BeatStep
  <2> QED
    BY <2>1, <2>2
<1>3. CASE DeskStep
  BY <1>3, DeskSparesBeats DEF LeaseInv, RowsOK
<1> QED
  BY <1>1, <1>2, <1>3 DEF Next, BeatNext, vars, profileVars, ExpireLease, BecomeDue,
                          UpdateProfileStatus

LEMMA NextGates ==
  ASSUME LeaseInv, GateInv, [Next]_vars
  PROVE  GateInv'
<1>1. feedback' \in [Items -> Item] /\ (OpenItems \subseteq OpenItems' \/ DeskStep)
  BY FeedbackStep DEF GateInv
<1>2. HeldItemsAreOpen'
  <2> SUFFICES ASSUME NEW h \in Beats
               PROVE  beat'[h].held \subseteq OpenItems'
    BY DEF HeldItemsAreOpen
  <2>1. CASE DeskStep
    <3>1. SameButHeld(h)
      BY <2>1, DeskSparesBeats DEF LeaseInv, RowsOK
    <3> QED
      BY <3>1 DEF SameButHeld
  <2>2. CASE ~DeskStep
    <3>1. beat[h].held \subseteq OpenItems
      BY DEF GateInv, HeldItemsAreOpen
    <3>2. beat'[h].held \in {beat[h].held, {}, OpenItems}
      BY <2>2, BeatChange
    <3> QED
      BY <1>1, <2>2, <3>1, <3>2
  <2> QED
    BY <2>1, <2>2
<1>3. GatesStopHeartbeats'
  <2> SUFFICES ASSUME NEW h \in Beats, NEW p \in Profiles,
                      Beating(h, p)', beat'[h].pc \in AtWork
               PROVE  beat'[h].held = {}
    BY DEF GatesStopHeartbeats, AtWork
  <2>1. ASSUME beat[h].pc \in AtWork, beat'[h].profile = beat[h].profile
        PROVE  beat[h].held = {}
    <3>1. Beating(h, p)
      BY <2>1 DEF Beating, AtWork, Leased
    <3> QED
      BY <2>1, <3>1 DEF GateInv, GatesStopHeartbeats, AtWork
  <2>2. CASE SameButHeld(h)
    BY <2>1, <2>2 DEF SameButHeld
  <2>3. CASE beat'[h] = beat[h]
    BY <2>1, <2>3
  <2>4. ASSUME OpenItems = {} PROVE beat[h].held = {}
    BY <2>4 DEF GateInv, HeldItemsAreOpen
  <2>5. beat'[h].pc # "run"
    BY DEF AtWork
  <2> QED
    BY BeatChange, <2>1, <2>2, <2>3, <2>4, <2>5
<1> QED
  BY <1>1, <1>2, <1>3 DEF GateInv

\* A gate that has been open since a heartbeat was claimed keeps it from working,
\* whatever retries, answers to other items and other calls do.
THEOREM GatesHold == Spec => []GatesStopHeartbeats
<1>1. Init => GateInv
  BY InitGates
<1>2. LeaseInv /\ GateInv /\ [Next]_vars => GateInv'
  BY NextGates
<1>3. GateInv => GatesStopHeartbeats
  BY DEF GateInv
<1>4. Spec => []LeaseInv
  BY LeaseInductive
<1> QED
  BY <1>1, <1>2, <1>3, <1>4, PTL DEF Spec

-----------------------------------------------------------------------------
(* One gate per question *)

Asking == {"gates", "file"}

\* The items that stand for g and were never answered.
FirstGatesOf(g) == {i \in Items : AsksFirst(i, g)}

\* A heartbeat asks for its own profile, and records only what no item asks but
\* those that were set back after an answer.
AskInv ==
    /\ \A h \in Beats :
         beat[h].pc \in Asking =>
             /\ beat[h].profile \in Profiles
             /\ \E q \in Policies : beat[h].asks = <<beat[h].profile, q>>
    /\ \A h \in Beats : beat[h].pc = "file" => FirstGatesOf(beat[h].asks) = {}
    /\ \A g \in Gate : \A i, j \in FirstGatesOf(g) : i = j

LEMMA InitAsks == Init => AskInv
  BY DEF Init, GatesInit, AskInv, Asking, IdleBeat, FirstGatesOf, AsksFirst, NewItem

LEMMA AskedOnce == AskInv => OneGatePerQuestion
  BY DEF AskInv, OneGatePerQuestion, FirstGatesOf

\* What asks first comes only from heartbeats: a person may set an item back, but
\* not to what it was before its answer.
LEMMA FirstGatesShrink ==
  ASSUME feedback \in [Items -> Item], [Next]_vars, \A h \in Beats : ~FileGate(h)
  PROVE  \A g \in Gate : FirstGatesOf(g)' \subseteq FirstGatesOf(g)
<1> USE DEF FirstGatesOf, AsksFirst
<1>1. CASE feedback' = feedback
  BY <1>1
<1>2. ASSUME NEW i \in Items, RecordFeedback(i, NoGate)
      PROVE  \A g \in Gate : FirstGatesOf(g)' \subseteq FirstGatesOf(g)
  <2>1. NoGate \notin Gate
    BY DEF NoGate, Gate
  <2> QED
    BY <1>2, <2>1 DEF RecordFeedback, NewItem
<1>3. ASSUME NEW d \in Desks, NEW i \in Items, NEW s \in FeedbackStatus, Answer(d, i, s)
      PROVE  \A g \in Gate : FirstGatesOf(g)' \subseteq FirstGatesOf(g)
  <2> DEFINE b == s \in Standing /\ (feedback[i].reopened \/ feedback[i].status \notin Standing)
             row == [feedback[i] EXCEPT !.status = s, !.reopened = b]
  <2>1. feedback' = [feedback EXCEPT ![i] = row]
    BY <1>3 DEF Answer, UpdateFeedbackStatus
  <2>2. row.gate = feedback[i].gate /\ row.status = s /\ row.reopened = b
    BY DEF Item
  <2>3. s \in {"open", "routed"} /\ ~b =>
          feedback[i].status \in {"open", "routed"} /\ ~feedback[i].reopened
    BY DEF Standing
  <2> QED
    BY <2>1, <2>2, <2>3
<1>4. CASE DeskStep
  <2>1. ASSUME NEW d \in Desks,
               \/ WriteRunStatus(d) \/ StopTask(d) \/ ReleaseTask(d)
               \/ CountOpenItems(d) \/ ChooseRunStatus(d) \/ DropCall(d)
        PROVE  feedback' = feedback
    BY <2>1 DEF WriteRunStatus, StopTask, ReleaseTask, CountOpenItems, ChooseRunStatus,
                DropCall, gateVars
  <2> QED
    BY <1>1, <1>2, <1>3, <1>4, <2>1 DEF DeskStep, DeskNext, OpenGate
<1>5. CASE BeatNext
  BY <1>1, <1>5
  DEF BeatNext, StartPass, CallHeartbeat, CallResume, BeatStep, Crash, gateVars,
      ClaimHeartbeat, SkipProfile, ReadRun, ReadMessages, ReadFeedback,
      RestartRun, FindGate, ParkRun, Work, BlockExhausted, Escalate, Record, EndCall
<1> QED
  BY <1>1, <1>4, <1>5 DEF Next, vars, ExpireLease, BecomeDue, UpdateProfileStatus, gateVars

LEMMA FirstGatesStand ==
  ASSUME NEW g, GatesOf(g) = {}
  PROVE  FirstGatesOf(g) = {}
  BY DEF GatesOf, FirstGatesOf, AsksFirst, Standing

\* How a heartbeat comes to ask, and to find that nobody has asked.
AsksNext(h) ==
    \/ beat'[h].pc \notin Asking
    \/ /\ beat'[h].pc = beat[h].pc /\ beat'[h].profile = beat[h].profile
       /\ beat'[h].asks = beat[h].asks
    \/ /\ beat'[h].pc = "gates" /\ beat'[h].profile \in Profiles
       /\ \E q \in Policies : beat'[h].asks = <<beat'[h].profile, q>>
    \/ /\ beat[h].pc = "gates" /\ beat'[h].pc = "file"
       /\ beat'[h].profile = beat[h].profile /\ beat'[h].asks = beat[h].asks
       /\ GatesOf(beat[h].asks) = {} /\ feedback' = feedback

LEMMA AskChange ==
  ASSUME LeaseInv, [Next]_vars, NEW h \in Beats
  PROVE  AsksNext(h)
<1>1. CASE UNCHANGED beat
  BY <1>1 DEF AsksNext
<1>2. ASSUME NEW g \in Beats,
             \/ StartPass(g)
             \/ \E p \in Profiles : CallHeartbeat(g, p)
             \/ CallResume(g)
             \/ BeatStep(g)
             \/ Crash(g)
      PROVE  AsksNext(h)
  <2> USE DEF Become, Proceed, At, GateStands
  <2>0. beat \in [Beats -> BeatState]
    BY DEF LeaseInv, RowsOK
  <2>1. CASE g # h
    <3>1. PICK s : beat' = [beat EXCEPT ![g] = s]
      BY <1>2 DEF StopAtGate, GoAhead, StartPass, CallHeartbeat, CallResume, BeatStep, Crash,
                  ClaimHeartbeat, SkipProfile, ReadRun, ReadMessages, ReadFeedback, RestartRun,
                  FindGate, FileGate, ParkRun, Work, BlockExhausted, Escalate, Record, EndCall
    <3> QED
      BY <2>0, <2>1, <3>1 DEF AsksNext
  <2>2. CASE g = h
    <3>1. CASE \/ StartPass(h) \/ (\E p \in Profiles : CallHeartbeat(h, p)) \/ CallResume(h)
               \/ Crash(h) \/ EndCall(h) \/ Record(h)
      <4>1. \/ \E S : beat' = [beat EXCEPT ![h] = [IdleBeat EXCEPT !.pc = "next", !.agenda = S]]
            \/ beat' = [beat EXCEPT ![h] = [IdleBeat EXCEPT !.pc = "run", !.resumes = TRUE]]
            \/ beat' = [beat EXCEPT ![h] = [IdleBeat EXCEPT !.pc = "work"]]
            \/ beat' = [beat EXCEPT ![h] = IdleBeat]
            \/ beat' = [beat EXCEPT ![h] =
                          [beat[h] EXCEPT !.pc = "next", !.profile = NoProfile,
                                          !.blocked = FALSE, !.held = {}]]
        BY <3>1 DEF StartPass, CallHeartbeat, CallResume, Crash, EndCall, Record
      <4>2. CASE \E S : beat' = [beat EXCEPT ![h] =
                                   [IdleBeat EXCEPT !.pc = "next", !.agenda = S]]
        <5>1. PICK S : beat' = [beat EXCEPT ![h] = [IdleBeat EXCEPT !.pc = "next", !.agenda = S]]
          BY <4>2
        <5>2. beat'[h].pc = "next"
          BY <2>0, <5>1 DEF IdleBeat
        <5> QED
          BY <5>2 DEF AsksNext, Asking
      <4>3. CASE \/ beat' = [beat EXCEPT ![h] = [IdleBeat EXCEPT !.pc = "run", !.resumes = TRUE]]
                 \/ beat' = [beat EXCEPT ![h] = [IdleBeat EXCEPT !.pc = "work"]]
                 \/ beat' = [beat EXCEPT ![h] = IdleBeat]
        <5>1. \/ beat'[h] = [IdleBeat EXCEPT !.pc = "run", !.resumes = TRUE]
              \/ beat'[h] = [IdleBeat EXCEPT !.pc = "work"]
              \/ beat'[h] = IdleBeat
          BY <2>0, <4>3
        <5>2. \/ beat'[h].pc = "run"
              \/ beat'[h].pc = "work"
              \/ beat'[h].pc = "idle"
          <6>1. CASE beat'[h] = [IdleBeat EXCEPT !.pc = "run", !.resumes = TRUE]
            BY <6>1 DEF IdleBeat
          <6>2. CASE beat'[h] = [IdleBeat EXCEPT !.pc = "work"]
            BY <6>2 DEF IdleBeat
          <6>3. CASE beat'[h] = IdleBeat
            BY <6>3 DEF IdleBeat
          <6> QED
            BY <5>1, <6>1, <6>2, <6>3
        <5> QED
          BY <5>2 DEF AsksNext, Asking
      <4>4. CASE beat' = [beat EXCEPT ![h] =
                            [beat[h] EXCEPT !.pc = "next", !.profile = NoProfile,
                                            !.blocked = FALSE, !.held = {}]]
        <5>1. beat'[h].pc = "next"
          BY <2>0, <4>4 DEF BeatState
        <5> QED
          BY <5>1 DEF AsksNext, Asking
      <4> QED
        BY <4>1, <4>2, <4>3, <4>4
    <3>2. CASE \E p \in Profiles : ClaimHeartbeat(h, p) \/ SkipProfile(h, p)
      <4>1. ASSUME NEW p \in Profiles, ClaimHeartbeat(h, p)
            PROVE  beat'[h].pc = "run"
        BY <2>0, <4>1 DEF ClaimHeartbeat, BeatState
      <4>2. ASSUME NEW p \in Profiles, SkipProfile(h, p)
            PROVE  beat'[h].pc = "next"
        BY <2>0, <4>2 DEF SkipProfile, BeatState
      <4> QED
        BY <3>2, <4>1, <4>2 DEF AsksNext, Asking
    <3>3. CASE ReadRun(h)
      <4>1. PICK b : beat' = [beat EXCEPT ![h] =
                       [beat[h] EXCEPT !.pc = "messages", !.blocked = b]]
        BY <3>3 DEF ReadRun
      <4> QED
        BY <2>0, <4>1 DEF BeatState, AsksNext, Asking
    <3>4. CASE \/ ReadMessages(h) \/ RestartRun(h) \/ FileGate(h) \/ ParkRun(h)
               \/ Work(h) \/ BlockExhausted(h) \/ Escalate(h)
      <4>1. \/ \E b : beat' = [beat EXCEPT ![h] =
                     [beat[h] EXCEPT !.pc = "feedback", !.blocked = b]]
            \/ \E label \in {"next", "record", "escalate", "work"} :
                 beat' = [beat EXCEPT ![h] = [beat[h] EXCEPT !.pc = label]]
            \/ beat' = [beat EXCEPT ![h] =
                     [beat[h] EXCEPT !.pc = "park", !.asks = NoGate]]
            \/ beat' = [beat EXCEPT ![h] = IdleBeat]
        BY <3>4 DEF ReadMessages, RestartRun, FileGate, ParkRun, Work, BlockExhausted, Escalate
      <4>2. CASE \E b : beat' = [beat EXCEPT ![h] =
                                   [beat[h] EXCEPT !.pc = "feedback", !.blocked = b]]
        <5>1. PICK b : beat' = [beat EXCEPT ![h] =
                                 [beat[h] EXCEPT !.pc = "feedback", !.blocked = b]]
          BY <4>2
        <5> QED
          BY <2>0, <5>1 DEF BeatState, AsksNext, Asking
      <4>3. CASE \E label \in {"next", "record", "escalate", "work"} :
                   beat' = [beat EXCEPT ![h] = [beat[h] EXCEPT !.pc = label]]
        BY <2>0, <4>3 DEF BeatState, AsksNext, Asking
      <4>4. CASE beat' = [beat EXCEPT ![h] = [beat[h] EXCEPT !.pc = "park", !.asks = NoGate]]
        <5>1. beat'[h].pc = "park"
          BY <2>0, <4>4 DEF BeatState
        <5> QED
          BY <5>1 DEF AsksNext, Asking
      <4>5. CASE beat' = [beat EXCEPT ![h] = IdleBeat]
        BY <2>0, <4>5 DEF IdleBeat, AsksNext, Asking
      <4> QED
        BY <4>1, <4>2, <4>3, <4>4, <4>5
    <3>5. CASE ReadFeedback(h)
      <4>1. CASE StopAtGate(h)
        BY <2>0, <4>1 DEF StopAtGate, BeatState, IdleBeat, AsksNext, Asking
      <4>2. CASE GoAhead(h)
        <5>1. \/ beat'[h].pc \in {"restart", "work"}
              \/ /\ beat[h].profile # NoProfile
                 /\ \E q \in Policies : beat' = [beat EXCEPT ![h] =
                      [beat[h] EXCEPT !.pc = "gates", !.asks = <<beat[h].profile, q>>]]
          BY <2>0, <4>2 DEF GoAhead, BeatState
        <5>2. beat[h].profile \in Profiles \cup {NoProfile}
          BY <2>0 DEF BeatState
        <5>3. CASE beat'[h].pc \in {"restart", "work"}
          BY <5>3 DEF AsksNext, Asking
        <5>4. ASSUME beat[h].profile # NoProfile, NEW q \in Policies,
                     beat' = [beat EXCEPT ![h] =
                       [beat[h] EXCEPT !.pc = "gates", !.asks = <<beat[h].profile, q>>]]
              PROVE  AsksNext(h)
          <6>1. /\ beat'[h].pc = "gates" /\ beat'[h].profile = beat[h].profile
                /\ beat'[h].asks = <<beat[h].profile, q>>
            BY <2>0, <5>4 DEF BeatState
          <6> QED
            BY <5>2, <5>4, <6>1 DEF AsksNext
        <5> QED
          BY <5>1, <5>3, <5>4
      <4> QED
        BY <3>5, <4>1, <4>2 DEF ReadFeedback
    <3>6. CASE FindGate(h)
      <4>1. CASE GatesOf(beat[h].asks) = {}
        BY <2>0, <3>6, <4>1 DEF FindGate, BeatState, AsksNext, gateVars
      <4>2. CASE GatesOf(beat[h].asks) # {}
        BY <2>0, <3>6, <4>2 DEF FindGate, BeatState, AsksNext, Asking
      <4> QED
        BY <4>1, <4>2
    <3> QED
      BY <1>2, <2>2, <3>1, <3>2, <3>3, <3>4, <3>5, <3>6 DEF BeatStep
  <2> QED
    BY <2>1, <2>2
<1>3. CASE DeskStep
  BY <1>3, DeskSparesBeats DEF LeaseInv, RowsOK, SameButHeld, AsksNext
<1> QED
  BY <1>1, <1>2, <1>3 DEF Next, BeatNext, vars, profileVars, ExpireLease, BecomeDue,
                          UpdateProfileStatus

LEMMA NextAsks ==
  ASSUME OnTime, LeaseInv, feedback \in [Items -> Item], AskInv, [Next]_vars
  PROVE  AskInv'
<1>1. ASSUME NEW h \in Beats, beat'[h].pc \in Asking
      PROVE  /\ beat'[h].profile \in Profiles
             /\ \E q \in Policies : beat'[h].asks = <<beat'[h].profile, q>>
  BY <1>1, AskChange DEF AsksNext, AskInv, Asking
\* What h asks is not what another heartbeat asks.
<1>2. ASSUME NEW g \in Beats, NEW h \in Beats, g # h,
             beat[g].pc \in Asking, beat[h].pc \in Asking
      PROVE  beat[g].asks # beat[h].asks
  <2>1. Beating(g, beat[g].profile) /\ Beating(h, beat[h].profile)
    BY <1>2 DEF Beating, Asking, Leased
  <2>2. beat[g].profile # beat[h].profile
    BY <1>2, <2>1 DEF AskInv, LeaseInv, LeasesAreHeld
  <2> QED
    BY <1>2, <2>2 DEF AskInv
<1>3. ASSUME NEW h \in Beats, beat[h].pc \in Asking
      PROVE  beat[h].asks \in Gate
  <2>1. PICK q \in Policies : beat[h].asks = <<beat[h].profile, q>>
    BY <1>3 DEF AskInv
  <2>2. beat[h].profile \in Profiles
    BY <1>3 DEF AskInv
  <2> QED
    BY <2>1, <2>2 DEF Gate
<1>4. CASE \A h \in Beats : ~FileGate(h)
  <2>1. \A g \in Gate : FirstGatesOf(g)' \subseteq FirstGatesOf(g)
    BY <1>4, FirstGatesShrink
  <2>2. ASSUME NEW h \in Beats, beat'[h].pc = "file"
        PROVE  FirstGatesOf(beat[h].asks) = {} /\ beat'[h].asks = beat[h].asks
               /\ beat[h].pc \in Asking
    BY <2>2, AskChange, FirstGatesStand DEF AsksNext, AskInv, Asking
  <2>3. ASSUME NEW h \in Beats, beat'[h].pc = "file"
        PROVE  FirstGatesOf(beat[h].asks)' = {}
    <3>1. PICK g \in Gate : g = beat[h].asks
      BY <1>3, <2>2, <2>3
    <3>2. FirstGatesOf(g)' = {}
      BY <2>1, <2>2, <2>3, <3>1
    <3> QED
      BY <2>2, <2>3, <3>1, <3>2 DEF FirstGatesOf, AsksFirst
  <2>4. \A g \in Gate : \A i, j \in FirstGatesOf(g)' : i = j
    BY <2>1 DEF AskInv
  <2> QED
    BY <1>1, <2>3, <2>4 DEF AskInv
<1>5. ASSUME NEW h \in Beats, FileGate(h)
      PROVE  AskInv'
  <2>1. /\ beat[h].pc = "file" /\ FirstGatesOf(beat[h].asks) = {}
        /\ beat[h].asks \in Gate
    BY <1>3, <1>5 DEF FileGate, At, AskInv, Asking
  <2>2. PICK i \in Items : RecordFeedback(i, beat[h].asks)
    BY <1>5 DEF FileGate
  <2>3. \A g \in Gate : FirstGatesOf(g)' \subseteq
                         IF g = beat[h].asks THEN {i} ELSE FirstGatesOf(g)
    BY <2>1, <2>2 DEF RecordFeedback, Item, NewItem, FirstGatesOf, AsksFirst
  <2>4. \A g \in Gate : \A j, k \in FirstGatesOf(g)' : j = k
    BY <2>3 DEF AskInv
  <2>5. \A g \in Beats : g # h => beat'[g] = beat[g]
    BY <1>5 DEF FileGate, GateStands, Become, LeaseInv, RowsOK
  <2>6. beat'[h].pc = "park"
    BY <1>5 DEF FileGate, GateStands, Become, LeaseInv, RowsOK, BeatState
  <2>7. ASSUME NEW g \in Beats, beat'[g].pc = "file"
        PROVE  FirstGatesOf(beat[g].asks)' = {}
    <3>1. g # h /\ beat'[g] = beat[g] /\ beat[g].pc = "file"
      BY <2>5, <2>6, <2>7
    <3>2. /\ beat[g].asks # beat[h].asks /\ FirstGatesOf(beat[g].asks) = {}
          /\ beat[g].asks \in Gate
      BY <1>2, <1>3, <2>1, <3>1 DEF AskInv, Asking
    <3>3. PICK a \in Gate : a = beat[g].asks
      BY <3>2
    <3>4. FirstGatesOf(a)' = {}
      BY <2>3, <3>2, <3>3
    <3> QED
      BY <3>1, <3>3, <3>4 DEF FirstGatesOf, AsksFirst
  <2> QED
    BY <1>1, <2>4, <2>7 DEF AskInv
<1> QED
  BY <1>4, <1>5

\* While heartbeats end within their lease, no two of them ask for the same
\* confirmation: whoever looks for a gate of a profile and then records one is
\* the profile's only heartbeat.
THEOREM GatesAreSingle ==
  ASSUME OnTime
  PROVE  Spec => []OneGatePerQuestion
<1>1. LeaseInv /\ GateInv /\ AskInv /\ [Next]_vars => AskInv' /\ GateInv'
  BY NextAsks, NextGates DEF GateInv
<1>2. Spec => []LeaseInv
  BY LeaseInductive
<1> QED
  BY <1>1, <1>2, InitAsks, InitGates, AskedOnce, PTL DEF Spec

-----------------------------------------------------------------------------
(* The types *)

\* Only the heartbeat of a profile asks for confirmations and records itself;
\* resume_run, which has no profile, stops or restarts the run instead.
BeatsHaveProfiles ==
    \A h \in Beats :
        beat[h].pc \in {"gates", "file", "park", "record"} => beat[h].profile # NoProfile

LEMMA OneBeat ==
  ASSUME beat \in [Beats -> BeatState], BeatsHaveProfiles, NEW h \in Beats, NEW s,
         beat' = [beat EXCEPT ![h] = s],
         s.pc \in {"gates", "file", "park", "record"} => s.profile # NoProfile
  PROVE  BeatsHaveProfiles'
  BY DEF BeatsHaveProfiles

LEMMA OneBeatElsewhere ==
  ASSUME BeatsHaveProfiles, NEW h \in Beats, \A g \in Beats \ {h} : beat'[g] = beat[g],
         beat'[h].pc \in {"run", "messages", "feedback", "next", "work", "idle"}
  PROVE  BeatsHaveProfiles'
  BY DEF BeatsHaveProfiles

LEMMA BeatsKeepProfiles ==
  ASSUME beat \in [Beats -> BeatState], BeatsHaveProfiles, NEW h \in Beats,
         \/ StartPass(h)
         \/ \E p \in Profiles : CallHeartbeat(h, p)
         \/ CallResume(h)
         \/ BeatStep(h)
         \/ Crash(h)
  PROVE  BeatsHaveProfiles'
<1> USE DEF Become, Proceed, At
<1>1. beat[h] \in BeatState
  OBVIOUS
\* A step to another label that leaves the profile as it is.
<1>2. ASSUME NEW s \in BeatState, beat' = [beat EXCEPT ![h] = s],
             s.pc \in {"gates", "file", "park", "record"} => s.profile # NoProfile
      PROVE  BeatsHaveProfiles'
  BY <1>2, OneBeat
<1>3. ASSUME beat' = [beat EXCEPT ![h] = IdleBeat] PROVE BeatsHaveProfiles'
  BY <1>3, OneBeat DEF IdleBeat
<1>4. ASSUME NEW label \in {"next", "restart", "file", "park", "work", "escalate", "record"},
             beat' = [beat EXCEPT ![h] = [beat[h] EXCEPT !.pc = label]],
             label \in {"file", "park", "record"} => beat[h].profile # NoProfile
      PROVE  BeatsHaveProfiles'
  <2> DEFINE s == [beat[h] EXCEPT !.pc = label]
  <2>1. s.pc = label /\ s.profile = beat[h].profile
    BY <1>1 DEF BeatState
  <2> QED
    BY <1>4, <2>1, OneBeat
<1>5. CASE StartPass(h) \/ (\E p \in Profiles : CallHeartbeat(h, p)) \/ CallResume(h) \/ Crash(h)
  <2>1. \A g \in Beats \ {h} : beat'[g] = beat[g]
    BY <1>5 DEF StartPass, CallHeartbeat, CallResume, Crash
  <2>2. beat'[h].pc \in {"next", "run", "idle"}
    <3>1. CASE Crash(h)
      BY <3>1 DEF Crash, IdleBeat
    <3>4. CASE StartPass(h)
      <4>1. beat' = [beat EXCEPT ![h] = [IdleBeat EXCEPT !.pc = "next", !.agenda = DueProfiles]]
        BY <3>4 DEF StartPass
      <4>2. \A d : [IdleBeat EXCEPT !.pc = "next", !.agenda = d].pc = "next"
        BY DEF IdleBeat
      <4> QED
        BY <4>1, <4>2
    <3>2. CASE \E p \in Profiles : CallHeartbeat(h, p)
      BY <3>2 DEF CallHeartbeat, IdleBeat
    <3>3. CASE CallResume(h)
      BY <3>3 DEF CallResume, IdleBeat
    <3> QED
      BY <1>5, <3>1, <3>2, <3>3, <3>4
  <2> QED
    BY <2>1, <2>2, OneBeatElsewhere
<1>6. CASE (\E p \in Profiles : ClaimHeartbeat(h, p) \/ SkipProfile(h, p)) \/ ReadRun(h)
           \/ ReadMessages(h) \/ Record(h) \/ EndCall(h)
  <2>1. \A g \in Beats \ {h} : beat'[g] = beat[g]
    BY <1>6 DEF ClaimHeartbeat, SkipProfile, ReadRun, ReadMessages, Record, EndCall
  <2>2. beat'[h].pc \in {"run", "messages", "feedback", "next", "work", "idle"}
    <3>1. CASE \E p \in Profiles : ClaimHeartbeat(h, p)
      BY <1>1, <3>1 DEF ClaimHeartbeat, BeatState
    <3>2. CASE \E p \in Profiles : SkipProfile(h, p)
      BY <1>1, <3>2 DEF SkipProfile, BeatState
    <3>3. CASE ReadRun(h)
      BY <1>1, <3>3 DEF ReadRun, BeatState
    <3>4. CASE ReadMessages(h)
      BY <1>1, <3>4 DEF ReadMessages, BeatState
    <3>5. CASE Record(h)
      BY <1>1, <3>5 DEF Record, BeatState
    <3>6. CASE EndCall(h)
      BY <3>6 DEF EndCall, IdleBeat
    <3> QED
      BY <1>6, <3>1, <3>2, <3>3, <3>4, <3>5, <3>6
  <2> QED
    BY <2>1, <2>2, OneBeatElsewhere
<1>7. CASE ReadFeedback(h)
  <2>1. CASE StopAtGate(h)
    BY <1>3, <1>4, <2>1 DEF StopAtGate
  <2>2. CASE GoAhead(h)
    <3>1. CASE beat' = [beat EXCEPT ![h] = [beat[h] EXCEPT !.pc = "restart", !.agenda = Active]]
      <4> DEFINE s == [beat[h] EXCEPT !.pc = "restart", !.agenda = Active]
      <4>1. s.pc = "restart"
        BY <1>1 DEF BeatState
      <4> QED
        BY <3>1, <4>1, OneBeat
    <3>2. CASE beat' = [beat EXCEPT ![h] = [beat[h] EXCEPT !.pc = "work"]]
      BY <1>4, <3>2
    <3>3. ASSUME NEW q \in Policies, beat[h].profile # NoProfile,
                 beat' = [beat EXCEPT ![h] = [beat[h] EXCEPT !.pc = "gates",
                                                !.asks = <<beat[h].profile, q>>]]
          PROVE  BeatsHaveProfiles'
      <4> DEFINE s == [beat[h] EXCEPT !.pc = "gates", !.asks = <<beat[h].profile, q>>]
      <4>1. s.profile = beat[h].profile
        BY <1>1 DEF BeatState
      <4> QED
        BY <3>3, <4>1, OneBeat
    <3> QED
      BY <2>2, <3>1, <3>2, <3>3 DEF GoAhead
  <2> QED
    BY <1>7, <2>1, <2>2 DEF ReadFeedback
<1>8. CASE RestartRun(h)
  BY <1>4, <1>8 DEF RestartRun
<1>9. CASE FindGate(h) \/ FileGate(h)
  <2>1. beat[h].profile # NoProfile
    BY <1>9 DEF FindGate, FileGate, BeatsHaveProfiles
  <2>2. CASE GateStands(h)
    <3> DEFINE s == [beat[h] EXCEPT !.pc = "park", !.asks = NoGate]
    <3>1. s.profile = beat[h].profile
      BY <1>1 DEF BeatState
    <3> QED
      BY <2>1, <2>2, <3>1, OneBeat DEF GateStands
  <2> QED
    BY <1>4, <1>9, <2>1, <2>2 DEF FindGate, FileGate
<1>10. CASE ParkRun(h)
  BY <1>4, <1>10 DEF ParkRun, BeatsHaveProfiles
<1>11. CASE Work(h) \/ BlockExhausted(h) \/ Escalate(h)
  BY <1>3, <1>4, <1>11 DEF Work, BlockExhausted, Escalate
<1> QED
  BY <1>5, <1>6, <1>7, <1>8, <1>9, <1>10, <1>11 DEF BeatStep

\* Every profile keeps a rank of its own: the one that was visited goes last.
InLine(r) ==
    /\ r \in [Profiles -> 1 .. Cardinality(Profiles)]
    /\ \A p, q \in Profiles : r[p] = r[q] => p = q

LEMMA RecordKeepsLine ==
  ASSUME InLine(turn), NEW p \in Profiles, RecordHeartbeat(p)
  PROVE  InLine(turn')
<1> DEFINE n == Cardinality(Profiles)
<1>1. n \in Nat
  BY BeatAssumption, FS_CardinalityType
<1> HIDE DEF n
<1>2. turn \in [Profiles -> 1..n] /\ \A q, r \in Profiles : turn[q] = turn[r] => q = r
  BY DEF InLine, n
<1>3. turn' = [q \in Profiles |-> IF q = p THEN n
                                  ELSE IF turn[q] > turn[p] THEN turn[q] - 1 ELSE turn[q]]
  BY DEF RecordHeartbeat, n
<1>4. \A q \in Profiles : q # p => turn'[q] \in 1..(n - 1)
  BY <1>1, <1>2, <1>3
<1>5. \A q, r \in Profiles : q # r /\ q # p /\ r # p => turn'[q] # turn'[r]
  BY <1>1, <1>2, <1>3
<1>6. turn'[p] = n /\ n \in 1..n
  BY <1>1, <1>2, <1>3
<1>7. turn' \in [Profiles -> 1..n]
  BY <1>1, <1>3, <1>4, <1>6
<1>8. \A q, r \in Profiles : turn'[q] = turn'[r] => q = r
  BY <1>1, <1>4, <1>5, <1>6
<1> QED
  BY <1>7, <1>8 DEF InLine, n

LEMMA DesksKeepTypes ==
  ASSUME GatesTypeOK, DeskNext
  PROVE  GatesTypeOK'
<1> USE DEF Goto, Leave, RunStatus, gateVars
<1>1. \A label \in {"idle", "count", "read", "named", "write"}, s \in RunStatus :
         [pc |-> label, next |-> s] \in DeskState
  BY DEF DeskState
<1>2. IdleDesk \in DeskState
  BY DEF IdleDesk, DeskState
<1>3. PICK d \in Desks :
        \/ WriteRunStatus(d) \/ OpenGate(d) \/ StopTask(d) \/ ReleaseTask(d)
        \/ \E i \in Items, s \in FeedbackStatus : Answer(d, i, s)
        \/ CountOpenItems(d) \/ ChooseRunStatus(d) \/ DropCall(d)
  BY DEF DeskNext
<1>4. /\ runStatus \in RunStatus /\ feedback \in [Items -> Item] /\ stopped \in BOOLEAN
      /\ desk \in [Desks -> DeskState] /\ desk[d].next \in RunStatus
  BY DEF GatesTypeOK, DeskState
<1>5. feedback' \in [Items -> Item]
  BY <1>4, DesksKeepItems
<1>6. runStatus' \in RunStatus /\ stopped' \in BOOLEAN
  BY <1>3, <1>4
  DEF WriteRunStatus, OpenGate, StopTask, ReleaseTask, Answer, CountOpenItems,
      ChooseRunStatus, DropCall
<1>7. desk' \in [Desks -> DeskState]
  BY <1>1, <1>2, <1>3, <1>4
  DEF WriteRunStatus, OpenGate, StopTask, ReleaseTask, Answer, CountOpenItems,
      ChooseRunStatus, DropCall
<1> QED
  BY <1>5, <1>6, <1>7 DEF GatesTypeOK

LEMMA NextTypes ==
  ASSUME TypeOK, BeatsHaveProfiles, LeaseInv', [Next]_vars
  PROVE  TypeOK' /\ BeatsHaveProfiles'
<1>1. /\ profile' \in [Profiles -> ProfileRow] /\ beat' \in [Beats -> BeatState]
      /\ beat \in [Beats -> BeatState] /\ GatesTypeOK /\ InLine(turn)
  BY DEF LeaseInv, RowsOK, TypeOK, InLine
<1>2. GatesTypeOK' /\ InLine(turn') /\ BeatsHaveProfiles' => TypeOK' /\ BeatsHaveProfiles'
  BY <1>1 DEF TypeOK, InLine
<1> SUFFICES GatesTypeOK' /\ InLine(turn') /\ BeatsHaveProfiles'
  BY <1>2
<1>3. CASE BeatNext
  <2>1. PICK h \in Beats : /\ \/ StartPass(h)
                              \/ \E p \in Profiles : CallHeartbeat(h, p)
                              \/ CallResume(h)
                              \/ BeatStep(h)
                              \/ Crash(h)
                           /\ UNCHANGED desk
    BY <1>3 DEF BeatNext
  <2>2. BeatsHaveProfiles'
    BY <1>1, <2>1, BeatsKeepProfiles
  <2>3. CASE Record(h)
    <3>1. beat[h].profile \in Profiles
      BY <1>1, <2>3 DEF Record, At, BeatsHaveProfiles, BeatState
    <3>2. InLine(turn')
      BY <1>1, <2>3, <3>1, RecordKeepsLine DEF Record
    <3>3. GatesTypeOK'
      BY <1>1, <2>1, <2>3 DEF Record, gateVars, GatesTypeOK
    <3> QED
      BY <2>2, <3>2, <3>3
  <2>4. CASE ~Record(h)
    <3>1. UNCHANGED turn
      BY <2>1, <2>4
      DEF BeatStep, StartPass, CallHeartbeat, CallResume, Crash, ClaimHeartbeat, SkipProfile,
          ReadRun, ReadMessages, ReadFeedback, RestartRun, FindGate, FileGate, ParkRun, Work,
          BlockExhausted, Escalate, EndCall, profileVars
    <3>2. runStatus' \in RunStatus /\ stopped' \in BOOLEAN
      BY <1>1, <2>1, <2>4
      DEF BeatStep, StartPass, CallHeartbeat, CallResume, Crash, ClaimHeartbeat, SkipProfile,
          ReadRun, ReadMessages, ReadFeedback, RestartRun, FindGate, FileGate, ParkRun, Work,
          BlockExhausted, Escalate, EndCall, gateVars, GatesTypeOK, RunStatus
    <3>3. feedback' \in [Items -> Item]
      <4>1. CASE FileGate(h)
        <5>1. beat[h].asks \in Gate \cup {NoGate}
          BY <1>1 DEF BeatState
        <5> QED
          BY <1>1, <4>1, <5>1, RecordsKeepItems DEF FileGate, GatesTypeOK
      <4>2. CASE ~FileGate(h)
        BY <1>1, <2>1, <2>4, <4>2
        DEF BeatStep, StartPass, CallHeartbeat, CallResume, Crash, ClaimHeartbeat, SkipProfile,
            ReadRun, ReadMessages, ReadFeedback, RestartRun, FindGate, ParkRun, Work,
            BlockExhausted, Escalate, EndCall, gateVars, GatesTypeOK
      <4> QED
        BY <4>1, <4>2
    <3> QED
      BY <1>1, <2>1, <2>2, <3>1, <3>2, <3>3 DEF GatesTypeOK
  <2> QED
    BY <2>3, <2>4
<1>4. CASE DeskStep
  <2>1. BeatsHaveProfiles'
    BY <1>1, <1>4, DeskSparesBeats DEF BeatsHaveProfiles, SameButHeld
  <2> QED
    BY <1>1, <1>4, <2>1, DesksKeepTypes DEF DeskStep, profileVars
<1>5. CASE \/ UNCHANGED vars
           \/ \E p \in Profiles : ExpireLease(p) \/ BecomeDue(p)
           \/ \E p \in Profiles, s \in ProfileStatus : UpdateProfileStatus(p, s)
  <2>1. UNCHANGED <<runStatus, feedback, stopped, desk, turn, beat>>
    BY <1>5 DEF vars, gateVars, ExpireLease, BecomeDue, UpdateProfileStatus
  <2> QED
    BY <1>1, <2>1 DEF GatesTypeOK, BeatsHaveProfiles
<1> QED
  BY <1>3, <1>4, <1>5 DEF Next

\* Rows, gates, desks and calls keep their types.  Of the ranks in the due list
\* this says that no two profiles come to share one, however the calls overlap
\* that record heartbeats (record_worker_profile_heartbeat).
THEOREM ProfileTypes == Spec => []TypeOK
<1>1. Init => TypeOK /\ BeatsHaveProfiles
  <2> SUFFICES ASSUME Init PROVE TypeOK /\ BeatsHaveProfiles
    OBVIOUS
  <2>1. LeaseInv
    BY InitLease
  <2>2. GatesTypeOK
    BY DEF Init, GatesInit, GatesTypeOK, RunStatus, Item, NewItem, FeedbackStatus,
           IdleDesk, DeskState
  <2>3. BeatsHaveProfiles
    BY DEF Init, BeatsHaveProfiles, IdleBeat
  <2> QED
    BY <2>1, <2>2, <2>3 DEF Init, TypeOK, LeaseInv, RowsOK
<1>2. TypeOK /\ BeatsHaveProfiles /\ LeaseInv' /\ [Next]_vars => (TypeOK /\ BeatsHaveProfiles)'
  BY NextTypes
<1>3. Spec => []LeaseInv
  BY LeaseInductive
<1> QED
  BY <1>1, <1>2, <1>3, PTL DEF Spec
=============================================================================
