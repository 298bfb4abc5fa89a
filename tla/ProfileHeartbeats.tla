-------------------------- MODULE ProfileHeartbeats --------------------------
(***************************************************************************)
(* Worker profiles and their heartbeats: run_profile_heartbeat, the        *)
(* scheduler pass over due profiles and resume_run, which runs the         *)
(* heartbeats of all active profiles.  A beat is one such call.  A         *)
(* heartbeat takes the lease of its profile, builds a resume plan from     *)
(* three separate reads, works or stops at the gate, and records itself,   *)
(* which gives the lease back.                                             *)
(*                                                                         *)
(* heartbeat_lease_until is abstracted to the claim that set it while it   *)
(* lies in the future, and to Expired once it has passed.                  *)
(***************************************************************************)
EXTENDS RunGates

CONSTANTS Beats,       \* concurrent calls
          Scheduler,   \* the one that runs scheduler passes in a loop
          MaxProfiles, \* max_profiles of a scheduler request
          NoLease,     \* the null of heartbeat_lease_until
          Expired,     \* a deadline that has passed
          OnTime       \* does every live heartbeat end within its lease?

ASSUME BeatAssumption ==
    /\ IsFiniteSet(Profiles)
    /\ Scheduler \in Beats
    /\ MaxProfiles \in Nat \ {0}
    /\ NoLease \notin Beats
    /\ Expired \notin Beats
    /\ NoLease # Expired
    /\ OnTime \in BOOLEAN

VARIABLES profile, \* profile[p]: the row of profile p
          turn,    \* turn[p]: rank by coalesce(last_heartbeat_at, created_at)
          beat

vars == <<runStatus, feedback, stopped, desk, profile, turn, beat>>

profileVars == <<profile, turn>>

\* No code tells "paused" from "stopped"; the model has one of them.
ProfileStatus == {"active", "stopped"}

ProfileRow ==
    [status : ProfileStatus,
     due    : BOOLEAN,                         \* poll_interval_seconds have passed
     lease  : Beats \cup {NoLease, Expired}]

\* Steps of run_profile_heartbeat between the claim and the record.
Leased == {"run", "messages", "feedback", "gates", "file", "park", "work",
           "escalate", "record"}

BeatState ==
    [pc      : {"idle", "next", "restart"} \cup Leased,
     agenda  : SUBSET Profiles,             \* profiles still to be visited
     profile : Profiles \cup {NoProfile},   \* NoProfile in resume_run itself
     resumes : BOOLEAN,                     \* the call is resume_run
     blocked : BOOLEAN,                     \* the plan has a blocked reason
     asks    : Gate \cup {NoGate},          \* the confirmation it needs
     held    : SUBSET Items]                \* open since the heartbeat was claimed

IdleBeat == [pc |-> "idle", agenda |-> {}, profile |-> NoProfile,
             resumes |-> FALSE, blocked |-> FALSE, asks |-> NoGate, held |-> {}]

TypeOK ==
    /\ GatesTypeOK
    /\ profile \in [Profiles -> ProfileRow]
    /\ turn \in [Profiles -> 1 .. Cardinality(Profiles)]
    /\ \A p, q \in Profiles : turn[p] = turn[q] => p = q
    /\ beat \in [Beats -> BeatState]

Init ==
    /\ GatesInit
    /\ profile = [p \in Profiles |-> [status |-> "stopped", due |-> TRUE, lease |-> NoLease]]
    /\ turn \in [Profiles -> 1 .. Cardinality(Profiles)]
    /\ \A p, q \in Profiles : turn[p] = turn[q] => p = q
    /\ beat = [h \in Beats |-> IdleBeat]

-----------------------------------------------------------------------------
At(h, label) == beat[h].pc = label

Become(h, state) == beat' = [beat EXCEPT ![h] = state]

Proceed(h, label) == Become(h, [beat[h] EXCEPT !.pc = label])

\* A heartbeat of p is under way.
Beating(h, p) == beat[h].profile = p /\ beat[h].pc \in Leased

Active == {p \in Profiles : profile[p].status = "active"}

Free(p) == profile[p].lease \in {NoLease, Expired}

\* list_due_worker_profiles
DueProfiles ==
    LET due == {p \in Active : profile[p].due /\ Free(p)} IN
    {p \in due : Cardinality({q \in due : turn[q] < turn[p]}) < MaxProfiles}

\* try_claim_worker_profile_heartbeat.  Faulty variant: the lease is
\* not looked at.
ClaimableHoweverLeased(p) == p \in Active

Claimable(p) == p \in Active /\ Free(p)

\* record_worker_profile_heartbeat clears whatever lease there is.  Faulty
\* variants: last_heartbeat_at stays as it was, or ties with the newest.
RecordAndKeepRank(p) ==
    /\ profile' = [profile EXCEPT ![p].due = FALSE, ![p].lease = NoLease]
    /\ UNCHANGED turn

RecordAndTie(p) ==
    /\ profile' = [profile EXCEPT ![p].due = FALSE, ![p].lease = NoLease]
    /\ turn' = [turn EXCEPT ![p] = Cardinality(Profiles)]

RecordHeartbeat(p) ==
    /\ profile' = [profile EXCEPT ![p].due = FALSE, ![p].lease = NoLease]
    /\ turn' = [q \in Profiles |->
                  IF q = p THEN Cardinality(Profiles)
                  ELSE IF turn[q] > turn[p] THEN turn[q] - 1 ELSE turn[q]]

-----------------------------------------------------------------------------
(* How a call begins *)

\* run_due_profile_scheduler
StartPass(h) ==
    /\ At(h, "idle")
    /\ DueProfiles # {}
    /\ Become(h, [IdleBeat EXCEPT !.pc = "next", !.agenda = DueProfiles])
    /\ UNCHANGED <<gateVars, profileVars>>

\* A person's heartbeat, or the --watch loop of one profile.
CallHeartbeat(h, p) ==
    /\ At(h, "idle")
    /\ h # Scheduler
    /\ Become(h, [IdleBeat EXCEPT !.pc = "next", !.agenda = {p}])
    /\ UNCHANGED <<gateVars, profileVars>>

\* resume_run begins with a plan of its own.
CallResume(h) ==
    /\ At(h, "idle")
    /\ h # Scheduler
    /\ Become(h, [IdleBeat EXCEPT !.pc = "run", !.resumes = TRUE])
    /\ UNCHANGED <<gateVars, profileVars>>

-----------------------------------------------------------------------------
(* The heartbeat *)

ClaimHeartbeat(h, p) ==
    /\ At(h, "next")
    /\ p \in beat[h].agenda
    /\ Claimable(p)
    /\ profile' = [profile EXCEPT ![p].lease = h]
    /\ Become(h, [beat[h] EXCEPT !.pc = "run", !.agenda = @ \ {p}, !.profile = p,
                                 !.blocked = FALSE, !.held = OpenItems])
    /\ UNCHANGED <<gateVars, turn>>

\* Faulty variant of SkipProfile: a skipped heartbeat is recorded.
SkipAndRecord(h, p) ==
    /\ At(h, "next")
    /\ p \in beat[h].agenda
    /\ ~Claimable(p)
    /\ RecordHeartbeat(p)
    /\ Become(h, [beat[h] EXCEPT !.agenda = @ \ {p}])
    /\ UNCHANGED gateVars

\* Not active, or heartbeat_already_running.
SkipProfile(h, p) ==
    /\ At(h, "next")
    /\ p \in beat[h].agenda
    /\ ~Claimable(p)
    /\ Become(h, [beat[h] EXCEPT !.agenda = @ \ {p}])
    /\ UNCHANGED <<gateVars, profileVars>>

\* build_resume_plan: the run ...  A completed run blocks only resume_run, and
\* only if there is nothing to resume.
ReadRun(h) ==
    /\ At(h, "run")
    /\ \E nothingLeft \in BOOLEAN :
         Become(h, [beat[h] EXCEPT
           !.pc = "messages",
           !.blocked = \/ runStatus = "waiting_for_human"
                       \/ /\ runStatus = "completed"
                          /\ beat[h].profile = NoProfile
                          /\ nothingLeft])
    /\ UNCHANGED <<gateVars, profileVars>>

\* ... then the A2A tasks ...
ReadMessages(h) ==
    /\ At(h, "messages")
    /\ Become(h, [beat[h] EXCEPT !.pc = "feedback", !.blocked = @ \/ stopped])
    /\ UNCHANGED <<gateVars, profileVars>>

\* A bound: every heartbeat that finds the project memory in doubt can still
\* record the item that asks for confirmation.
Room == Cardinality({h \in Beats : beat[h].pc \in {"gates", "file"}}) < Cardinality(Unused)

StopAtGate(h) ==
    Become(h, IF beat[h].profile = NoProfile
              THEN IdleBeat ELSE [beat[h] EXCEPT !.pc = "record"])

\* resume_run goes on with the profiles it has just listed; a heartbeat works,
\* or has to ask first because the project memory policy says so.
GoAhead(h) ==
    LET p == beat[h].profile IN
    \/ /\ p = NoProfile
       /\ Become(h, [beat[h] EXCEPT !.pc = "restart", !.agenda = Active])
    \/ /\ p # NoProfile
       /\ Proceed(h, "work")
    \/ /\ p # NoProfile
       /\ Room
       /\ \E q \in Policies :
            Become(h, [beat[h] EXCEPT !.pc = "gates", !.asks = <<p, q>>])

\* ... then the feedback items.  Faulty variant: open items do not block.
TrustRunStatus(h) ==
    /\ At(h, "feedback")
    /\ IF beat[h].blocked THEN StopAtGate(h) ELSE GoAhead(h)
    /\ UNCHANGED <<gateVars, profileVars>>

ReadFeedback(h) ==
    /\ At(h, "feedback")
    /\ IF beat[h].blocked \/ OpenItems # {} THEN StopAtGate(h) ELSE GoAhead(h)
    /\ UNCHANGED <<gateVars, profileVars>>

\* resume_run puts the run back and visits the profiles.
RestartRun(h) ==
    /\ At(h, "restart")
    /\ runStatus' = "running"
    /\ Proceed(h, "next")
    /\ UNCHANGED <<feedback, stopped, profileVars>>

GateStands(h) == Become(h, [beat[h] EXCEPT !.pc = "park", !.asks = NoGate])

\* _ensure_project_memory_policy_feedback_gate looks for the gate ...
FindGate(h) ==
    /\ At(h, "gates")
    /\ IF GatesOf(beat[h].asks) = {} THEN Proceed(h, "file") ELSE GateStands(h)
    /\ UNCHANGED <<gateVars, profileVars>>

\* ... opens one if there is none ...
FileGate(h) ==
    /\ At(h, "file")
    /\ \E i \in Items : RecordFeedback(i, beat[h].asks)
    /\ GateStands(h)
    /\ UNCHANGED <<runStatus, stopped, profileVars>>

\* ... and parks the run.
ParkRun(h) ==
    /\ At(h, "park")
    /\ runStatus' = "waiting_for_human"
    /\ Proceed(h, "record")
    /\ UNCHANGED <<feedback, stopped, profileVars>>

\* The worker cycle: see AgentWorker.  resume_run ends with one of its own.
Work(h) ==
    /\ At(h, "work")
    /\ IF beat[h].profile = NoProfile THEN Become(h, IdleBeat) ELSE Proceed(h, "record")
    /\ UNCHANGED <<gateVars, profileVars>>

\* A worker of the cycle blocks exhausted tasks ...
BlockExhausted(h) ==
    /\ At(h, "work")
    /\ stopped' = TRUE
    /\ Proceed(h, "escalate")
    /\ UNCHANGED <<runStatus, feedback, profileVars>>

\* ... and parks the run; the cycle goes on.
Escalate(h) ==
    /\ At(h, "escalate")
    /\ runStatus' = "waiting_for_human"
    /\ Proceed(h, "work")
    /\ UNCHANGED <<feedback, stopped, profileVars>>

Record(h) ==
    /\ At(h, "record")
    /\ RecordHeartbeat(beat[h].profile)
    /\ Become(h, [beat[h] EXCEPT !.pc = "next", !.profile = NoProfile,
                                 !.blocked = FALSE, !.held = {}])
    /\ UNCHANGED gateVars

EndCall(h) ==
    /\ At(h, "next")
    /\ beat[h].agenda = {}
    /\ Become(h, IF beat[h].resumes THEN [IdleBeat EXCEPT !.pc = "work"] ELSE IdleBeat)
    /\ UNCHANGED <<gateVars, profileVars>>

\* The process dies, or the work raises: an exception ends the whole call.
\* The lease stays until its deadline.
Crash(h) ==
    /\ ~At(h, "idle")
    /\ Become(h, IdleBeat)
    /\ UNCHANGED <<gateVars, profileVars>>

BeatStep(h) ==
    \/ \E p \in Profiles : ClaimHeartbeat(h, p) \/ SkipProfile(h, p)
    \/ ReadRun(h)
    \/ ReadMessages(h)
    \/ ReadFeedback(h)
    \/ RestartRun(h)
    \/ FindGate(h)
    \/ FileGate(h)
    \/ ParkRun(h)
    \/ Work(h)
    \/ BlockExhausted(h)
    \/ Escalate(h)
    \/ Record(h)
    \/ EndCall(h)

-----------------------------------------------------------------------------
(* Time and people *)

\* now() passes heartbeat_lease_until.
ExpireLease(p) ==
    /\ profile[p].lease \in Beats
    /\ OnTime => ~Beating(profile[p].lease, p)
    /\ profile' = [profile EXCEPT ![p].lease = Expired]
    /\ UNCHANGED <<gateVars, desk, turn, beat>>

\* now() passes last_heartbeat_at + poll_interval_seconds.
BecomeDue(p) ==
    /\ ~profile[p].due
    /\ profile' = [profile EXCEPT ![p].due = TRUE]
    /\ UNCHANGED <<gateVars, desk, turn, beat>>

\* The status, start and stop endpoints.
UpdateProfileStatus(p, s) ==
    /\ profile[p].status # s
    /\ profile' = [profile EXCEPT ![p].status = s]
    /\ UNCHANGED <<gateVars, desk, turn, beat>>

BeatNext ==
    \E h \in Beats :
        /\ \/ StartPass(h)
           \/ \E p \in Profiles : CallHeartbeat(h, p)
           \/ CallResume(h)
           \/ BeatStep(h)
           \/ Crash(h)
        /\ UNCHANGED desk

\* What a desk closes is no longer held; nothing reads held but a property.
DeskStep ==
    /\ DeskNext
    /\ Unused' = Unused \/ Room
    /\ beat' = [h \in Beats |-> [beat[h] EXCEPT !.held = @ \cap OpenItems']]
    /\ UNCHANGED profileVars

Next ==
    \/ BeatNext
    \/ DeskStep
    \/ \E p \in Profiles : ExpireLease(p) \/ BecomeDue(p)
    \/ \E p \in Profiles, s \in ProfileStatus : UpdateProfileStatus(p, s)

Spec == Init /\ [][Next]_vars

(***************************************************************************)
(* Fairness.  The scheduler loops for ever, a call that has begun goes on, *)
(* its worker cycle ends after max_rounds at the latest, and deadlines     *)
(* pass.  At some point calls stop dying and people leave the profiles     *)
(* alone: a profile that is stopped each time a pass has listed it would   *)
(* keep its rank and hold up the ones behind it.                           *)
(***************************************************************************)
NoMoreCrashes == <>[][\A h \in Beats : Crash(h) => BeatStep(h)]_vars

ProfilesLeftAlone ==
    <>[][\A p \in Profiles, s \in ProfileStatus : ~UpdateProfileStatus(p, s)]_vars

Fairness ==
    /\ WF_vars(StartPass(Scheduler) /\ UNCHANGED desk)
    /\ \A h \in Beats :
         /\ WF_vars(BeatStep(h) /\ UNCHANGED desk)
         /\ SF_vars(Work(h) /\ UNCHANGED desk)
    /\ \A p \in Profiles : WF_vars(ExpireLease(p))
    /\ NoMoreCrashes
    /\ ProfilesLeftAlone

FairSpec == Spec /\ Fairness

-----------------------------------------------------------------------------
(* Properties *)

\* While heartbeats end within their lease, a profile has one at a time,
\* however its manual heartbeats, scheduler passes and resumed runs overlap
\* and whichever of them die.
OneHeartbeatAtATime ==
    \A p \in Profiles : \A g, h \in Beats : Beating(g, p) /\ Beating(h, p) => g = h

(***************************************************************************)
(* Why: a heartbeat on time still has its lease.                           *)
(***************************************************************************)
RowsOK ==
    /\ profile \in [Profiles -> ProfileRow]
    /\ beat \in [Beats -> BeatState]

LeasesAreHeld ==
    OnTime => \A p \in Profiles, h \in Beats : Beating(h, p) => profile[p].lease = h

LeaseInv == RowsOK /\ LeasesAreHeld

\* A lease that has not expired is given back only by the heartbeat that took
\* it, and that is its last step.
GivenBackByHolder ==
    \A p \in Profiles, h \in Beats :
        profile[p].lease = h /\ profile'[p].lease = NoLease =>
            Beating(h, p) /\ ~Beating(h, p)'

LeaseIsItsHolders == [][GivenBackByHolder]_vars

\* A heartbeat never works while a gate is open that has been so ever since its
\* claim, even if a retry, a resumed run or an answer to another item has put the
\* run back meanwhile.  A gate that is closed and re-opened meanwhile counts as
\* opened later.
GatesStopHeartbeats ==
    \A h \in Beats, p \in Profiles :
        Beating(h, p) /\ beat[h].pc \in {"work", "escalate"} => beat[h].held = {}

\* Why: what is held is open, so a heartbeat that reads no open item holds none.
HeldItemsAreOpen == \A h \in Beats : beat[h].held \subseteq OpenItems

GateInv ==
    /\ feedback \in [Items -> Item]
    /\ HeldItemsAreOpen
    /\ GatesStopHeartbeats

\* Item i stands for g and was never answered.
AsksFirst(i, g) ==
    /\ feedback[i].gate = g
    /\ feedback[i].status \in {"open", "routed"}
    /\ ~feedback[i].reopened

\* A heartbeat never makes a profile wait twice for one confirmation: of the
\* items that ask for it, all but one were answered and have been set back to
\* open or routed by a person, whatever calls overlapped in between and whoever
\* routed or answered the items.
OneGatePerQuestion ==
    \A g \in Gate : \A i, j \in Items :
        AsksFirst(i, g) /\ AsksFirst(j, g) => i = j

\* A due and active profile is visited, although others are due with it, calls
\* overlap, and leases are left behind by calls that died.
DueProfilesBeat ==
    \A p \in Profiles :
        (p \in Active /\ profile[p].due) ~> (p \notin Active \/ ~profile[p].due)
=============================================================================
