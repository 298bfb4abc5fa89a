----------------------------- MODULE EdgeProofs -----------------------------
(***************************************************************************)
(* The processes beside the API, the turns of the voice agent and the      *)
(* caches of the speech detector.                                          *)
(***************************************************************************)
EXTENDS MCEdges, FiniteSetTheorems, WellFoundedInduction, TLAPS

-----------------------------------------------------------------------------
(***************************************************************************)
(* The supervisors, for every set of them, of children and settings and    *)
(* any number of lives of the API.  The inductive invariant says where the *)
(* children are: a child of this life that is alive is the one its         *)
(* supervisor holds and has not been reaped, the lock's holder spawns only *)
(* when nothing runs, and a supervisor that the end of a life has dealt    *)
(* with holds nothing or is about to.                                      *)
(***************************************************************************)

\* A supervisor holds a child of its own, of this life of the API.
HandlesAreOwn ==
    \A s \in Supervisors :
        handle[s] # NoChild =>
            /\ api # "down"
            /\ child[handle[s]].state # "unused"
            /\ child[handle[s]].of = {s}
            /\ child[handle[s]].life = life

ReapedAreDead == \A p \in reaped : child[p].state \notin {"alive", "unused"}

AliveAreHeld ==
    \A s \in Supervisors, p \in Children :
        Alive(p) /\ child[p].of = {s} /\ child[p].life = life /\ api # "down" => handle[s] = p

AliveAreSingle ==
    \A s \in Supervisors, p, q \in Children :
        /\ Alive(p) /\ child[p].of = {s}
        /\ Alive(q) /\ child[q].of = {s}
        /\ child[p].life = child[q].life
        => p = q

LivesAreCounted == \A p \in Children : child[p].life <= life

\* Without a crash or a refused kill no life leaves a child to the next.
NoneLeftBehind ==
    \A s \in StoppedAtShutdown \ spared, p \in Children :
        ~crashed /\ Alive(p) /\ child[p].of = {s} => api # "down" /\ handle[s] = p

ChildrenKnown ==
    /\ HandlesAreOwn
    /\ ReapedAreDead
    /\ AliveAreHeld
    /\ AliveAreSingle
    /\ LivesAreCounted
    /\ NoneLeftBehind

\* A start spawns its child when no other runs.
JobsOK ==
    \A s \in Supervisors :
        /\ job[s] # Free => api # "down"
        /\ job[s].at = "spawn" => ~Running(s) /\ shown[s] = job[s].settings

ShowsItsChild ==
    \A s \in Supervisors : Running(s) =>
        /\ shown[s] = child[handle[s]].settings
        /\ job[s] = Free => status[s] = "running"

\* What the end of a life has dealt with.
EndStops ==
    /\ api # "stopping" => ending = {}
    /\ \A s \in StoppedAtShutdown \ (ending \cup spared) :
           api = "stopping" =>
               \/ job[s] = Free /\ handle[s] = NoChild
               \/ job[s].at \in {"wait", "killed"} /\ job[s].settings = {}

SupervisorsInv ==
    /\ SupervisorsTypeOK
    /\ ChildrenKnown
    /\ JobsOK
    /\ ShowsItsChild
    /\ EndStops

-----------------------------------------------------------------------------
LEMMA InitSupervisors == SupervisorsInit => SupervisorsInv
<1> SUFFICES ASSUME SupervisorsInit PROVE SupervisorsInv
  OBVIOUS
<1> USE SupervisorAssumption DEF SupervisorsInit
<1>1. SupervisorsTypeOK
  <2>1. Unused \in ChildState /\ Free \in JobState /\ 1 \in 1..MaxLives
    BY DEF Free, JobState, Unused, ChildState
  <2> QED
    BY <2>1 DEF SupervisorsTypeOK
<1>2. ChildrenKnown
  BY DEF ChildrenKnown, HandlesAreOwn, ReapedAreDead, AliveAreHeld, AliveAreSingle,
         LivesAreCounted, NoneLeftBehind, Alive, Unused
<1>3. JobsOK /\ ShowsItsChild /\ EndStops
  BY DEF JobsOK, ShowsItsChild, EndStops, Free, Running
<1> QED
  BY <1>1, <1>2, <1>3 DEF SupervisorsInv

LEMMA JobType ==
  ASSUME SupervisorsTypeOK, NEW s \in Supervisors,
         NEW at \in {"free", "wait", "killed", "spawn"}, NEW new \in SUBSET Settings,
         job' = [job EXCEPT ![s] = [at |-> at, settings |-> new]]
  PROVE  job' \in [Supervisors -> JobState]
  BY DEF SupervisorsTypeOK, JobState

LEMMA ReleaseType ==
  ASSUME SupervisorsTypeOK, NEW s \in Supervisors, Release(s)
  PROVE  job' \in [Supervisors -> JobState]
<1>1. Free \in JobState
  BY DEF Free, JobState
<1> QED
  BY <1>1 DEF Release, SupervisorsTypeOK

\* Where no child, handle, life or return code changes.
LEMMA ChildrenStay ==
  ASSUME ChildrenKnown, UNCHANGED <<handle, reaped, child, api, life, crashed>>,
         spared \subseteq spared'
  PROVE  ChildrenKnown'
  BY DEF ChildrenKnown, HandlesAreOwn, ReapedAreDead, AliveAreHeld, AliveAreSingle,
         LivesAreCounted, NoneLeftBehind, Alive

\* A supervisor lets go of a child that is dead, or of none.
LEMMA ChildrenLetGo ==
  ASSUME SupervisorsTypeOK, ChildrenKnown, NEW s \in Supervisors, ~Running(s),
         handle' = [handle EXCEPT ![s] = NoChild],
         UNCHANGED <<reaped, child, spared, api, life, crashed>>
  PROVE  ChildrenKnown'
<1> USE SupervisorAssumption DEF SupervisorsTypeOK, ChildrenKnown
<1>1. HandlesAreOwn' /\ ReapedAreDead'
  BY DEF HandlesAreOwn, ReapedAreDead
<1>2. \A p \in Children : Alive(p) => handle[s] # p
  BY DEF ReapedAreDead, Running, Alive
<1>3. AliveAreHeld' /\ AliveAreSingle' /\ LivesAreCounted'
  BY <1>2 DEF AliveAreHeld, AliveAreSingle, LivesAreCounted, Alive
<1>4. NoneLeftBehind'
  BY <1>2 DEF NoneLeftBehind, Alive
<1> QED
  BY <1>1, <1>3, <1>4

-----------------------------------------------------------------------------
LEMMA StatusKeeps ==
  ASSUME SupervisorsInv, NEW s \in Supervisors, Status(s)
  PROVE  SupervisorsInv'
<1> USE DEF SupervisorsInv, Status
<1>1. SupervisorsTypeOK'
  BY DEF SupervisorsTypeOK, Note, Refreshed, Outcome
<1>2. ChildrenKnown'
  BY ChildrenStay
<1>3. JobsOK' /\ EndStops'
  BY DEF JobsOK, EndStops, Running
<1>4. ShowsItsChild'
  BY DEF ShowsItsChild, SupervisorsTypeOK, Note, Refreshed, Running
<1> QED
  BY <1>1, <1>2, <1>3, <1>4

\* From here on a start is under way.
LEMMA PrepareKeeps ==
  ASSUME SupervisorsTypeOK', NEW s \in Supervisors, NEW new \in SUBSET Settings,
         SupervisorsTypeOK, JobsOK, ShowsItsChild, Prepare(s, new), ~Running(s)', api # "down",
         \A t \in Supervisors : t # s => handle'[t] = handle[t],
         UNCHANGED <<reaped, child, api>>
  PROVE  JobsOK' /\ ShowsItsChild'
<1>1. /\ job'[s] = [at |-> "spawn", settings |-> new] /\ shown'[s] = new
      /\ \A t \in Supervisors : t # s => /\ job'[t] = job[t] /\ shown'[t] = shown[t]
                                         /\ status'[t] = status[t]
  BY DEF Prepare, Hold, Note, SupervisorsTypeOK
<1>2. JobsOK'
  BY <1>1 DEF JobsOK, Running
<1>3. ShowsItsChild'
  BY <1>1 DEF ShowsItsChild, Running
<1> QED
  BY <1>2, <1>3

LEMMA StartKeeps ==
  ASSUME SupervisorsInv, NEW s \in Supervisors, Start(s)
  PROVE  SupervisorsInv'
<1> USE DEF SupervisorsInv
<1>0. /\ api = "up" /\ job[s] = Free
      /\ UNCHANGED <<handle, reaped, child, spared, api, ending, life, crashed>>
  BY DEF Start, Serves
<1>1. PICK new \in Settings, force \in BOOLEAN :
         \/ Running(s) /\ ~force /\ Note(s, "running") /\ UNCHANGED <<shown, job>>
         \/ Running(s) /\ force /\ Note(s, "running") /\ Hold(s, "wait", {new}) /\ UNCHANGED shown
         \/ ~Running(s) /\ Prepare(s, {new})
  BY DEF Start
<1>2. SupervisorsTypeOK'
  BY <1>0, <1>1, JobType DEF SupervisorsTypeOK, Note, Hold, Prepare
<1>3. ChildrenKnown' /\ EndStops'
  BY <1>0, ChildrenStay DEF EndStops
<1>4. CASE ~Running(s) /\ Prepare(s, {new})
  BY <1>0, <1>2, <1>3, <1>4, PrepareKeeps DEF Running
<1>5. CASE Running(s) /\ Note(s, "running") /\ UNCHANGED <<shown, job>>
  <2>1. JobsOK'
    BY <1>0, <1>5 DEF JobsOK, Running
  <2>2. ShowsItsChild'
    BY <1>0, <1>5 DEF ShowsItsChild, Running, Note, SupervisorsTypeOK
  <2> QED
    BY <1>2, <1>3, <2>1, <2>2
<1>6. CASE Running(s) /\ Note(s, "running") /\ Hold(s, "wait", {new}) /\ UNCHANGED shown
  <2>1. JobsOK'
    BY <1>0, <1>6 DEF JobsOK, Running, Hold, SupervisorsTypeOK
  <2>2. ShowsItsChild'
    BY <1>0, <1>6 DEF ShowsItsChild, Running, Note, Hold, Free, SupervisorsTypeOK
  <2> QED
    BY <1>2, <1>3, <2>1, <2>2
<1> QED
  BY <1>1, <1>4, <1>5, <1>6

\* The supervisor's own child is the only one of this life, and of any life
\* when nothing is left behind.
LEMMA SpawnKeeps ==
  ASSUME SupervisorsInv, NEW s \in Supervisors, Spawn(s)
  PROVE  SupervisorsInv'
<1> USE SupervisorAssumption DEF SupervisorsInv, ChildrenKnown
<1>0. PICK p \in Children :
         /\ child[p] = Unused
         /\ child' = [child EXCEPT ![p] = [state |-> "alive", of |-> {s}, life |-> life,
                                           settings |-> job[s].settings]]
         /\ handle' = [handle EXCEPT ![s] = p]
  BY DEF Spawn
<1>1. /\ job[s].at = "spawn" /\ api # "down" /\ Note(s, "running") /\ Release(s)
      /\ UNCHANGED <<reaped, shown, spared, api, ending, life, crashed>>
  BY DEF Spawn
<1>2. /\ child'[p].state = "alive" /\ child'[p].of = {s} /\ child'[p].life = life
      /\ child'[p].settings = job[s].settings
      /\ \A q \in Children : q # p => child'[q] = child[q]
  BY <1>0 DEF SupervisorsTypeOK
<1>3. handle'[s] = p /\ \A t \in Supervisors : t # s => handle'[t] = handle[t]
  BY <1>0 DEF SupervisorsTypeOK
<1>4. child[p].state = "unused" /\ p \notin reaped
      /\ \A t \in Supervisors : t # s => handle[t] # p
  BY <1>0 DEF ReapedAreDead, HandlesAreOwn, Unused
<1>5. \A q \in Children : Alive(q) => handle[s] # q
  BY <1>1 DEF JobsOK, Running, ReapedAreDead, Alive
<1>6. SupervisorsTypeOK'
  <2>1. job[s].settings \subseteq Settings
    BY DEF SupervisorsTypeOK, JobState
  <2>2. child' \in [Children -> ChildState]
    BY <1>0, <2>1 DEF SupervisorsTypeOK, ChildState
  <2>3. job' \in [Supervisors -> JobState]
    BY <1>1, ReleaseType
  <2> QED
    BY <1>0, <1>1, <2>2, <2>3 DEF SupervisorsTypeOK, Note
<1>7. HandlesAreOwn'
  BY <1>1, <1>2, <1>3, <1>4 DEF HandlesAreOwn, SupervisorsTypeOK
<1>8. ReapedAreDead'
  BY <1>1, <1>2, <1>4 DEF ReapedAreDead, SupervisorsTypeOK
<1>9. \A q \in Children : ~(Alive(q) /\ child[q].of = {s} /\ child[q].life = life)
  BY <1>1, <1>5 DEF AliveAreHeld
<1>10. AliveAreHeld'
  <2> SUFFICES ASSUME NEW t \in Supervisors, NEW q \in Children,
                      Alive(q)', child'[q].of = {t}, child'[q].life = life, api # "down"
               PROVE  handle'[t] = q
    BY <1>1 DEF AliveAreHeld
  <2>1. CASE q = p
    BY <1>2, <1>3, <2>1
  <2>2. CASE q # p
    BY <1>2, <1>3, <1>9, <2>2 DEF AliveAreHeld, Alive
  <2> QED
    BY <2>1, <2>2
<1>11. AliveAreSingle'
  BY <1>2, <1>9 DEF AliveAreSingle, Alive
<1>12. LivesAreCounted'
  BY <1>1, <1>2 DEF LivesAreCounted, SupervisorsTypeOK
<1>13. NoneLeftBehind'
  <2> SUFFICES ASSUME NEW t \in StoppedAtShutdown \ spared, NEW q \in Children,
                      ~crashed, Alive(q)', child'[q].of = {t}
               PROVE  handle'[t] = q
    BY <1>1 DEF NoneLeftBehind
  <2>1. CASE q = p
    BY <1>2, <1>3, <2>1
  <2>2. CASE q # p
    <3>1. Alive(q) /\ child[q].of = {t}
      BY <1>2, <2>2 DEF Alive
    <3>2. handle[t] = q
      BY <3>1 DEF NoneLeftBehind
    <3> QED
      BY <1>3, <1>5, <3>1, <3>2
  <2> QED
    BY <2>1, <2>2
<1>14. JobsOK'
  BY <1>1, <1>3 DEF JobsOK, Release, Free, Running, SupervisorsTypeOK
<1>15. ShowsItsChild'
  <2>1. shown'[s] = child'[p].settings /\ status'[s] = "running"
    BY <1>1, <1>2 DEF JobsOK, Note, SupervisorsTypeOK
  <2>2. ASSUME NEW t \in Supervisors, t # s, Running(t)'
        PROVE  Running(t) /\ child'[handle'[t]] = child[handle[t]] /\ handle'[t] = handle[t]
               /\ status'[t] = status[t] /\ job'[t] = job[t]
    BY <1>1, <1>2, <1>3, <1>4, <2>2 DEF Running, SupervisorsTypeOK, Note, Release
  <2> QED
    BY <1>1, <1>3, <2>1, <2>2 DEF ShowsItsChild
<1>16. EndStops'
  BY <1>1, <1>3 DEF EndStops, JobsOK, Release, SupervisorsTypeOK, Free
<1> QED
  BY <1>6, <1>7, <1>8, <1>10, <1>11, <1>12, <1>13, <1>14, <1>15, <1>16

LEMMA SpawnFailsKeeps ==
  ASSUME SupervisorsInv, NEW s \in Supervisors, SpawnFails(s)
  PROVE  SupervisorsInv'
<1> USE DEF SupervisorsInv, SpawnFails
<1>1. SupervisorsTypeOK'
  BY ReleaseType DEF SupervisorsTypeOK, Note
<1>2. ChildrenKnown'
  BY ChildrenLetGo DEF JobsOK
<1>3. JobsOK' /\ ShowsItsChild'
  BY DEF JobsOK, ShowsItsChild, Running, Note, Release, Free, SupervisorsTypeOK
<1>4. EndStops'
  BY DEF EndStops, Release, SupervisorsTypeOK
<1> QED
  BY <1>1, <1>2, <1>3, <1>4

\* The beginning of every stop, a user's or the one at the end of a life.
LEMMA TerminateKeeps ==
  ASSUME SupervisorsInv, NEW s \in Supervisors, Terminate(s), job[s] = Free, api # "down",
         api = "up" \/ s \in ending,
         ending' \in {ending, ending \ {s}},
         UNCHANGED <<reaped, shown, child, spared, api, life, crashed>>
  PROVE  SupervisorsInv'
<1> USE DEF SupervisorsInv
<1>1. SupervisorsTypeOK'
  <2>1. job' \in [Supervisors -> JobState]
    BY JobType DEF Terminate, Hold, SupervisorsTypeOK
  <2>2. status' \in [Supervisors -> {"stopped", "starting", "running", "exited", "failed"}]
    BY DEF Terminate, Note, Outcome, SupervisorsTypeOK
  <2>3. handle' \in [Supervisors -> Children \cup {NoChild}]
    BY DEF Terminate, SupervisorsTypeOK
  <2> QED
    BY <2>1, <2>2, <2>3 DEF SupervisorsTypeOK
<1>2. ChildrenKnown'
  <2>1. CASE handle' = handle
    BY <2>1, ChildrenStay
  <2>2. CASE ~Running(s) /\ handle' = [handle EXCEPT ![s] = NoChild]
    BY <2>2, ChildrenLetGo
  <2> QED
    BY <2>1, <2>2 DEF Terminate, Running
<1>3. JobsOK' /\ ShowsItsChild'
  BY DEF JobsOK, ShowsItsChild, Terminate, Running, Hold, Note, Free, SupervisorsTypeOK
<1>4. ASSUME NEW t \in StoppedAtShutdown \ (ending' \cup spared), api = "stopping"
      PROVE  \/ job'[t] = Free /\ handle'[t] = NoChild
             \/ job'[t].at \in {"wait", "killed"} /\ job'[t].settings = {}
  <2>0. t \in Supervisors
    BY SupervisorAssumption
  <2>1. CASE t = s
    BY <2>1 DEF Terminate, Hold, SupervisorsTypeOK
  <2>2. CASE t # s
    BY <1>4, <2>0, <2>2 DEF EndStops, Terminate, Hold, SupervisorsTypeOK
  <2> QED
    BY <2>1, <2>2
<1>5. EndStops'
  BY <1>4 DEF EndStops
<1> QED
  BY <1>1, <1>2, <1>3, <1>5

LEMMA StopKeeps ==
  ASSUME SupervisorsInv, NEW s \in Supervisors, Stop(s) \/ StopAtShutdown(s)
  PROVE  SupervisorsInv'
<1>1. CASE Stop(s)
  BY <1>1, TerminateKeeps DEF Stop, Serves
<1>2. CASE StopAtShutdown(s)
  <2>1. api # "down"
    BY <1>2 DEF StopAtShutdown, SupervisorsInv, EndStops
  <2> QED
    BY <1>2, <2>1, TerminateKeeps DEF StopAtShutdown
<1> QED
  BY <1>1, <1>2

LEMMA EndedKeeps ==
  ASSUME SupervisorsInv, NEW s \in Supervisors, Ended(s)
  PROVE  SupervisorsInv'
<1> USE SupervisorAssumption DEF SupervisorsInv
<1>0. /\ api # "down" /\ job[s].at \in {"wait", "killed"} /\ ~Running(s) /\ ~Running(s)'
      /\ handle' = [handle EXCEPT ![s] = NoChild]
      /\ UNCHANGED <<reaped, child, spared, api, ending, life, crashed>>
  BY DEF Ended, Running, SupervisorsTypeOK
<1>1. ChildrenKnown'
  BY <1>0, ChildrenLetGo
<1>2. CASE job[s].settings = {} /\ Note(s, "stopped") /\ Release(s) /\ UNCHANGED shown
  <2>1. SupervisorsTypeOK'
    BY <1>0, <1>2, ReleaseType DEF SupervisorsTypeOK, Note
  <2>2. JobsOK' /\ ShowsItsChild'
    BY <1>0, <1>2 DEF JobsOK, ShowsItsChild, Running, Note, Release, Free, SupervisorsTypeOK
  <2>3. EndStops'
    BY <1>0, <1>2 DEF EndStops, Release, SupervisorsTypeOK
  <2> QED
    BY <1>1, <2>1, <2>2, <2>3
<1>3. CASE job[s].settings # {} /\ Prepare(s, job[s].settings)
  <2>0. job[s].settings \subseteq Settings
    BY DEF SupervisorsTypeOK, JobState
  <2>1. SupervisorsTypeOK'
    BY <1>0, <1>3, <2>0, JobType DEF SupervisorsTypeOK, Note, Prepare, Hold
  <2>2. JobsOK' /\ ShowsItsChild'
    <3>1. \A t \in Supervisors : t # s => handle'[t] = handle[t]
      BY <1>0 DEF SupervisorsTypeOK
    <3> QED
      BY <1>0, <1>3, <2>0, <2>1, <3>1, PrepareKeeps
  <2>3. EndStops'
    BY <1>0, <1>3 DEF EndStops, Prepare, Hold, SupervisorsTypeOK, Free
  <2> QED
    BY <1>1, <2>1, <2>2, <2>3
<1> QED
  BY <1>2, <1>3 DEF Ended

LEMMA KillKeeps ==
  ASSUME SupervisorsInv, NEW s \in Supervisors, Kill(s)
  PROVE  SupervisorsInv'
<1> USE DEF SupervisorsInv, Kill
<1>1. SupervisorsTypeOK'
  BY JobType DEF SupervisorsTypeOK, Hold, JobState
<1>2. ChildrenKnown'
  BY ChildrenStay
<1>3. JobsOK' /\ ShowsItsChild'
  BY DEF JobsOK, ShowsItsChild, Running, Hold, Free, SupervisorsTypeOK
<1>4. EndStops'
  BY DEF EndStops, Hold, Free, SupervisorsTypeOK
<1> QED
  BY <1>1, <1>2, <1>3, <1>4

LEMMA KillFailsKeeps ==
  ASSUME SupervisorsInv, NEW s \in Supervisors, KillFails(s)
  PROVE  SupervisorsInv'
<1> USE DEF SupervisorsInv, KillFails
<1>1. SupervisorsTypeOK'
  BY ReleaseType DEF SupervisorsTypeOK, Note
<1>2. ChildrenKnown'
  BY ChildrenStay
<1>3. JobsOK' /\ ShowsItsChild'
  BY DEF JobsOK, ShowsItsChild, Running, Note, Release, Free, SupervisorsTypeOK
<1>4. EndStops'
  BY DEF EndStops, Release, SupervisorsTypeOK
<1> QED
  BY <1>1, <1>2, <1>3, <1>4

LEMMA ReapKeeps ==
  ASSUME SupervisorsInv, NEW s \in Supervisors, Reap(s)
  PROVE  SupervisorsInv'
<1> USE DEF SupervisorsInv, ChildrenKnown, Reap
<1>1. SupervisorsTypeOK'
  BY DEF SupervisorsTypeOK, Running
<1>2. ReapedAreDead'
  BY DEF ReapedAreDead, HandlesAreOwn, Running, Alive
<1>3. /\ HandlesAreOwn' /\ AliveAreHeld' /\ AliveAreSingle'
      /\ LivesAreCounted' /\ NoneLeftBehind'
  BY DEF HandlesAreOwn, AliveAreHeld, AliveAreSingle, LivesAreCounted, NoneLeftBehind, Alive
<1>4. JobsOK' /\ ShowsItsChild' /\ EndStops'
  BY DEF JobsOK, ShowsItsChild, EndStops, Running
<1> QED
  BY <1>1, <1>2, <1>3, <1>4

LEMMA ChildEndsKeeps ==
  ASSUME SupervisorsInv, NEW c \in Children, ChildEnds(c)
  PROVE  SupervisorsInv'
<1> USE DEF SupervisorsInv, ChildrenKnown
<1>0. PICK st \in {"ended", "broken"} : child' = [child EXCEPT ![c].state = st]
  BY DEF ChildEnds
<1>1. UNCHANGED <<status, handle, reaped, shown, job, spared, api, ending, life, crashed>>
  BY DEF ChildEnds
<1>2. \A p \in Children : /\ child'[p].life = child[p].life /\ child'[p].of = child[p].of
                          /\ child'[p].settings = child[p].settings
                          /\ Alive(p)' => Alive(p)
                          /\ child'[p].state \in {child[p].state, "ended", "broken"}
  BY <1>0 DEF SupervisorsTypeOK, ChildState, Alive
<1>3. SupervisorsTypeOK'
  BY <1>0, <1>1 DEF SupervisorsTypeOK, ChildState
<1>4. HandlesAreOwn' /\ ReapedAreDead'
  BY <1>1, <1>2 DEF HandlesAreOwn, ReapedAreDead, SupervisorsTypeOK
<1>5. AliveAreHeld'
  BY <1>1, <1>2 DEF AliveAreHeld
<1>6. AliveAreSingle'
  BY <1>2 DEF AliveAreSingle
<1>7. LivesAreCounted' /\ NoneLeftBehind'
  BY <1>1, <1>2 DEF LivesAreCounted, NoneLeftBehind
<1>8. JobsOK' /\ EndStops'
  BY <1>1 DEF JobsOK, EndStops, Running
<1>9. ShowsItsChild'
  BY <1>1, <1>2 DEF ShowsItsChild, Running, SupervisorsTypeOK
<1> QED
  BY <1>3, <1>4, <1>5, <1>6, <1>7, <1>8, <1>9

LEMMA ShutDownKeeps ==
  ASSUME SupervisorsInv, ShutDown
  PROVE  SupervisorsInv'
<1> USE DEF SupervisorsInv, ShutDown
<1>1. SupervisorsTypeOK'
  BY DEF SupervisorsTypeOK
<1>2. ChildrenKnown'
  BY DEF ChildrenKnown, HandlesAreOwn, ReapedAreDead, AliveAreHeld, AliveAreSingle,
         LivesAreCounted, NoneLeftBehind, Alive
<1>3. JobsOK' /\ ShowsItsChild' /\ EndStops'
  BY DEF JobsOK, ShowsItsChild, EndStops, Running
<1> QED
  BY <1>1, <1>2, <1>3

\* The process of the API goes: only what the next life inherits matters.
LEMMA ForgetKeeps ==
  ASSUME SupervisorsInv, Forget, crashed' \in BOOLEAN, crashed => crashed',
         crashed' \/ \A s \in StoppedAtShutdown \ spared : handle[s] = NoChild
  PROVE  SupervisorsInv'
<1> USE SupervisorAssumption DEF SupervisorsInv, ChildrenKnown, Forget
<1>1. SupervisorsTypeOK'
  BY DEF SupervisorsTypeOK, Free, JobState
<1>2. HandlesAreOwn' /\ ReapedAreDead' /\ AliveAreHeld'
  BY DEF HandlesAreOwn, ReapedAreDead, AliveAreHeld
<1>3. AliveAreSingle' /\ LivesAreCounted'
  BY DEF AliveAreSingle, LivesAreCounted, Alive
<1>4. NoneLeftBehind'
  BY DEF NoneLeftBehind, Alive
<1>5. JobsOK' /\ ShowsItsChild' /\ EndStops'
  BY DEF JobsOK, ShowsItsChild, EndStops, Running, Free
<1> QED
  BY <1>1, <1>2, <1>3, <1>4, <1>5

LEMMA LifeEndsKeeps ==
  ASSUME SupervisorsInv, Exit \/ Crash
  PROVE  SupervisorsInv'
<1>1. CASE Exit
  <2>1. \A s \in StoppedAtShutdown \ spared : handle[s] = NoChild
    BY <1>1, SupervisorAssumption DEF Exit, SupervisorsInv, EndStops, Free
  <2>2. crashed' = crashed /\ crashed \in BOOLEAN
    BY <1>1 DEF Exit, SupervisorsInv, SupervisorsTypeOK
  <2> QED
    BY <1>1, <2>1, <2>2, ForgetKeeps DEF Exit
<1>2. CASE Crash
  BY <1>2, ForgetKeeps DEF Crash
<1> QED
  BY <1>1, <1>2

LEMMA BootKeeps ==
  ASSUME SupervisorsInv, Boot
  PROVE  SupervisorsInv'
<1> USE SupervisorAssumption DEF SupervisorsInv, ChildrenKnown, Boot
<1>1. SupervisorsTypeOK'
  BY DEF SupervisorsTypeOK
<1>2. LivesAreCounted' /\ AliveAreHeld'
  BY DEF LivesAreCounted, AliveAreHeld, SupervisorsTypeOK, ChildState
<1>3. HandlesAreOwn' /\ ReapedAreDead' /\ AliveAreSingle' /\ NoneLeftBehind'
  BY DEF HandlesAreOwn, ReapedAreDead, AliveAreSingle, NoneLeftBehind, Alive
<1>4. JobsOK' /\ ShowsItsChild' /\ EndStops'
  BY DEF JobsOK, ShowsItsChild, EndStops, Running
<1> QED
  BY <1>1, <1>2, <1>3, <1>4

-----------------------------------------------------------------------------
LEMMA SupervisorsStep ==
  ASSUME SupervisorsInv, [SupervisorsNext]_supervisorVars
  PROVE  SupervisorsInv'
<1>1. CASE UNCHANGED supervisorVars
  BY <1>1 DEF supervisorVars, SupervisorsInv, SupervisorsTypeOK, ChildrenKnown, HandlesAreOwn,
              ReapedAreDead, AliveAreHeld, AliveAreSingle, LivesAreCounted, NoneLeftBehind,
              JobsOK, ShowsItsChild, EndStops, Alive, Running
<1>2. CASE SupervisorsNext
  BY <1>2, StatusKeeps, StartKeeps, SpawnKeeps, SpawnFailsKeeps, StopKeeps, EndedKeeps,
     KillKeeps, KillFailsKeeps, ReapKeeps, ChildEndsKeeps, ShutDownKeeps, LifeEndsKeeps, BootKeeps
     DEF SupervisorsNext, WorkUnderLock
<1> QED
  BY <1>1, <1>2

LEMMA AtMostOne ==
  ASSUME NEW S, NEW p, S \subseteq {p}
  PROVE  Cardinality(S) <= 1
<1>1. S = {} \/ S = {p}
  OBVIOUS
<1>2. Cardinality({}) = 0 /\ Cardinality({p}) = 1
  BY FS_EmptySet, FS_Singleton
<1> QED
  BY <1>1, <1>2

LEMMA InvGivesOneChildPerLife == SupervisorsInv => OneChildPerLife
<1> SUFFICES ASSUME SupervisorsInv, NEW s \in Supervisors
             PROVE  Cardinality({p \in ChildrenOf(s) : child[p].life = life}) <= 1
  BY DEF OneChildPerLife
<1> DEFINE S == {p \in ChildrenOf(s) : child[p].life = life}
<1>1. \A p, q \in S : p = q
  BY DEF SupervisorsInv, ChildrenKnown, AliveAreSingle, ChildrenOf
<1>2. PICK p : S \subseteq {p}
  BY <1>1
<1> QED
  BY <1>2, AtMostOne

LEMMA InvGivesOneChildForGood == SupervisorsInv => OneChildForGood
<1> SUFFICES ASSUME SupervisorsInv, ~crashed, NEW s \in StoppedAtShutdown \ spared
             PROVE  Cardinality(ChildrenOf(s)) <= 1
  BY DEF OneChildForGood
<1>1. ChildrenOf(s) \subseteq {handle[s]}
  BY DEF SupervisorsInv, ChildrenKnown, NoneLeftBehind, ChildrenOf
<1> QED
  BY <1>1, AtMostOne

LEMMA InvGivesShownIsTrue == SupervisorsInv => ShownIsTrue
<1> SUFFICES ASSUME SupervisorsInv, NEW s \in Supervisors, job[s] = Free, api = "up"
             PROVE  /\ Running(s) => shown[s] = child[handle[s]].settings
                    /\ status[s] # "running" => {p \in ChildrenOf(s) : child[p].life = life} = {}
  BY DEF ShownIsTrue
<1>1. Running(s) => shown[s] = child[handle[s]].settings /\ status[s] = "running"
  BY DEF SupervisorsInv, ShowsItsChild
<1>2. ASSUME NEW p \in ChildrenOf(s), child[p].life = life
      PROVE  Running(s)
  BY <1>2, SupervisorAssumption
     DEF SupervisorsInv, ChildrenKnown, AliveAreHeld, ReapedAreDead, Running, ChildrenOf, Alive
<1> QED
  BY <1>1, <1>2

\* The supervisors never leave their types.
THEOREM SupervisorTypes == SupervisorsSpec => []SupervisorsTypeOK
<1>1. SupervisorsInv /\ [SupervisorsNext]_supervisorVars => SupervisorsInv'
  BY SupervisorsStep
<1>2. SupervisorsInv => SupervisorsTypeOK
  BY DEF SupervisorsInv
<1> QED
  BY <1>1, <1>2, InitSupervisors, PTL DEF SupervisorsSpec

\* No supervisor ever has two children at work in one life of the API,
\* whatever children do and however starts and kills go (start,
\* _terminate_locked).
THEOREM OneChild == SupervisorsSpec => []OneChildPerLife
<1>1. SupervisorsInv /\ [SupervisorsNext]_supervisorVars => SupervisorsInv'
  BY SupervisorsStep
<1> QED
  BY <1>1, InitSupervisors, InvGivesOneChildPerLife, PTL DEF SupervisorsSpec

\* What a supervisor shows when its lock is free is true (_snapshot_locked).
THEOREM ShownTrue == SupervisorsSpec => []ShownIsTrue
<1>1. SupervisorsInv /\ [SupervisorsNext]_supervisorVars => SupervisorsInv'
  BY SupervisorsStep
<1> QED
  BY <1>1, InitSupervisors, InvGivesShownIsTrue, PTL DEF SupervisorsSpec

\* The supervisors that the end of a life stops have one child over all the
\* lives of an API that does not crash, unless a kill was refused (lifespan).
THEOREM OneForGood == SupervisorsSpec => []OneChildForGood
<1>1. SupervisorsInv /\ [SupervisorsNext]_supervisorVars => SupervisorsInv'
  BY SupervisorsStep
<1> QED
  BY <1>1, InitSupervisors, InvGivesOneChildForGood, PTL DEF SupervisorsSpec

-----------------------------------------------------------------------------
(***************************************************************************)
(* The voice agent's turns, for any responses, lengths and number of       *)
(* chunks.                                                                 *)
(***************************************************************************)
\* Whom a cancellation can name, or has named, has begun: what is under way or at
\* the voice edge.
NamedHaveBegun ==
    \A r \in Responses : r \in Live \cup named \cup {edge} => phase[r] # "new"

\* What is remembered was asked for, so it need not be cancelled again.
RememberedAreNamed == \A i \in DOMAIN remembered : remembered[i] \in named

\* What a stopped response has left in the buffer was put there by the one
\* that waited for the output track, and only one ever does.
StoppedAreCleared ==
    /\ \A i \in DOMAIN buffer : buffer[i] \in stopped => buffer[i] = source
    /\ \A r \in Responses : phase[r] = "track" => r = source

TurnsInv ==
    /\ TurnsTypeOK
    /\ NamedHaveBegun
    /\ RememberedAreNamed
    /\ CancellationReachesItsResponse
    /\ StoppedAreCleared
    /\ OnlyTheFirstIsHeardLate

LEMMA RemovedIsLess ==
  ASSUME NEW S, NEW s \in Seq(S), NEW i \in DOMAIN s
  PROVE  /\ RemoveAt(s, i) \in Seq(S)
         /\ \A k \in DOMAIN RemoveAt(s, i) : \E j \in DOMAIN s : RemoveAt(s, i)[k] = s[j]
<1> DEFINE a == SubSeq(s, 1, i - 1)
           b == SubSeq(s, i + 1, Len(s))
<1>1. i \in 1..Len(s) /\ Len(s) \in Nat
  OBVIOUS
<1>2. a \in Seq(S) /\ Len(a) = i - 1 /\ \A k \in 1..(i - 1) : a[k] = s[k]
  BY <1>1
<1>3. b \in Seq(S) /\ Len(b) = Len(s) - i /\ \A k \in 1..(Len(s) - i) : b[k] = s[i + k]
  BY <1>1
<1> HIDE DEF a, b
<1>4. a \o b \in Seq(S) /\ Len(a \o b) = Len(s) - 1
  BY <1>1, <1>2, <1>3
<1>5. ASSUME NEW k \in 1..(Len(s) - 1) PROVE \E j \in DOMAIN s : (a \o b)[k] = s[j]
  <2>1. CASE k <= i - 1
    BY <1>1, <1>2, <1>3, <2>1
  <2>2. CASE k > i - 1
    <3>1. (a \o b)[k] = b[k - (i - 1)] /\ k - (i - 1) \in 1..(Len(s) - i)
      BY <1>1, <1>2, <1>3, <2>2
    <3>2. b[k - (i - 1)] = s[i + (k - (i - 1))] /\ i + (k - (i - 1)) \in DOMAIN s
      BY <1>1, <1>3, <3>1
    <3> QED
      BY <3>1, <3>2
  <2>3. k <= i - 1 \/ k > i - 1
    BY <1>1
  <2> QED
    BY <2>1, <2>2, <2>3
<1>6. RemoveAt(s, i) = a \o b
  BY DEF RemoveAt, a, b
<1>7. DOMAIN (a \o b) = 1..(Len(s) - 1)
  BY <1>4
<1> HIDE DEF RemoveAt
<1> QED
  BY <1>4, <1>5, <1>6, <1>7

\* The response that came last is under way.
LEMMA LatestIsLive ==
  ASSUME TurnsTypeOK
  PROVE  /\ Latest \in Responses \cup {NoResponse}
         /\ Latest \in Responses => Latest \in Live
  BY VoiceAssumption DEF TurnsTypeOK, Latest, Live

\* Samples of r are added to the buffer.
LEMMA ChunkIsAdded ==
  ASSUME buffer \in Seq(Responses), NEW r \in Responses
  PROVE  LET new == buffer \o [i \in 1..ChunkLen |-> r]
         IN /\ new \in Seq(Responses)
            /\ \A i \in DOMAIN new : new[i] = r \/ \E j \in DOMAIN buffer : new[i] = buffer[j]
<1> DEFINE chunk == [i \in 1..ChunkLen |-> r]
           new == buffer \o chunk
<1>1. ChunkLen \in Nat
  BY TurnsAssumption
<1>2. chunk \in Seq(Responses) /\ Len(chunk) = ChunkLen /\ \A i \in 1..ChunkLen : chunk[i] = r
  BY <1>1
<1> HIDE DEF chunk
<1>3. new \in Seq(Responses) /\ Len(new) = Len(buffer) + ChunkLen
  BY <1>1, <1>2
<1>4. \A i \in DOMAIN new : new[i] = r \/ \E j \in DOMAIN buffer : new[i] = buffer[j]
  BY <1>1, <1>2, <1>3
<1> QED
  BY <1>3, <1>4 DEF chunk

-----------------------------------------------------------------------------
LEMMA InitTurns == TurnsInit => TurnsInv
<1> SUFFICES ASSUME TurnsInit PROVE TurnsInv
  OBVIOUS
<1> USE VoiceAssumption, TurnsAssumption DEF TurnsInit
<1>1. TurnsTypeOK
  <2>1. <<>> \in Seq(Responses)
    OBVIOUS
  <2>2. /\ phase \in [Responses -> Phase]
        /\ said \in [Responses -> 0..MaxChunks]
        /\ verdict \in [Responses -> Verdict]
    BY DEF Phase, Verdict
  <2> QED
    BY <2>1, <2>2 DEF TurnsTypeOK
<1>2. NamedHaveBegun
  <2>1. \A r \in Responses : r \notin Live \cup named
    BY DEF Live
  <2> QED
    BY <2>1, TurnsAssumption DEF NamedHaveBegun
<1>3. /\ CancellationReachesItsResponse /\ RememberedAreNamed
      /\ StoppedAreCleared /\ OnlyTheFirstIsHeardLate
  BY DEF CancellationReachesItsResponse, RememberedAreNamed, StoppedAreCleared, OnlyTheFirstIsHeardLate
<1> QED
  BY <1>1, <1>2, <1>3 DEF TurnsInv

\* What the invariant says of the buffer stands where the buffer, its owners
\* and the responses at the track stay.
LEMMA BufferStands ==
  ASSUME StoppedAreCleared, OnlyTheFirstIsHeardLate, UNCHANGED <<buffer, stopped, source, late>>,
         \A r \in Responses : phase'[r] = "track" => phase[r] = "track"
  PROVE  StoppedAreCleared' /\ OnlyTheFirstIsHeardLate'
  BY DEF StoppedAreCleared, OnlyTheFirstIsHeardLate

\* ... and where it is cleared.
LEMMA BufferCleared ==
  ASSUME StoppedAreCleared, OnlyTheFirstIsHeardLate, NEW r \in Responses, Silence(r),
         UNCHANGED <<source, late>>,
         \A q \in Responses : phase'[q] = "track" => phase[q] = "track"
  PROVE  StoppedAreCleared' /\ OnlyTheFirstIsHeardLate'
  BY DEF StoppedAreCleared, OnlyTheFirstIsHeardLate, Silence

\* A response that has begun goes on: nothing that names it is disturbed.
LEMMA NamesStand ==
  ASSUME TurnsTypeOK, NamedHaveBegun, CancellationReachesItsResponse, RememberedAreNamed,
         NEW r \in Responses, NEW p \in Phase \ {"new"}, Enter(r, p),
         UNCHANGED <<active, token, remembered, named, edge>>
  PROVE  NamedHaveBegun' /\ CancellationReachesItsResponse' /\ RememberedAreNamed'
  BY DEF TurnsTypeOK, NamedHaveBegun, RememberedAreNamed, CancellationReachesItsResponse, Enter, Live

LEMMA MemoryStands ==
  ASSUME RememberedAreNamed, UNCHANGED <<remembered, named>>
  PROVE  RememberedAreNamed'
  BY DEF RememberedAreNamed

\* What is remembered after r was, whatever is forgotten to make room.
LEMMA RememberShape ==
  ASSUME TurnsTypeOK, NEW r \in Responses, Remember(r)
  PROVE  /\ remembered' \in Seq(Responses)
         /\ \A i \in DOMAIN remembered' :
              remembered'[i] = r \/ \E j \in DOMAIN remembered : remembered'[i] = remembered[j]
<1> DEFINE ids == Append(remembered, r)
<1>1. CASE UNCHANGED remembered
  BY <1>1 DEF TurnsTypeOK
<1>2. CASE remembered' = IF Len(ids) > MaxCancelled THEN Tail(ids) ELSE ids
  <2>1. /\ ids \in Seq(Responses) /\ Len(ids) = Len(remembered) + 1
        /\ \A i \in 1..Len(ids) : ids[i] = r \/ \E j \in DOMAIN remembered : ids[i] = remembered[j]
    BY DEF TurnsTypeOK
  <2> HIDE DEF ids
  <2>2. /\ Tail(ids) \in Seq(Responses) /\ Len(Tail(ids)) = Len(ids) - 1
        /\ \A i \in 1..(Len(ids) - 1) : Tail(ids)[i] = ids[i + 1]
    BY <2>1 DEF TurnsTypeOK
  <2>3. \A i \in 1..(Len(ids) - 1) : i + 1 \in 1..Len(ids)
    BY <2>1 DEF TurnsTypeOK
  <2>4. \A i \in DOMAIN Tail(ids) :
           Tail(ids)[i] = r \/ \E j \in DOMAIN remembered : Tail(ids)[i] = remembered[j]
    BY <2>1, <2>2, <2>3
  <2> QED
    BY <1>2, <2>1, <2>2, <2>4
<1> QED
  BY <1>1, <1>2 DEF Remember, ids

LEMMA EnterType ==
  ASSUME TurnsTypeOK, NEW r \in Responses, NEW p \in Phase, Enter(r, p)
  PROVE  /\ phase' \in [Responses -> Phase]
         /\ phase'[r] = p
         /\ \A q \in Responses \ {r} : phase'[q] = phase[q]
  BY DEF TurnsTypeOK, Enter

LEMMA SilenceType ==
  ASSUME TurnsTypeOK, NEW r \in Responses, Silence(r)
  PROVE  stopped' \subseteq Responses /\ buffer' \in Seq(Responses)
<1>1. <<>> \in Seq(Responses)
  OBVIOUS
<1> QED
  BY <1>1 DEF TurnsTypeOK, Silence

LEMMA StartTurnKeeps ==
  ASSUME TurnsInv, NEW r \in Responses, StartTurn(r)
  PROVE  TurnsInv'
<1> USE DEF TurnsInv, StartTurn
<1> "thinking" \in Phase
  BY DEF Phase
<1>1. phase' \in [Responses -> Phase] /\ phase'[r] = "thinking"
      /\ \A q \in Responses \ {r} : phase'[q] = phase[q]
  BY EnterType
<1>2. active' \in Seq(Responses) /\ Live' = Live \cup {r}
  <2>1. /\ active' \in Seq(Responses) /\ Len(active') = Len(active) + 1
        /\ active'[Len(active) + 1] = r /\ \A i \in 1..Len(active) : active'[i] = active[i]
    BY DEF TurnsTypeOK
  <2>2. Live \cup {r} \subseteq Live'
    <3>1. r \in Live'
      BY <2>1 DEF TurnsTypeOK, Live
    <3>2. ASSUME NEW i \in DOMAIN active PROVE active[i] \in Live'
      <4>1. i \in DOMAIN active' /\ active[i] = active'[i]
        BY <2>1 DEF TurnsTypeOK
      <4> QED
        BY <4>1 DEF Live
    <3> QED
      BY <3>1, <3>2 DEF Live
  <2>3. Live' \subseteq Live \cup {r}
    BY <2>1 DEF TurnsTypeOK, Live
  <2> QED
    BY <2>1, <2>2, <2>3
<1>3. TurnsTypeOK'
  BY <1>1, <1>2 DEF TurnsTypeOK
<1>4. r \notin named
  BY DEF NamedHaveBegun
<1>5. NamedHaveBegun' /\ CancellationReachesItsResponse' /\ RememberedAreNamed'
  BY <1>1, <1>2, <1>4, MemoryStands DEF NamedHaveBegun, CancellationReachesItsResponse
<1>6. StoppedAreCleared' /\ OnlyTheFirstIsHeardLate'
  BY <1>1, BufferStands
<1> QED
  BY <1>3, <1>5, <1>6

LEMMA PublishChunkKeeps ==
  ASSUME TurnsInv, NEW r \in Responses, PublishChunk(r)
  PROVE  TurnsInv'
<1> USE DEF TurnsInv, PublishChunk
<1> "track" \in Phase \ {"new"} /\ "speaking" \in Phase \ {"new"}
  BY DEF Phase
<1>1. said' \in [Responses -> 0..MaxChunks]
  <2>1. said[r] + 1 \in 0..MaxChunks
    BY TurnsAssumption DEF TurnsTypeOK
  <2> QED
    BY <2>1 DEF TurnsTypeOK
<1>2. CASE source = NoResponse
  <2>1. Enter(r, "track") /\ source' = r /\ UNCHANGED buffer
    BY <1>2
  <2>2. /\ phase' \in [Responses -> Phase] /\ phase'[r] = "track"
        /\ \A q \in Responses \ {r} : phase'[q] = phase[q]
    BY <2>1, EnterType
  <2>3. TurnsTypeOK'
    BY <1>1, <2>1, <2>2 DEF TurnsTypeOK
  <2>4. NamedHaveBegun' /\ CancellationReachesItsResponse' /\ RememberedAreNamed'
    BY <2>1, NamesStand
  <2>5. \A i \in DOMAIN buffer : buffer[i] \notin stopped
    BY <1>2, VoiceAssumption DEF StoppedAreCleared, TurnsTypeOK
  <2>6. StoppedAreCleared'
    BY <1>2, <2>1, <2>2, <2>5, VoiceAssumption DEF StoppedAreCleared
  <2>7. OnlyTheFirstIsHeardLate'
    BY <1>2, VoiceAssumption DEF OnlyTheFirstIsHeardLate, TurnsTypeOK
  <2> QED
    BY <2>3, <2>4, <2>6, <2>7
<1>3. CASE source # NoResponse
  <2>1. /\ Enter(r, "speaking") /\ UNCHANGED source
        /\ buffer' = buffer \o [i \in 1..ChunkLen |-> r]
    BY <1>3
  <2>2. /\ phase' \in [Responses -> Phase] /\ phase'[r] = "speaking"
        /\ \A q \in Responses \ {r} : phase'[q] = phase[q]
    BY <2>1, EnterType
  <2>3. /\ buffer' \in Seq(Responses)
        /\ \A i \in DOMAIN buffer' :
             buffer'[i] = r \/ \E j \in DOMAIN buffer : buffer'[i] = buffer[j]
    BY <2>1, ChunkIsAdded DEF TurnsTypeOK
  <2>4. TurnsTypeOK'
    BY <1>1, <2>1, <2>2, <2>3 DEF TurnsTypeOK
  <2>5. NamedHaveBegun' /\ CancellationReachesItsResponse' /\ RememberedAreNamed'
    BY <2>1, NamesStand
  <2>6. StoppedAreCleared'
    BY <2>1, <2>2, <2>3 DEF StoppedAreCleared
  <2>7. OnlyTheFirstIsHeardLate'
    BY <2>1 DEF OnlyTheFirstIsHeardLate
  <2> QED
    BY <2>4, <2>5, <2>6, <2>7
<1> QED
  BY <1>2, <1>3

LEMMA TrackPublishedKeeps ==
  ASSUME TurnsInv, NEW r \in Responses, TrackPublished(r)
  PROVE  TurnsInv'
<1> USE DEF TurnsInv, TrackPublished
<1> "speaking" \in Phase \ {"new"}
  BY DEF Phase
<1>1. /\ phase' \in [Responses -> Phase] /\ phase'[r] = "speaking"
      /\ \A q \in Responses \ {r} : phase'[q] = phase[q]
  BY EnterType
<1>2. /\ buffer' \in Seq(Responses)
      /\ \A i \in DOMAIN buffer' :
           buffer'[i] = r \/ \E j \in DOMAIN buffer : buffer'[i] = buffer[j]
  BY ChunkIsAdded DEF TurnsTypeOK
<1>3. TurnsTypeOK'
  BY <1>1, <1>2 DEF TurnsTypeOK
<1>4. NamedHaveBegun' /\ CancellationReachesItsResponse' /\ RememberedAreNamed'
  BY NamesStand
<1>5. StoppedAreCleared'
  BY <1>1, <1>2 DEF StoppedAreCleared
<1>6. OnlyTheFirstIsHeardLate'
  BY DEF OnlyTheFirstIsHeardLate
<1> QED
  BY <1>3, <1>4, <1>5, <1>6

LEMMA CaptureFrameKeeps ==
  ASSUME TurnsInv, NEW r \in Responses, CaptureFrame(r)
  PROVE  TurnsInv'
<1> USE TurnsAssumption DEF TurnsInv, CaptureFrame
<1>1. /\ buffer' \in Seq(Responses)
      /\ \A i \in DOMAIN buffer' : \E j \in DOMAIN buffer : buffer'[i] = buffer[j]
  <2>1. /\ buffer' \in Seq(Responses) /\ Len(buffer') = Len(buffer) - FrameLen
        /\ \A i \in 1..(Len(buffer) - FrameLen) : buffer'[i] = buffer[FrameLen + i]
    BY DEF TurnsTypeOK
  <2>2. \A i \in 1..(Len(buffer) - FrameLen) : FrameLen + i \in DOMAIN buffer
    BY DEF TurnsTypeOK
  <2>3. DOMAIN buffer' = 1..(Len(buffer) - FrameLen)
    BY <2>1
  <2> QED
    BY <2>1, <2>2, <2>3
<1>2. \A i \in 1..FrameLen : i \in DOMAIN buffer
  BY DEF TurnsTypeOK
<1>3. TurnsTypeOK'
  BY <1>1 DEF TurnsTypeOK
<1>4. NamedHaveBegun' /\ CancellationReachesItsResponse' /\ RememberedAreNamed'
  BY MemoryStands DEF NamedHaveBegun, CancellationReachesItsResponse, Live
<1>5. StoppedAreCleared'
  BY <1>1 DEF StoppedAreCleared
<1>6. OnlyTheFirstIsHeardLate'
  BY <1>2 DEF StoppedAreCleared, OnlyTheFirstIsHeardLate
<1> QED
  BY <1>3, <1>4, <1>5, <1>6

\* A chunk is out, the stream of text has ended.
LEMMA GoesOnKeeps ==
  ASSUME TurnsInv, NEW r \in Responses, ChunkPublished(r) \/ CompleteResponse(r)
  PROVE  TurnsInv'
<1> PICK p \in {"thinking", "ending"} : Enter(r, p)
  BY DEF ChunkPublished, CompleteResponse
<1> p \in Phase \ {"new", "track"} /\ "completed" \in Verdict
  BY DEF Phase, Verdict
<1> USE DEF TurnsInv, ChunkPublished, CompleteResponse
<1>1. /\ phase' \in [Responses -> Phase] /\ phase'[r] = p
      /\ \A q \in Responses \ {r} : phase'[q] = phase[q]
  BY EnterType
<1>2. TurnsTypeOK'
  BY <1>1 DEF TurnsTypeOK
<1>3. NamedHaveBegun' /\ CancellationReachesItsResponse' /\ RememberedAreNamed'
  BY NamesStand
<1>4. StoppedAreCleared' /\ OnlyTheFirstIsHeardLate'
  BY <1>1, BufferStands
<1> QED
  BY <1>2, <1>3, <1>4

\* A response that ends without completing is silenced.
LEMMA GivesUpKeeps ==
  ASSUME TurnsInv, NEW r \in Responses, NoticeCancellation(r) \/ FailResponse(r)
  PROVE  TurnsInv'
<1> USE DEF TurnsInv, NoticeCancellation, FailResponse
<1> "ending" \in Phase \ {"new", "track"} /\ {"cancelled", "failed"} \subseteq Verdict
  BY DEF Phase, Verdict
<1>1. /\ phase' \in [Responses -> Phase] /\ phase'[r] = "ending"
      /\ \A q \in Responses \ {r} : phase'[q] = phase[q]
  BY EnterType
<1>2. stopped' \subseteq Responses /\ buffer' \in Seq(Responses)
  BY SilenceType
<1>3. TurnsTypeOK'
  BY <1>1, <1>2 DEF TurnsTypeOK
<1>4. NamedHaveBegun' /\ CancellationReachesItsResponse' /\ RememberedAreNamed'
  BY NamesStand
<1>5. StoppedAreCleared' /\ OnlyTheFirstIsHeardLate'
  BY <1>1, BufferCleared
<1> QED
  BY <1>3, <1>4, <1>5

\* A response that gives up its token is no longer under way.
LEMMA EndsKeep ==
  ASSUME TurnsInv, NEW r \in Responses, EndTurn(r) \/ BreakTurn(r)
  PROVE  TurnsInv'
<1> USE DEF TurnsInv, EndTurn, BreakTurn
<1> "ended" \in Phase \ {"new", "track"} /\ "none" \in Verdict
  BY DEF Phase, Verdict
<1>1. /\ phase' \in [Responses -> Phase] /\ phase'[r] = "ended"
      /\ \A q \in Responses \ {r} : phase'[q] = phase[q]
  BY EnterType
<1>2. active' \in Seq(Responses) /\ Live' \subseteq Live
  <2>1. PICK i \in DOMAIN active : active' = RemoveAt(active, i)
    BY DEF Deregister
  <2> QED
    BY <2>1, RemovedIsLess DEF Live, TurnsTypeOK
<1>3. TurnsTypeOK'
  BY <1>1, <1>2 DEF TurnsTypeOK
<1>4. NamedHaveBegun' /\ CancellationReachesItsResponse' /\ RememberedAreNamed'
  BY <1>1, <1>2, MemoryStands DEF NamedHaveBegun, CancellationReachesItsResponse
<1>5. StoppedAreCleared' /\ OnlyTheFirstIsHeardLate'
  BY <1>1, BufferStands
<1> QED
  BY <1>3, <1>4, <1>5

\* A cancellation of a response that has begun, whoever asks for it.
LEMMA CancelKeeps ==
  ASSUME TurnsInv, NEW r \in Responses, phase[r] # "new", CancelResponse(r),
         named' = named \cup {r}, UNCHANGED <<active, phase, said, verdict, source, late>>,
         edge' \in {edge, NoFrame}
  PROVE  TurnsInv'
<1> USE DEF TurnsInv, CancelResponse
<1>1. /\ remembered' \in Seq(Responses)
      /\ \A i \in DOMAIN remembered' :
           remembered'[i] = r \/ \E j \in DOMAIN remembered : remembered'[i] = remembered[j]
  BY RememberShape
<1>2. TurnsTypeOK'
  BY <1>1, SilenceType DEF TurnsTypeOK
<1>3. NamedHaveBegun'
  BY TurnsAssumption DEF NamedHaveBegun, Live
<1>4. RememberedAreNamed'
  BY <1>1 DEF RememberedAreNamed
<1>5. CancellationReachesItsResponse'
  BY DEF CancellationReachesItsResponse, Live
<1>6. StoppedAreCleared' /\ OnlyTheFirstIsHeardLate'
  BY BufferCleared, BufferStands
<1> QED
  BY <1>2, <1>3, <1>4, <1>5, <1>6

LEMMA EdgeKeeps ==
  ASSUME TurnsInv, AskEdge \/ EdgeAnswers
  PROVE  TurnsInv'
<1> USE TurnsAssumption DEF TurnsInv
<1>1. CASE AskEdge
  <2> USE <1>1 DEF AskEdge
  <2>1. TurnsTypeOK'
    BY LatestIsLive DEF TurnsTypeOK
  <2>2. NamedHaveBegun' /\ CancellationReachesItsResponse' /\ RememberedAreNamed'
    BY LatestIsLive, MemoryStands DEF NamedHaveBegun, CancellationReachesItsResponse, Live
  <2>3. StoppedAreCleared' /\ OnlyTheFirstIsHeardLate'
    BY BufferStands
  <2> QED
    BY <2>1, <2>2, <2>3
<1>2. CASE EdgeAnswers
  <2>1. CASE /\ edge \in Responses
             /\ named' = named \cup {edge}
             /\ CancelResponse(edge)
    <3>1. phase[edge] # "new"
      BY <2>1 DEF NamedHaveBegun
    <3> QED
      BY <1>2, <2>1, <3>1, CancelKeeps DEF EdgeAnswers
  <2>2. CASE named' = named /\ UNCHANGED <<token, stopped, remembered, buffer>>
    <3> USE <1>2, <2>2 DEF EdgeAnswers
    <3>1. TurnsTypeOK'
      BY DEF TurnsTypeOK
    <3>2. NamedHaveBegun' /\ CancellationReachesItsResponse' /\ RememberedAreNamed'
      BY MemoryStands DEF NamedHaveBegun, CancellationReachesItsResponse, Live
    <3>3. StoppedAreCleared' /\ OnlyTheFirstIsHeardLate'
      BY BufferStands
    <3> QED
      BY <3>1, <3>2, <3>3
  <2>3. CASE /\ Contains(remembered, edge)
             /\ named' = named \cup {edge}
             /\ UNCHANGED <<token, stopped, remembered, buffer>>
    <3>1. edge \in named
      BY <2>3 DEF Contains, RememberedAreNamed, TurnsTypeOK
    <3> QED
      BY <2>2, <2>3, <3>1
  <2> QED
    BY <1>2, <2>1, <2>2, <2>3 DEF EdgeAnswers
<1> QED
  BY <1>1, <1>2

LEMMA TurnsKeep == TurnsInv /\ [TurnsNext]_turnVars => TurnsInv'
<1> SUFFICES ASSUME TurnsInv, [TurnsNext]_turnVars PROVE TurnsInv'
  OBVIOUS
<1>1. CASE UNCHANGED turnVars
  BY <1>1 DEF turnVars, TurnsInv, TurnsTypeOK, NamedHaveBegun, RememberedAreNamed,
              CancellationReachesItsResponse, StoppedAreCleared, OnlyTheFirstIsHeardLate, Live
<1>2. CASE AskEdge \/ EdgeAnswers
  BY <1>2, EdgeKeeps
<1>3. ASSUME NEW r \in Responses, StartTurn(r) \/ RunTurn(r) \/ BreakTurn(r) \/ Interrupt(r)
      PROVE  TurnsInv'
  <2>1. CASE StartTurn(r)
    BY <2>1, StartTurnKeeps
  <2>2. CASE RunTurn(r) \/ BreakTurn(r)
    BY <2>2, PublishChunkKeeps, TrackPublishedKeeps, CaptureFrameKeeps, GoesOnKeeps,
       GivesUpKeeps, EndsKeep DEF RunTurn
  <2>3. CASE Interrupt(r)
    <3>1. phase[r] # "new"
      BY <2>3, LatestIsLive DEF Interrupt, TurnsInv, NamedHaveBegun
    <3> QED
      BY <2>3, <3>1, CancelKeeps DEF Interrupt
  <2> QED
    BY <1>3, <2>1, <2>2, <2>3
<1> QED
  BY <1>1, <1>2, <1>3 DEF TurnsNext

-----------------------------------------------------------------------------
LEMMA TurnsAlways == TurnsSpec => []TurnsInv
  BY InitTurns, TurnsKeep, PTL DEF TurnsSpec

\* For any responses and any interleaving of their tasks, the creator's
\* interrupts and the voice edge's acknowledgements, however many ids are
\* remembered: a cancellation that was asked for is set on the token of the
\* response it named, if that is under way, and no token is set that nobody asked for (cancel_response,
\* _handle_audio_track).
THEOREM CancellationsArrive == TurnsSpec => []CancellationReachesItsResponse
<1>1. TurnsInv => CancellationReachesItsResponse
  BY DEF TurnsInv
<1> QED
  BY <1>1, TurnsAlways, PTL

\* For any lengths of chunks and frames: of the responses that were stopped,
\* only the one that had the output track created can be heard afterwards
\* (publish_audio_chunk, clear_output_buffer, stop_response_audio).
THEOREM StoppedAreSilent == TurnsSpec => []OnlyTheFirstIsHeardLate
<1>1. TurnsInv => OnlyTheFirstIsHeardLate
  BY DEF TurnsInv
<1> QED
  BY <1>1, TurnsAlways, PTL

-----------------------------------------------------------------------------
(***************************************************************************)
(* What the speech detector's lists keep.  VecDeque::retain is a recursion *)
(* over the list; a number at which what is said of it failed would be a   *)
(* least one.                                                              *)
(***************************************************************************)
LEMMA LeastNat ==
  ASSUME NEW T \in SUBSET Nat, T # {}
  PROVE  \E m \in T : \A n \in T : m <= n
<1>1. IsWellFoundedOn(OpToRel(<, Nat), Nat)
  BY NatLessThanWellFounded
<1>2. PICK m \in T : \A n \in T : <<n, m>> \notin OpToRel(<, Nat)
  BY <1>1, WFMin
<1>3. \A n \in T : ~(n < m)
  BY <1>2 DEF OpToRel
<1> QED
  BY <1>3

\* f is the recursion of Kept over the first m elements.
Keeps(f, seq, K, m) ==
    f = [n \in 0..m |->
            IF n = 0 THEN <<>>
            ELSE IF seq[n] \in K THEN Append(f[n - 1], seq[n]) ELSE f[n - 1]]

LEMMA KeepsToTheEnd ==
  ASSUME NEW seq, Len(seq) \in Nat, NEW K
  PROVE  \E f : Keeps(f, seq, K, Len(seq))
<1> DEFINE T == {m \in 0..Len(seq) : ~\E f : Keeps(f, seq, K, m)}
<1> SUFFICES ASSUME T # {} PROVE FALSE
  OBVIOUS
<1>1. PICK m \in T : \A n \in T : m <= n
  <2>1. T \in SUBSET Nat
    OBVIOUS
  <2> HIDE DEF T
  <2> QED
    BY <2>1, LeastNat
<1>2. Keeps([n \in 0..0 |-> <<>>], seq, K, 0)
  BY DEF Keeps
<1>3. m # 0 /\ m \in 1..Len(seq)
  BY <1>1, <1>2
<1>4. PICK f : Keeps(f, seq, K, m - 1)
  BY <1>1, <1>3
<1> DEFINE next == IF seq[m] \in K THEN Append(f[m - 1], seq[m]) ELSE f[m - 1]
           more == [n \in 0..m |-> IF n = m THEN next ELSE f[n]]
<1>5. \A n \in 0..(m - 1) :
        f[n] = IF n = 0 THEN <<>>
               ELSE IF seq[n] \in K THEN Append(f[n - 1], seq[n]) ELSE f[n - 1]
  BY <1>4 DEF Keeps
<1>6. /\ more[m] = next /\ more[m - 1] = f[m - 1]
      /\ \A n \in 0..(m - 1) : more[n] = f[n]
      /\ \A n \in 1..(m - 1) : more[n - 1] = f[n - 1]
  BY <1>3
<1>7. ASSUME NEW n \in 0..m
      PROVE  more[n] = IF n = 0 THEN <<>>
                       ELSE IF seq[n] \in K THEN Append(more[n - 1], seq[n]) ELSE more[n - 1]
  <2>1. CASE n = m
    BY <1>3, <1>6, <2>1
  <2>2. CASE n # m
    <3>1. n \in 0..(m - 1) /\ (n # 0 => n \in 1..(m - 1))
      BY <1>3, <2>2
    <3> QED
      BY <1>5, <1>6, <3>1
  <2> QED
    BY <2>1, <2>2
<1>8. Keeps(more, seq, K, m)
  BY <1>7 DEF Keeps
<1> QED
  BY <1>1, <1>8

LEMMA KeptByRecursion ==
  ASSUME NEW seq, Len(seq) \in Nat, NEW K
  PROVE  \E f : Keeps(f, seq, K, Len(seq)) /\ Kept(seq, K) = f[Len(seq)]
<1> DEFINE kept == CHOOSE f : Keeps(f, seq, K, Len(seq))
<1>1. Keeps(kept, seq, K, Len(seq))
  BY KeepsToTheEnd
<1>2. Kept(seq, K) = kept[Len(seq)]
  BY DEF Kept, Keeps
<1> QED
  BY <1>1, <1>2

\* What of the first n elements of seq has gone where in out.
Picks(out, g, seq, K, n) ==
    /\ g \in [1..Len(out) -> 1..n]
    /\ \A i, j \in 1..Len(out) : i < j => g[i] < g[j]
    /\ \A i \in 1..Len(out) : out[i] = seq[g[i]] /\ out[i] \in K
    /\ \A j \in 1..n : seq[j] \in K => \E i \in 1..Len(out) : g[i] = j

\* One element further.
LEMMA PicksNext ==
  ASSUME NEW S, NEW seq \in Seq(S), NEW K, NEW m \in 1..Len(seq),
         NEW out \in Seq(S), NEW g, Picks(out, g, seq, K, m - 1),
         NEW next,
         next = IF seq[m] \in K THEN Append(out, seq[m]) ELSE out
  PROVE  next \in Seq(S) /\ \E h : Picks(next, h, seq, K, m)
<1>1. /\ g \in [1..Len(out) -> 1..(m - 1)]
      /\ \A i, j \in 1..Len(out) : i < j => g[i] < g[j]
      /\ \A i \in 1..Len(out) : out[i] = seq[g[i]] /\ out[i] \in K
      /\ \A j \in 1..(m - 1) : seq[j] \in K => \E i \in 1..Len(out) : g[i] = j
  BY DEF Picks
<1>2. CASE seq[m] \notin K
  <2>1. Picks(next, g, seq, K, m)
    BY <1>1, <1>2 DEF Picks
  <2> QED
    BY <1>2, <2>1
<1>3. CASE seq[m] \in K
  <2> DEFINE l == Len(out)
             h == [i \in 1..(l + 1) |-> IF i = l + 1 THEN m ELSE g[i]]
  <2>1. /\ seq[m] \in S /\ l \in Nat /\ next \in Seq(S) /\ Len(next) = l + 1
        /\ next[l + 1] = seq[m] /\ \A i \in 1..l : next[i] = out[i]
    BY <1>3
  <2>2. \A i \in 1..l : h[i] = g[i] /\ g[i] \in 1..(m - 1)
    <3> SUFFICES ASSUME NEW i \in 1..l PROVE h[i] = g[i] /\ g[i] \in 1..(m - 1)
      OBVIOUS
    <3>1. i \in 1..(l + 1) /\ i # l + 1
      BY <2>1
    <3> QED
      BY <1>1, <3>1
  <2>3. h[l + 1] = m
    BY <2>1
  <2>4. h \in [1..(l + 1) -> 1..m]
    <3>1. ASSUME NEW i \in 1..(l + 1) PROVE h[i] \in 1..m
      <4>1. i = l + 1 \/ i \in 1..l
        BY <2>1
      <4> HIDE DEF h
      <4>2. \A k \in 1..(m - 1) : k \in 1..m
        OBVIOUS
      <4> QED
        BY <2>2, <2>3, <4>1, <4>2
    <3> QED
      BY <3>1
  <2> HIDE DEF h
  <2>5. \A i, j \in 1..(l + 1) : i < j => h[i] < h[j]
    <3> SUFFICES ASSUME NEW i \in 1..(l + 1), NEW j \in 1..(l + 1), i < j PROVE h[i] < h[j]
      OBVIOUS
    <3>1. i \in 1..l /\ (j \in 1..l \/ j = l + 1)
      BY <2>1
    <3>2. h[i] = g[i] /\ g[i] \in Int /\ g[i] < m
      BY <2>2, <3>1
    <3>3. CASE j \in 1..l
      BY <1>1, <2>2, <3>1, <3>2, <3>3
    <3>4. CASE j = l + 1
      BY <2>3, <3>2, <3>4
    <3> QED
      BY <3>1, <3>3, <3>4
  <2>6. \A i \in 1..(l + 1) : next[i] = seq[h[i]] /\ next[i] \in K
    BY <1>1, <1>3, <2>1, <2>2, <2>3
  <2>7. \A j \in 1..m : seq[j] \in K => \E i \in 1..(l + 1) : h[i] = j
    <3> SUFFICES ASSUME NEW j \in 1..m, seq[j] \in K PROVE \E i \in 1..(l + 1) : h[i] = j
      OBVIOUS
    <3>1. CASE j = m
      BY <2>1, <2>3, <3>1
    <3>2. CASE j # m
      <4>1. PICK i \in 1..l : g[i] = j
        BY <1>1, <3>2
      <4> QED
        <5>1. i \in 1..(l + 1) /\ h[i] = j
          BY <2>1, <2>2, <4>1
        <5> QED
          BY <5>1
    <3> QED
      BY <3>1, <3>2
  <2>8. Picks(next, h, seq, K, m)
    BY <2>1, <2>4, <2>5, <2>6, <2>7 DEF Picks
  <2> QED
    BY <2>1, <2>8
<1> QED
  BY <1>2, <1>3

LEMMA KeptPicks ==
  ASSUME NEW S, NEW seq \in Seq(S), NEW K
  PROVE  Kept(seq, K) \in Seq(S) /\ \E g : Picks(Kept(seq, K), g, seq, K, Len(seq))
<1>1. Len(seq) \in Nat
  OBVIOUS
<1>2. PICK f : Keeps(f, seq, K, Len(seq)) /\ Kept(seq, K) = f[Len(seq)]
  BY <1>1, KeptByRecursion
<1>3. \A n \in 0..Len(seq) :
        f[n] = IF n = 0 THEN <<>>
               ELSE IF seq[n] \in K THEN Append(f[n - 1], seq[n]) ELSE f[n - 1]
  BY <1>2 DEF Keeps
<1> DEFINE Good(n) == f[n] \in Seq(S) /\ \E g : Picks(f[n], g, seq, K, n)
           T == {n \in 0..Len(seq) : ~Good(n)}
<1>4. Good(0)
  <2>1. f[0] = <<>>
    BY <1>1, <1>3
  <2>2. Picks(<<>>, [i \in 1..0 |-> 0], seq, K, 0)
    BY DEF Picks
  <2> QED
    BY <2>1, <2>2
<1>5. ASSUME NEW m \in 1..Len(seq), Good(m - 1)
      PROVE  Good(m)
  <2>1. f[m] = IF seq[m] \in K THEN Append(f[m - 1], seq[m]) ELSE f[m - 1]
    BY <1>1, <1>3
  <2> QED
    BY <1>5, <2>1, PicksNext
<1>6. T = {}
  <2> SUFFICES ASSUME T # {} PROVE FALSE
    OBVIOUS
  <2>1. T \in SUBSET Nat
    OBVIOUS
  <2>2. PICK m \in T : \A n \in T : m <= n
    <3> HIDE DEF T
    <3> QED
      BY <2>1, LeastNat
  <2>3. m \in 1..Len(seq) /\ m - 1 \in 0..Len(seq) /\ ~Good(m)
    <3>1. m \in 0..Len(seq) /\ ~Good(m)
      BY <2>2
    <3> HIDE DEF Good
    <3> QED
      BY <1>1, <1>4, <3>1
  <2>4. m - 1 \notin T
    <3> HIDE DEF T
    <3>1. m - 1 \in T => m <= m - 1
      BY <2>2
    <3> QED
      BY <2>3, <3>1
  <2> HIDE DEF Good
  <2> QED
    BY <1>5, <2>3, <2>4
<1>7. Good(Len(seq))
  <2> HIDE DEF Good
  <2> QED
    BY <1>1, <1>6
<1> QED
  BY <1>2, <1>7

-----------------------------------------------------------------------------
OnlyOnce(seq, s) == \A j, k \in DOMAIN seq : seq[j] = s /\ seq[k] = s => j = k

\* t comes after every s.
LastBefore(seq, s, t) ==
    \E k \in DOMAIN seq : seq[k] = t /\ \A j \in DOMAIN seq : seq[j] = s => j < k

LEMMA KeptIsPart ==
  ASSUME NEW S, NEW seq \in Seq(S), NEW K
  PROVE  /\ Kept(seq, K) \in Seq(S)
         /\ ToSet(Kept(seq, K)) = ToSet(seq) \cap K
         /\ \A s : OnlyOnce(seq, s) => OnlyOnce(Kept(seq, K), s)
         /\ \A s, t \in K : Before(seq, s, t) => Before(Kept(seq, K), s, t)
         /\ \A s, t \in K : LastBefore(Kept(seq, K), s, t) => LastBefore(seq, s, t)
<1> DEFINE out == Kept(seq, K)
<1>1. out \in Seq(S)
  BY KeptPicks
<1>2. PICK g : Picks(out, g, seq, K, Len(seq))
  BY KeptPicks
<1> HIDE DEF out
<1>3. DOMAIN out = 1..Len(out) /\ DOMAIN seq = 1..Len(seq) /\ Len(out) \in Nat /\ Len(seq) \in Nat
  BY <1>1
<1>4. /\ \A i \in DOMAIN out : g[i] \in DOMAIN seq /\ g[i] \in Int /\ out[i] = seq[g[i]] /\ out[i] \in K
      /\ \A i, j \in DOMAIN out : i < j => g[i] < g[j]
      /\ \A j \in DOMAIN seq : seq[j] \in K => \E i \in DOMAIN out : g[i] = j
  BY <1>2, <1>3 DEF Picks
<1>5. \A i, j \in DOMAIN out : i < j \/ i = j \/ j < i
  BY <1>3
<1>6. \A i, j \in DOMAIN out : (g[i] < g[j] => i < j) /\ (g[i] = g[j] => i = j)
  BY <1>4, <1>5
<1>7. ToSet(out) = ToSet(seq) \cap K
  BY <1>4 DEF ToSet
<1>8. ASSUME NEW s, OnlyOnce(seq, s) PROVE OnlyOnce(out, s)
  BY <1>4, <1>6, <1>8 DEF OnlyOnce
<1>9. ASSUME NEW s \in K, NEW t \in K, Before(seq, s, t) PROVE Before(out, s, t)
  BY <1>4, <1>6, <1>9 DEF Before
<1>10. ASSUME NEW s \in K, NEW t \in K, LastBefore(out, s, t) PROVE LastBefore(seq, s, t)
  <2>1. PICK k \in DOMAIN out : out[k] = t /\ \A j \in DOMAIN out : out[j] = s => j < k
    BY <1>10 DEF LastBefore
  <2>2. ASSUME NEW j \in DOMAIN seq, seq[j] = s PROVE j < g[k]
    BY <1>4, <2>1, <2>2
  <2> QED
    BY <1>4, <2>1, <2>2 DEF LastBefore
<1> QED
  BY <1>1, <1>7, <1>8, <1>9, <1>10 DEF out

LEMMA AppendedIsLast ==
  ASSUME NEW S, NEW seq \in Seq(S), NEW k \in S
  PROVE  LET longer == Append(seq, k)
         IN /\ longer \in Seq(S) /\ Len(longer) = Len(seq) + 1
            /\ ToSet(longer) = ToSet(seq) \cup {k}
            /\ \A s : s # k /\ OnlyOnce(seq, s) => OnlyOnce(longer, s)
            /\ k \notin ToSet(seq) => OnlyOnce(longer, k)
            /\ \A s, t : t # k /\ LastBefore(longer, s, t) => s # k /\ LastBefore(seq, s, t)
            /\ \A s \in ToSet(seq) : Before(longer, s, k)
            /\ \A s, t : Before(seq, s, t) => Before(longer, s, t)
<1> DEFINE longer == Append(seq, k)
           n == Len(seq)
<1>1. /\ longer \in Seq(S) /\ Len(longer) = n + 1 /\ n \in Nat
      /\ longer[n + 1] = k /\ \A i \in 1..n : longer[i] = seq[i]
      /\ DOMAIN longer = 1..(n + 1) /\ DOMAIN seq = 1..n
  OBVIOUS
<1> HIDE DEF longer
<1>2. /\ \A i \in DOMAIN longer : i = n + 1 \/ (i \in DOMAIN seq /\ i < n + 1)
      /\ \A i \in DOMAIN seq : i \in DOMAIN longer /\ longer[i] = seq[i] /\ i < n + 1
      /\ n + 1 \in DOMAIN longer /\ longer[n + 1] = k
  BY <1>1
<1>3. ToSet(longer) = ToSet(seq) \cup {k}
  BY <1>2 DEF ToSet
<1>4. ASSUME NEW s, s # k, OnlyOnce(seq, s) PROVE OnlyOnce(longer, s)
  BY <1>2, <1>4 DEF OnlyOnce
<1>5. ASSUME k \notin ToSet(seq) PROVE OnlyOnce(longer, k)
  BY <1>2, <1>5 DEF OnlyOnce, ToSet
<1>6. ASSUME NEW s, NEW t, t # k, LastBefore(longer, s, t)
      PROVE  s # k /\ LastBefore(seq, s, t)
  <2>1. PICK i \in DOMAIN longer : longer[i] = t /\ \A j \in DOMAIN longer : longer[j] = s => j < i
    BY <1>6 DEF LastBefore
  <2>2. i \in DOMAIN seq /\ i < n + 1
    BY <1>2, <1>6, <2>1
  <2>3. ~(n + 1 < i)
    BY <1>1, <2>2
  <2> QED
    BY <1>2, <2>1, <2>2, <2>3 DEF LastBefore
<1>7. ASSUME NEW s \in ToSet(seq) PROVE Before(longer, s, k)
  BY <1>2 DEF Before, ToSet
<1>8. ASSUME NEW s, NEW t, Before(seq, s, t) PROVE Before(longer, s, t)
  BY <1>2, <1>8 DEF Before
<1> QED
  BY <1>1, <1>3, <1>4, <1>5, <1>6, <1>7, <1>8 DEF longer

LEMMA TouchedIsLast ==
  ASSUME NEW S, NEW lru \in Seq(S), NEW k \in S
  PROVE  LET touched == Touched(lru, k)
         IN /\ touched \in Seq(S)
            /\ ToSet(touched) = ToSet(lru) \cup {k}
            /\ OnlyOnce(touched, k)
            /\ \A s : s # k /\ OnlyOnce(lru, s) => OnlyOnce(touched, s)
            /\ \A s, t \in ToSet(lru) : t # k /\ LastBefore(touched, s, t) => s # k /\ LastBefore(lru, s, t)
            /\ \A s \in ToSet(lru) : s # k => Before(touched, s, k)
            /\ \A s, t : s # k /\ t # k /\ Before(lru, s, t) => Before(touched, s, t)
<1> DEFINE K == ToSet(lru) \ {k}
           kept == Kept(lru, K)
<1>1. /\ kept \in Seq(S)
      /\ ToSet(kept) = K
      /\ \A s : OnlyOnce(lru, s) => OnlyOnce(kept, s)
      /\ \A s, t \in K : Before(lru, s, t) => Before(kept, s, t)
      /\ \A s, t \in K : LastBefore(kept, s, t) => LastBefore(lru, s, t)
  <2>1. ToSet(lru) \cap K = K
    OBVIOUS
  <2> HIDE DEF K
  <2> QED
    BY <2>1, KeptIsPart
<1>2. \A s, t : Before(lru, s, t) => s \in ToSet(lru) /\ t \in ToSet(lru)
  BY DEF Before, ToSet
<1>3. Touched(lru, k) = Append(kept, k)
  BY DEF Touched
<1> HIDE DEF kept
<1>4. /\ Append(kept, k) \in Seq(S)
      /\ ToSet(Append(kept, k)) = ToSet(kept) \cup {k}
      /\ \A s : s # k /\ OnlyOnce(kept, s) => OnlyOnce(Append(kept, k), s)
      /\ k \notin ToSet(kept) => OnlyOnce(Append(kept, k), k)
      /\ \A s, t : t # k /\ LastBefore(Append(kept, k), s, t) => s # k /\ LastBefore(kept, s, t)
      /\ \A s \in ToSet(kept) : Before(Append(kept, k), s, k)
      /\ \A s, t : Before(kept, s, t) => Before(Append(kept, k), s, t)
  BY <1>1, AppendedIsLast
<1> QED
  BY <1>1, <1>2, <1>3, <1>4

\* What a list has left when its first n entries are gone.
LEMMA RestOfList ==
  ASSUME NEW S, NEW lru \in Seq(S), NEW n \in 0..Len(lru)
  PROVE  LET first == SubSeq(lru, 1, n)
             rest == SubSeq(lru, n + 1, Len(lru))
         IN /\ rest \in Seq(S) /\ Len(rest) = Len(lru) - n
            /\ ToSet(lru) = ToSet(first) \cup ToSet(rest)
            /\ \A s \in ToSet(first) \cap ToSet(rest) : ~OnlyOnce(lru, s)
            /\ \A s : OnlyOnce(lru, s) => OnlyOnce(rest, s)
            /\ \A s, t : LastBefore(rest, s, t) => LastBefore(lru, s, t)
            /\ \A s, t : t \in ToSet(rest) /\ s \notin ToSet(rest) => LastBefore(lru, s, t)
<1> DEFINE first == SubSeq(lru, 1, n)
           rest == SubSeq(lru, n + 1, Len(lru))
           l == Len(lru)
<1>1. /\ l \in Nat /\ n \in Nat /\ n <= l /\ DOMAIN lru = 1..l
      /\ first \in Seq(S) /\ Len(first) = n /\ DOMAIN first = 1..n
      /\ \A i \in 1..n : first[i] = lru[i]
      /\ rest \in Seq(S) /\ Len(rest) = l - n /\ DOMAIN rest = 1..(l - n)
      /\ \A i \in 1..(l - n) : rest[i] = lru[i + n]
  OBVIOUS
<1> HIDE DEF first, rest
<1>2. /\ \A i \in DOMAIN first : i \in DOMAIN lru /\ first[i] = lru[i] /\ i <= n
      /\ \A i \in DOMAIN rest : i + n \in DOMAIN lru /\ rest[i] = lru[i + n] /\ n < i + n /\ i \in Int
      /\ \A i \in DOMAIN lru : i <= n => i \in DOMAIN first
      /\ \A i \in DOMAIN lru : n < i => i - n \in DOMAIN rest /\ rest[i - n] = lru[i] /\ i \in Int
      /\ \A i \in DOMAIN lru : i <= n \/ n < i
  <2>1. ASSUME NEW i \in DOMAIN lru, n < i
        PROVE  i - n \in DOMAIN rest /\ rest[i - n] = lru[i] /\ i \in Int
    <3>1. i - n \in 1..(l - n) /\ (i - n) + n = i
      BY <1>1, <2>1
    <3> QED
      BY <1>1, <3>1
  <2> QED
    BY <1>1, <2>1
<1>3. ToSet(lru) = ToSet(first) \cup ToSet(rest)
  <2>1. ASSUME NEW s \in ToSet(lru) PROVE s \in ToSet(first) \cup ToSet(rest)
    BY <1>2 DEF ToSet
  <2>2. ASSUME NEW s \in ToSet(first) \cup ToSet(rest) PROVE s \in ToSet(lru)
    BY <1>2 DEF ToSet
  <2> QED
    BY <2>1, <2>2
<1>4. ASSUME NEW s \in ToSet(first) \cap ToSet(rest) PROVE ~OnlyOnce(lru, s)
  <2>1. PICK i \in DOMAIN first : first[i] = s
    BY DEF ToSet
  <2>2. PICK j \in DOMAIN rest : rest[j] = s
    BY DEF ToSet
  <2>3. i \in DOMAIN lru /\ lru[i] = s /\ j + n \in DOMAIN lru /\ lru[j + n] = s
    BY <1>2, <2>1, <2>2
  <2>4. i # j + n
    BY <1>1
  <2> QED
    BY <2>3, <2>4 DEF OnlyOnce
<1>5. ASSUME NEW s, OnlyOnce(lru, s) PROVE OnlyOnce(rest, s)
  <2> SUFFICES ASSUME NEW i \in DOMAIN rest, NEW j \in DOMAIN rest, rest[i] = s, rest[j] = s
               PROVE  i = j
    BY DEF OnlyOnce
  <2>1. i + n = j + n
    BY <1>2, <1>5 DEF OnlyOnce
  <2> QED
    BY <1>1, <1>2, <2>1
<1>6. ASSUME NEW s, NEW t, LastBefore(rest, s, t) PROVE LastBefore(lru, s, t)
  <2>1. PICK k \in DOMAIN rest : rest[k] = t /\ \A j \in DOMAIN rest : rest[j] = s => j < k
    BY <1>6 DEF LastBefore
  <2>2. ASSUME NEW j \in DOMAIN lru, lru[j] = s PROVE j < k + n
    <3>1. j \in Int /\ k \in Int /\ n \in Int /\ 0 < k
      BY <1>1
    <3>2. CASE j <= n
      BY <3>1, <3>2
    <3>3. CASE n < j
      <4>1. j - n \in DOMAIN rest /\ rest[j - n] = s
        BY <1>2, <2>2, <3>3
      <4>2. j - n < k
        BY <2>1, <4>1
      <4> QED
        BY <3>1, <4>2
    <3> QED
      BY <3>1, <3>2, <3>3
  <2>3. k + n \in DOMAIN lru /\ lru[k + n] = t
    BY <1>2, <2>1
  <2> QED
    BY <2>2, <2>3 DEF LastBefore
<1>7. ASSUME NEW s, NEW t, t \in ToSet(rest), s \notin ToSet(rest) PROVE LastBefore(lru, s, t)
  <2>1. PICK k \in DOMAIN rest : rest[k] = t
    BY <1>7 DEF ToSet
  <2>2. \A j \in DOMAIN lru : lru[j] = s => j <= n
    BY <1>2, <1>7 DEF ToSet
  <2>3. \A j \in DOMAIN lru : j <= n => j < k + n
    BY <1>1
  <2>4. k + n \in DOMAIN lru /\ lru[k + n] = t
    BY <1>2, <2>1
  <2> QED
    BY <2>2, <2>3, <2>4 DEF LastBefore
<1> QED
  BY <1>1, <1>3, <1>4, <1>5, <1>6, <1>7 DEF first, rest

-----------------------------------------------------------------------------
\* Room is made for a stream: the list ends only when nothing is remembered.
LEMMA RoomIsMade ==
  ASSUME NEW p \in PoolState, p.streams \subseteq ToSet(p.lru)
  PROVE  /\ RoomAfter(p) \in 0..Len(p.lru)
         /\ IsFiniteSet(p.streams \ ToSet(SubSeq(p.lru, 1, RoomAfter(p))))
         /\ Cardinality(p.streams \ ToSet(SubSeq(p.lru, 1, RoomAfter(p)))) < MaxStreams
<1> DEFINE left(k) == Cardinality(p.streams \ ToSet(SubSeq(p.lru, 1, k)))
           l == Len(p.lru)
           T == {k \in 0..l : left(k) < MaxStreams \/ k = l}
<1>1. /\ p.lru \in Seq(Streams) /\ l \in Nat
      /\ IsFiniteSet(p.streams)
      /\ MaxStreams \in Nat \ {0}
  <2>1. p.streams \in SUBSET Streams
    BY DEF PoolState
  <2> QED
    BY <2>1, FS_Subset, VadAssumption DEF PoolState
<1>2. \A k : /\ IsFiniteSet(p.streams \ ToSet(SubSeq(p.lru, 1, k)))
             /\ left(k) \in Nat
  BY <1>1, FS_Subset, FS_CardinalityType
<1>3. left(l) < MaxStreams
  <2>1. SubSeq(p.lru, 1, l) = p.lru
    BY <1>1
  <2>2. left(l) = 0
    BY <2>1, FS_EmptySet
  <2> QED
    BY <1>1, <2>2
<1> HIDE DEF left
<1>4. PICK n \in T : \A k \in T : n <= k
  <2>1. T \in SUBSET Nat /\ l \in T
    BY <1>1
  <2> HIDE DEF T
  <2> QED
    BY <2>1, LeastNat
<1>5. /\ n \in 0..l
      /\ left(n) < MaxStreams \/ n = l
      /\ \A k \in 0..(n - 1) : left(k) >= MaxStreams
  <2>1. ASSUME NEW k \in 0..(n - 1) PROVE left(k) >= MaxStreams
    <3>1. k \in 0..l /\ k < n /\ n \in 0..l
      BY <1>1, <1>4
    <3>2. k \notin T
      <4> HIDE DEF T
      <4> QED
        BY <1>4, <3>1
    <3>3. ~(left(k) < MaxStreams)
      BY <3>1, <3>2
    <3>4. left(k) \in Nat /\ MaxStreams \in Nat
      BY <1>1, <1>2
    <3> QED
      BY <3>3, <3>4
  <2> QED
    BY <1>4, <2>1
<1> DEFINE Room(k) == /\ left(k) < MaxStreams \/ k = l
                      /\ \A j \in 0..(k - 1) : left(j) >= MaxStreams
<1>6. RoomAfter(p) = CHOOSE k \in 0..l : Room(k)
  BY DEF RoomAfter, left
<1>7. RoomAfter(p) \in 0..l /\ Room(RoomAfter(p))
  <2> HIDE DEF Room
  <2>1. \E k \in 0..l : Room(k)
    BY <1>5 DEF Room
  <2> QED
    BY <1>6, <2>1
<1>8. left(RoomAfter(p)) < MaxStreams
  BY <1>3, <1>7
<1> QED
  BY <1>2, <1>7, <1>8 DEF left

\* A slot's list names what it remembers, heard in this order last; what it
\* names more than once, or in vain, has failed.
SlotIsListed(p, h, f) ==
    /\ Cardinality(p.streams) <= MaxStreams
    /\ p.streams \subseteq ToSet(p.lru)
    /\ p.streams \subseteq ToSet(h)
    /\ ToSet(p.lru) \subseteq p.streams \cup f
    /\ \A s \in p.streams \ f : OnlyOnce(p.lru, s)
    /\ \A s, t \in p.streams : LastBefore(p.lru, s, t) => Before(h, s, t)

\* ensure_stream_state, as far as the list goes.
LEMMA StreamIsListed ==
  ASSUME NEW p \in PoolState, NEW h, NEW f \in SUBSET Streams, SlotIsListed(p, h, f),
         NEW s0 \in Streams
  PROVE  LET w == WithStream(p, s0)
         IN /\ w \in PoolState /\ w.config = p.config
            /\ s0 \in w.streams /\ w.streams \subseteq p.streams \cup {s0}
            /\ Cardinality(w.streams) <= MaxStreams
            /\ w.streams \subseteq ToSet(w.lru)
            /\ ToSet(w.lru) \subseteq w.streams \cup f
            /\ \A s \in w.streams \ f : OnlyOnce(w.lru, s)
            /\ \A s, t \in w.streams : t # s0 /\ LastBefore(w.lru, s, t) => s # s0 /\ LastBefore(p.lru, s, t)
            /\ \A s \in p.streams \ w.streams, t \in p.streams \cap w.streams :
                 s \in f \cap ToSet(w.lru) \/ LastBefore(p.lru, s, t)
<1> DEFINE w == WithStream(p, s0)
<1>1. /\ p.lru \in Seq(Streams) /\ p.streams \subseteq Streams /\ p.config \in SUBSET Configs
      /\ p.loaded \in BOOLEAN
  BY DEF PoolState
<1>2. CASE s0 \in p.streams
  <2> DEFINE lru == Touched(p.lru, s0)
  <2>1. w = [p EXCEPT !.lru = lru]
    BY <1>2 DEF WithStream
  <2>2. /\ lru \in Seq(Streams)
        /\ ToSet(lru) = ToSet(p.lru) \cup {s0}
        /\ OnlyOnce(lru, s0)
        /\ \A s : s # s0 /\ OnlyOnce(p.lru, s) => OnlyOnce(lru, s)
        /\ \A s, t \in ToSet(p.lru) :
             t # s0 /\ LastBefore(lru, s, t) => s # s0 /\ LastBefore(p.lru, s, t)
    BY <1>1, TouchedIsLast
  <2> HIDE DEF lru
  <2>3. w \in PoolState /\ w.config = p.config /\ w.streams = p.streams /\ w.lru = lru
    BY <1>1, <2>1, <2>2 DEF PoolState
  <2> HIDE DEF w
  <2> QED
    BY <1>2, <2>2, <2>3 DEF SlotIsListed, w
<1>3. CASE s0 \notin p.streams
  <2> DEFINE n == RoomAfter(p)
             first == ToSet(SubSeq(p.lru, 1, n))
             rest == SubSeq(p.lru, n + 1, Len(p.lru))
             lru == Append(rest, s0)
             left == p.streams \ first
  <2>1. w = [p EXCEPT !.streams = left \cup {s0}, !.lru = lru]
    BY <1>3 DEF WithStream
  <2>2. n \in 0..Len(p.lru) /\ IsFiniteSet(left) /\ Cardinality(left) < MaxStreams
    BY RoomIsMade DEF SlotIsListed
  <2>3. /\ rest \in Seq(Streams)
        /\ ToSet(p.lru) = first \cup ToSet(rest)
        /\ \A s \in first \cap ToSet(rest) : ~OnlyOnce(p.lru, s)
        /\ \A s : OnlyOnce(p.lru, s) => OnlyOnce(rest, s)
        /\ \A s, t : LastBefore(rest, s, t) => LastBefore(p.lru, s, t)
        /\ \A s, t : t \in ToSet(rest) /\ s \notin ToSet(rest) => LastBefore(p.lru, s, t)
    BY <1>1, <2>2, RestOfList
  <2> HIDE DEF rest, first
  <2>4. /\ lru \in Seq(Streams)
        /\ ToSet(lru) = ToSet(rest) \cup {s0}
        /\ \A s : s # s0 /\ OnlyOnce(rest, s) => OnlyOnce(lru, s)
        /\ s0 \notin ToSet(rest) => OnlyOnce(lru, s0)
        /\ \A s, t : t # s0 /\ LastBefore(lru, s, t) => s # s0 /\ LastBefore(rest, s, t)
    BY <2>3, AppendedIsLast
  <2> HIDE DEF lru
  <2>5. Cardinality(left \cup {s0}) <= MaxStreams
    <3>1. Cardinality(left) \in Nat
      BY <2>2, FS_CardinalityType
    <3>2. s0 \notin left
      BY <1>3
    <3> HIDE DEF left
    <3>3. Cardinality(left \cup {s0}) = Cardinality(left) + 1
      BY <2>2, <3>2, FS_AddElement
    <3> QED
      BY <2>2, <3>1, <3>3, VadAssumption
  <2>6. /\ w \in PoolState /\ w.config = p.config
        /\ w.streams = left \cup {s0} /\ w.lru = lru
    BY <1>1, <2>1, <2>4 DEF PoolState
  <2>7. w.streams \subseteq ToSet(w.lru)
    BY <2>3, <2>4, <2>6 DEF SlotIsListed
  <2>8. \A s \in p.streams : s \in first /\ s \in ToSet(rest) => s \in f
    BY <2>3 DEF SlotIsListed
  <2>9. ToSet(w.lru) \subseteq w.streams \cup f
    BY <2>3, <2>4, <2>6, <2>8 DEF SlotIsListed
  <2>10. \A s \in w.streams \ f : OnlyOnce(w.lru, s)
    <3> SUFFICES ASSUME NEW s \in w.streams \ f PROVE OnlyOnce(w.lru, s)
      OBVIOUS
    <3>1. CASE s = s0
      <4>1. s0 \notin ToSet(rest)
        BY <1>3, <2>3, <3>1 DEF SlotIsListed
      <4> QED
        BY <2>4, <2>6, <3>1, <4>1
    <3>2. CASE s # s0
      BY <2>3, <2>4, <2>6, <3>2 DEF SlotIsListed
    <3> QED
      BY <3>1, <3>2
  <2>11. \A s, t \in w.streams : t # s0 /\ LastBefore(w.lru, s, t) => s # s0 /\ LastBefore(p.lru, s, t)
    BY <2>3, <2>4, <2>6
  <2>12. ASSUME NEW s \in p.streams \ w.streams, NEW t \in p.streams \cap w.streams
         PROVE  s \in f \cap ToSet(w.lru) \/ LastBefore(p.lru, s, t)
    <3>1. s \in first /\ t \in ToSet(rest)
      BY <1>3, <2>3, <2>6 DEF SlotIsListed
    <3>2. CASE s \in ToSet(rest)
      BY <2>4, <2>6, <2>8, <3>1, <3>2
    <3>3. CASE s \notin ToSet(rest)
      BY <2>3, <3>1, <3>3
    <3> QED
      BY <3>2, <3>3
  <2> HIDE DEF w
  <2> QED
    BY <2>5, <2>6, <2>7, <2>9, <2>10, <2>11, <2>12 DEF w
<1> QED
  BY <1>2, <1>3

\* What a slot is after a request for s0, which fails if f0 is not empty.
LEMMA SlotStaysListed ==
  ASSUME NEW p \in PoolState, NEW h \in Seq(Streams), NEW f \in SUBSET Streams,
         SlotIsListed(p, h, f), NEW s0 \in Streams,
         NEW r, NEW f0,
         \/ r = WithStream(p, s0) /\ f0 = {}
         \/ r = [WithStream(p, s0) EXCEPT !.streams = @ \ {s0}] /\ f0 = {s0}
  PROVE  /\ r \in PoolState /\ r.config = p.config
         /\ Kept(Touched(h, s0), r.streams) \in Seq(Streams)
         /\ SlotIsListed(r, Kept(Touched(h, s0), r.streams), (f \cup f0) \cap ToSet(r.lru))
         /\ \A s \in p.streams \ (r.streams \cup ((f \cup f0) \cap ToSet(r.lru))),
               t \in p.streams \cap r.streams : Before(h, s, t)
<1> DEFINE w == WithStream(p, s0)
           t0 == Touched(h, s0)
           h1 == Kept(t0, r.streams)
           fs == (f \cup f0) \cap ToSet(r.lru)
<1>1. /\ w \in PoolState /\ w.config = p.config
      /\ s0 \in w.streams /\ w.streams \subseteq p.streams \cup {s0}
      /\ Cardinality(w.streams) <= MaxStreams
      /\ w.streams \subseteq ToSet(w.lru)
      /\ ToSet(w.lru) \subseteq w.streams \cup f
      /\ \A s \in w.streams \ f : OnlyOnce(w.lru, s)
      /\ \A s, t \in w.streams : t # s0 /\ LastBefore(w.lru, s, t) => s # s0 /\ LastBefore(p.lru, s, t)
      /\ \A s \in p.streams \ w.streams, t \in p.streams \cap w.streams :
           s \in f \cap ToSet(w.lru) \/ LastBefore(p.lru, s, t)
  BY StreamIsListed
<1>2. /\ t0 \in Seq(Streams)
      /\ ToSet(t0) = ToSet(h) \cup {s0}
      /\ \A s \in ToSet(h) : s # s0 => Before(t0, s, s0)
      /\ \A s, t : s # s0 /\ t # s0 /\ Before(h, s, t) => Before(t0, s, t)
  BY TouchedIsLast
<1> HIDE DEF w, t0
<1>3. /\ r \in PoolState /\ r.config = p.config /\ r.lru = w.lru
      /\ r.streams = w.streams \ f0 /\ f0 \subseteq {s0}
  <2>1. r = w \/ r = [w EXCEPT !.streams = @ \ {s0}]
    BY DEF w
  <2> QED
    BY <1>1, <2>1 DEF PoolState, w
<1>4. /\ h1 \in Seq(Streams)
      /\ ToSet(h1) = ToSet(t0) \cap r.streams
      /\ \A s, t \in r.streams : Before(t0, s, t) => Before(h1, s, t)
  BY <1>2, KeptIsPart
<1> HIDE DEF h1
<1>5. Cardinality(r.streams) <= MaxStreams
  <2>1. w.streams \in SUBSET Streams
    BY <1>1 DEF PoolState
  <2>2. IsFiniteSet(w.streams) /\ Cardinality(w.streams) \in Nat
    BY <2>1, FS_Subset, FS_CardinalityType, VadAssumption
  <2>3. /\ IsFiniteSet(r.streams) /\ Cardinality(r.streams) \in Nat
        /\ Cardinality(r.streams) <= Cardinality(w.streams)
    BY <1>3, <2>2, FS_Subset, FS_CardinalityType
  <2> QED
    BY <1>1, <2>2, <2>3, VadAssumption
<1>6. r.streams \subseteq ToSet(r.lru) /\ r.streams \subseteq ToSet(h1)
  BY <1>1, <1>2, <1>3, <1>4 DEF SlotIsListed
<1>7. ToSet(r.lru) \subseteq r.streams \cup fs
  BY <1>1, <1>3
<1>8. \A s \in r.streams \ fs : OnlyOnce(r.lru, s)
  BY <1>1, <1>3
<1>9. ASSUME NEW s \in r.streams, NEW t \in r.streams, LastBefore(r.lru, s, t)
      PROVE  Before(h1, s, t)
  <2>1. CASE t = s0
    <3>1. s # s0
      <4>1. ~LastBefore(r.lru, s0, s0)
        <5>1. r.lru \in Seq(Streams)
          BY <1>3 DEF PoolState
        <5>2. \A k \in DOMAIN r.lru : ~(k < k)
          BY <5>1
        <5> QED
          BY <5>2 DEF LastBefore
      <4> QED
        BY <1>9, <2>1, <4>1
    <3>2. s \in ToSet(h)
      BY <1>1, <1>3, <3>1 DEF SlotIsListed
    <3> QED
      BY <1>2, <1>4, <2>1, <3>1, <3>2
  <2>2. CASE t # s0
    <3>1. s # s0 /\ LastBefore(p.lru, s, t)
      BY <1>1, <1>3, <1>9, <2>2
    <3>2. s \in p.streams /\ t \in p.streams
      BY <1>1, <1>3, <2>2, <3>1
    <3> QED
      BY <1>2, <1>4, <2>2, <3>1, <3>2 DEF SlotIsListed
  <2> QED
    BY <2>1, <2>2
<1>10. ASSUME NEW s \in p.streams \ (r.streams \cup fs), NEW t \in p.streams \cap r.streams
       PROVE  Before(h, s, t)
  <2>1. s \notin w.streams
    BY <1>1, <1>3
  <2>2. LastBefore(p.lru, s, t)
    BY <1>1, <1>3, <2>1
  <2> QED
    BY <2>2 DEF SlotIsListed
<1> QED
  BY <1>3, <1>4, <1>5, <1>6, <1>7, <1>8, <1>9, <1>10 DEF SlotIsListed, h1, t0

-----------------------------------------------------------------------------
(***************************************************************************)
(* The speech detector's caches, for any limits, streams and number of     *)
(* requests.  The list and the cached pools correspond one to one; of a    *)
(* slot's list and memory SlotIsListed holds; and a pool that nothing      *)
(* holds is forgotten, so that a new one starts empty.                     *)
(***************************************************************************)
OneToOne(lru, F, p) ==
    /\ \A c : OnlyOnce(lru, c)
    /\ \A i \in F : \E c \in ToSet(lru) : p[i].config = {c}
    /\ \A c \in ToSet(lru) : \E i \in F : p[i].config = {c}
    /\ \A i, j \in F : p[i].config = p[j].config => i = j

FilesAreListed == OneToOne(fileLru, files, pool)

SlotsAreListed == \A i \in Pools : SlotIsListed(pool[i], heard[i], failed[i])

FreeAreGone ==
    \A i \in Pools : ~Held(i) => pool[i] = Gone /\ heard[i] = <<>> /\ failed[i] = {}

VadInv == VadTypeOK /\ FilesAreListed /\ SlotsAreListed /\ FreeAreGone

LEMMA PoolsAreFinite ==
  /\ IsFiniteSet(Pools) /\ 0 \notin Pools
  /\ Cardinality(Requests) \in Nat
<1>1. Cardinality(Requests) \in Nat
  BY VadAssumption, FS_CardinalityType
<1> QED
  BY <1>1, VadAssumption, FS_Interval DEF Pools

LEMMA FilesAreCounted ==
  ASSUME NEW S, NEW lru \in Seq(S), NEW F, NEW p, OneToOne(lru, F, p)
  PROVE  /\ IsFiniteSet(F)
         /\ Cardinality(F) = Len(lru)
<1> DEFINE n == Len(lru)
           at == [k \in 1..n |-> CHOOSE i \in F : p[i].config = {lru[k]}]
<1>1. n \in Nat /\ DOMAIN lru = 1..n
  OBVIOUS
<1>2. ASSUME NEW k \in 1..n
      PROVE  at[k] \in F /\ p[at[k]].config = {lru[k]}
  <2>1. \E i \in F : p[i].config = {lru[k]}
    BY <1>1 DEF OneToOne, ToSet
  <2> QED
    BY <2>1
<1> HIDE DEF at
<1>3. \A j, k \in 1..n : at[j] = at[k] => j = k
  <2> SUFFICES ASSUME NEW j \in 1..n, NEW k \in 1..n, at[j] = at[k] PROVE j = k
    OBVIOUS
  <2>1. {lru[j]} = {lru[k]}
    BY <1>2
  <2>2. lru[j] = lru[k]
    BY <2>1
  <2> QED
    BY <1>1, <2>2 DEF OneToOne, OnlyOnce
<1>4. \A i \in F : \E k \in 1..n : at[k] = i
  <2> SUFFICES ASSUME NEW i \in F PROVE \E k \in 1..n : at[k] = i
    OBVIOUS
  <2>1. PICK k \in 1..n : p[i].config = {lru[k]}
    BY <1>1 DEF OneToOne, ToSet
  <2>2. at[k] \in F /\ p[at[k]].config = p[i].config
    BY <1>2, <2>1
  <2>3. at[k] = i
    BY <2>2 DEF OneToOne
  <2> QED
    BY <2>3
<1>5. at \in Bijection(1..n, F)
  <2>1. at \in [1..n -> F]
    BY <1>2 DEF at
  <2>2. DOMAIN at = 1..n
    BY <2>1
  <2> QED
    BY <1>3, <1>4, <2>1, <2>2 DEF Bijection, Injection, Surjection, IsInjective
<1>6. ExistsBijection(1..n, F)
  BY <1>5 DEF ExistsBijection
<1>7. IsFiniteSet(1..n) /\ Cardinality(1..n) = n
  BY <1>1, FS_Interval
<1> QED
  BY <1>6, <1>7, FS_Bijection

LEMMA SameConfigs ==
  ASSUME NEW lru, NEW F, NEW p, OneToOne(lru, F, p),
         NEW r, \A j \in F : r[j].config = p[j].config
  PROVE  OneToOne(lru, F, r)
<1>1. \A i \in F : \E c \in ToSet(lru) : r[i].config = {c}
  BY DEF OneToOne
<1>2. ASSUME NEW c \in ToSet(lru) PROVE \E i \in F : r[i].config = {c}
  <2>1. PICK i \in F : p[i].config = {c}
    BY DEF OneToOne
  <2> QED
    BY <2>1
<1>3. ASSUME NEW i \in F, NEW j \in F, r[i].config = r[j].config PROVE i = j
  <2>1. p[i].config = p[j].config
    BY <1>3
  <2> QED
    BY <2>1 DEF OneToOne
<1> QED
  BY <1>1, <1>2, <1>3 DEF OneToOne

LEMMA OneMoreConfig ==
  ASSUME NEW lru, NEW F, NEW p, OneToOne(lru, F, p),
         NEW c, c \notin ToSet(lru), NEW i, p[i].config = {c},
         NEW longer, ToSet(longer) = ToSet(lru) \cup {c}, \A d : OnlyOnce(longer, d)
  PROVE  OneToOne(longer, F \cup {i}, p)
<1>1. ASSUME NEW j \in F \cup {i} PROVE \E d \in ToSet(longer) : p[j].config = {d}
  <2>1. CASE j = i
    BY <2>1
  <2>2. CASE j \in F
    <3>1. PICK d \in ToSet(lru) : p[j].config = {d}
      BY <2>2 DEF OneToOne
    <3> QED
      BY <3>1
  <2> QED
    BY <2>1, <2>2
<1>2. ASSUME NEW d \in ToSet(longer) PROVE \E j \in F \cup {i} : p[j].config = {d}
  <2>1. CASE d = c
    BY <2>1
  <2>2. CASE d \in ToSet(lru)
    <3>1. PICK j \in F : p[j].config = {d}
      BY <2>2 DEF OneToOne
    <3> QED
      BY <3>1
  <2> QED
    BY <2>1, <2>2
<1>3. ASSUME NEW j \in F PROVE p[j].config # p[i].config
  <2>1. PICK d \in ToSet(lru) : p[j].config = {d}
    BY DEF OneToOne
  <2>2. d # c
    BY <2>1
  <2> QED
    BY <2>1, <2>2
<1>4. \A j, k \in F : p[j].config = p[k].config => j = k
  BY DEF OneToOne
<1>5. \A j, k \in F \cup {i} : p[j].config = p[k].config => j = k
  BY <1>3, <1>4
<1> QED
  BY <1>1, <1>2, <1>5 DEF OneToOne

LEMMA InitVad == VadInit => VadInv
<1> SUFFICES ASSUME VadInit PROVE VadInv
  OBVIOUS
<1>2. Gone \in PoolState /\ Len(Gone.lru) = 0 /\ ToSet(Gone.lru) = {} /\ ToSet(<<>>) = {}
  BY DEF Gone, PoolState, ToSet
<1>3. VadTypeOK
  BY <1>2, VadAssumption DEF VadInit, VadTypeOK, Idle
<1>4. FilesAreListed
  BY <1>2 DEF VadInit, FilesAreListed, OneToOne, OnlyOnce
<1>5. SlotIsListed(Gone, <<>>, {})
  <2>1. Gone.streams = {}
    BY DEF Gone
  <2> QED
    BY <1>2, <2>1, FS_EmptySet, VadAssumption DEF SlotIsListed
<1> QED
  BY <1>3, <1>4, <1>5 DEF VadInv, VadInit, SlotsAreListed, FreeAreGone

\* Pools that nothing holds any more are dropped.
LEMMA DroppedAreGone ==
  ASSUME NEW p \in [Pools -> PoolState], NEW h \in [Pools -> Seq(Streams)],
         NEW f \in [Pools -> SUBSET Streams],
         \A i \in Pools : SlotIsListed(p[i], h[i], f[i]) /\ Len(p[i].lru) <= MaxListed,
         pool' = Dropped(p), DropGhosts(h, f)
  PROVE  /\ pool' \in [Pools -> PoolState]
         /\ heard' \in [Pools -> Seq(Streams)]
         /\ failed' \in [Pools -> SUBSET Streams]
         /\ \A i \in Pools : Len(pool'[i].lru) <= MaxListed
         /\ \A i \in Pools : Held(i)' => pool'[i] = p[i] /\ heard'[i] = h[i] /\ failed'[i] = f[i]
         /\ SlotsAreListed' /\ FreeAreGone'
<1>1. Gone \in PoolState /\ Gone.streams = {} /\ Len(Gone.lru) = 0 /\ ToSet(Gone.lru) = {}
  BY DEF Gone, PoolState, ToSet
<1>2. SlotIsListed(Gone, <<>>, {})
  BY <1>1, FS_EmptySet, VadAssumption DEF SlotIsListed
<1>3. \A i \in Pools : /\ pool'[i] = IF Held(i)' THEN p[i] ELSE Gone
                       /\ heard'[i] = IF Held(i)' THEN h[i] ELSE <<>>
                       /\ failed'[i] = IF Held(i)' THEN f[i] ELSE {}
  BY DEF Dropped, DropGhosts
<1>4. MaxListed \in Nat
  BY VadAssumption
<1>5. /\ pool' \in [Pools -> PoolState]
      /\ heard' \in [Pools -> Seq(Streams)]
      /\ failed' \in [Pools -> SUBSET Streams]
  BY <1>1 DEF Dropped, DropGhosts
<1>6. ASSUME NEW i \in Pools
      PROVE  /\ SlotIsListed(pool'[i], heard'[i], failed'[i])
             /\ Len(pool'[i].lru) <= MaxListed
  <2>1. CASE Held(i)'
    <3>1. pool'[i] = p[i] /\ heard'[i] = h[i] /\ failed'[i] = f[i]
      BY <1>3, <2>1
    <3> QED
      BY <3>1
  <2>2. CASE ~Held(i)'
    <3>1. pool'[i] = Gone /\ heard'[i] = <<>> /\ failed'[i] = {}
      BY <1>3, <2>2
    <3> QED
      BY <1>1, <1>2, <1>4, <3>1
  <2> QED
    BY <2>1, <2>2
<1>7. SlotsAreListed'
  BY <1>6 DEF SlotsAreListed
<1>8. FreeAreGone'
  BY <1>3 DEF FreeAreGone
<1> QED
  BY <1>3, <1>5, <1>6, <1>7, <1>8

-----------------------------------------------------------------------------
\* What StreamsLeaveOldestFirst says of a step.
OldestLeave ==
    \A i \in Pools : Held(i)' =>
        \A s \in pool[i].streams \ (pool'[i].streams \cup failed'[i]) :
            \A t \in pool[i].streams \cap pool'[i].streams : Before(heard[i], s, t)

LEMMA SameOrder ==
  ASSUME VadInv, fileLru' \in Seq(FileConfigs), Len(fileLru') <= MaxPools,
         bundled' \in Pools \cup {NoPool}, files' \subseteq Pools,
         request' \in [Requests -> [pool : Pools \cup {NoPool}, stream : Streams \cup {NoStream}]],
         FilesAreListed',
         \A i \in Pools : Held(i)' <=> Held(i),
         UNCHANGED <<pool, heard, failed>>
  PROVE  VadInv' /\ OldestLeave
<1>1. VadTypeOK'
  BY DEF VadInv, VadTypeOK
<1>2. SlotsAreListed'
  BY DEF VadInv, SlotsAreListed
<1>3. FreeAreGone'
  BY DEF VadInv, FreeAreGone
<1>4. OldestLeave
  BY DEF OldestLeave
<1> QED
  BY <1>1, <1>2, <1>3, <1>4 DEF VadInv

LEMMA Taken ==
  ASSUME VadTypeOK, NEW q \in Requests, request[q] = Idle,
         NEW i \in Pools, NEW s \in Streams \cup {NoStream}, Take(q, i, s)
  PROVE  /\ request' \in [Requests -> [pool : Pools \cup {NoPool}, stream : Streams \cup {NoStream}]]
         /\ \A j \in Pools : (\E r \in Requests : request'[r].pool = j)
                                 <=> j = i \/ \E r \in Requests : request[r].pool = j
<1>1. request \in [Requests -> [pool : Pools \cup {NoPool}, stream : Streams \cup {NoStream}]]
  BY DEF VadTypeOK
<1>2. /\ request'[q] = [pool |-> i, stream |-> s]
      /\ \A r \in Requests : r # q => request'[r] = request[r]
      /\ request' \in [Requests -> [pool : Pools \cup {NoPool}, stream : Streams \cup {NoStream}]]
  BY <1>1 DEF Take
<1>3. request[q].pool = NoPool /\ request'[q].pool = i
  BY <1>2 DEF Idle
<1>4. NoPool \notin Pools
  BY PoolsAreFinite DEF NoPool
<1> QED
  BY <1>2, <1>3, <1>4

LEMMA FindKeeps ==
  ASSUME VadInv, NEW q \in Requests, request[q] = Idle,
         NEW c \in FileConfigs, NEW s \in Streams \cup {NoStream}, FindFilePool(q, c, s)
  PROVE  VadInv' /\ OldestLeave
<1>1. PICK i \in OfConfig(c) : /\ fileLru' = Touched(fileLru, c)
                               /\ Take(q, i, s)
                               /\ UNCHANGED <<bundled, files, pool, heard, failed>>
  BY DEF FindFilePool
<1>2. /\ fileLru \in Seq(FileConfigs) /\ Len(fileLru) <= MaxPools
      /\ files \subseteq Pools /\ bundled \in Pools \cup {NoPool} /\ FilesAreListed
  BY DEF VadInv, VadTypeOK
<1>3. i \in files /\ i \in Pools /\ c \in ToSet(fileLru)
  <2>1. i \in files /\ pool[i].config = {c}
    BY <1>1 DEF OfConfig
  <2>2. PICK d \in ToSet(fileLru) : pool[i].config = {d}
    BY <1>2, <2>1 DEF FilesAreListed, OneToOne
  <2> QED
    BY <1>2, <2>1, <2>2
<1>4. /\ fileLru' \in Seq(FileConfigs)
      /\ ToSet(fileLru') = ToSet(fileLru)
      /\ \A d : OnlyOnce(fileLru', d)
  <2>1. LET touched == Touched(fileLru, c)
        IN /\ touched \in Seq(FileConfigs)
           /\ ToSet(touched) = ToSet(fileLru) \cup {c}
           /\ OnlyOnce(touched, c)
           /\ \A d : d # c /\ OnlyOnce(fileLru, d) => OnlyOnce(touched, d)
    BY <1>2, TouchedIsLast
  <2> QED
    BY <1>1, <1>2, <1>3, <2>1 DEF FilesAreListed, OneToOne
<1>5. FilesAreListed'
  <2>1. OneToOne(fileLru', files, pool)
    BY <1>2, <1>4 DEF FilesAreListed, OneToOne
  <2> QED
    BY <1>1, <2>1 DEF FilesAreListed
<1>6. Len(fileLru') <= MaxPools
  <2>1. Cardinality(files) = Len(fileLru)
    BY <1>2, FilesAreCounted DEF FilesAreListed
  <2>2. OneToOne(fileLru', files', pool')
    BY <1>5 DEF FilesAreListed
  <2>3. Cardinality(files') = Len(fileLru')
    BY <1>4, <2>2, FilesAreCounted
  <2> QED
    BY <1>1, <1>2, <2>1, <2>3
<1>7. /\ request' \in [Requests -> [pool : Pools \cup {NoPool}, stream : Streams \cup {NoStream}]]
      /\ \A j \in Pools : (\E r \in Requests : request'[r].pool = j)
                              <=> j = i \/ \E r \in Requests : request[r].pool = j
  BY <1>1, <1>3, Taken DEF VadInv
<1>8. \A j \in Pools : Held(j)' <=> Held(j)
  BY <1>1, <1>3, <1>7 DEF Held
<1> QED
  BY <1>1, <1>2, <1>4, <1>5, <1>6, <1>7, <1>8, SameOrder

LEMMA NewPoolKeeps ==
  ASSUME VadInv, NEW q \in Requests, request[q] = Idle,
         NEW i \in Pools, Fresh(i), NEW c \in Configs, NEW s \in Streams \cup {NoStream},
         Take(q, i, s), NewPool(i, c)
  PROVE  /\ request' \in [Requests -> [pool : Pools \cup {NoPool}, stream : Streams \cup {NoStream}]]
         /\ pool' \in [Pools -> PoolState]
         /\ heard' \in [Pools -> Seq(Streams)]
         /\ failed' \in [Pools -> SUBSET Streams]
         /\ \A j \in Pools : Len(pool'[j].lru) <= MaxListed
         /\ SlotsAreListed' /\ FreeAreGone' /\ OldestLeave
         /\ pool'[i].config = {c}
         /\ \A j \in Pools : Held(j)' /\ j # i => pool'[j] = pool[j]
<1> DEFINE p == [pool EXCEPT ![i] = Empty(c)]
<1>1. /\ pool \in [Pools -> PoolState] /\ heard \in [Pools -> Seq(Streams)]
      /\ failed \in [Pools -> SUBSET Streams]
      /\ \A j \in Pools : Len(pool[j].lru) <= MaxListed
      /\ VadTypeOK
  BY DEF VadInv, VadTypeOK
<1>2. pool[i] = Gone /\ heard[i] = <<>> /\ failed[i] = {}
  BY DEF VadInv, FreeAreGone, Fresh
<1>3. /\ Empty(c) \in PoolState /\ Empty(c).config = {c} /\ Empty(c).streams = {}
      /\ Empty(c).lru = <<>> /\ ToSet(<<>>) = {} /\ Len(<<>>) = 0
      /\ Gone.streams = {}
  BY DEF Empty, Gone, PoolState, ToSet
<1>4. SlotIsListed(Empty(c), <<>>, {}) /\ Len(Empty(c).lru) <= MaxListed
  BY <1>3, FS_EmptySet, VadAssumption DEF SlotIsListed
<1>5. p \in [Pools -> PoolState] /\ p[i] = Empty(c) /\ \A j \in Pools : j # i => p[j] = pool[j]
  BY <1>1, <1>3
<1>6. \A j \in Pools : SlotIsListed(p[j], heard[j], failed[j]) /\ Len(p[j].lru) <= MaxListed
  <2> SUFFICES ASSUME NEW j \in Pools
               PROVE  SlotIsListed(p[j], heard[j], failed[j]) /\ Len(p[j].lru) <= MaxListed
    OBVIOUS
  <2> HIDE DEF p
  <2>1. CASE j = i
    BY <1>2, <1>4, <1>5, <2>1
  <2>2. CASE j # i
    BY <1>1, <1>5, <2>2 DEF VadInv, SlotsAreListed
  <2> QED
    BY <2>1, <2>2
<1>7. pool' = Dropped(p) /\ DropGhosts(heard, failed)
  BY DEF NewPool
<1> HIDE DEF p
<1>8. /\ pool' \in [Pools -> PoolState]
      /\ heard' \in [Pools -> Seq(Streams)]
      /\ failed' \in [Pools -> SUBSET Streams]
      /\ \A j \in Pools : Len(pool'[j].lru) <= MaxListed
      /\ \A j \in Pools : Held(j)' => pool'[j] = p[j] /\ heard'[j] = heard[j] /\ failed'[j] = failed[j]
      /\ SlotsAreListed' /\ FreeAreGone'
  BY <1>1, <1>5, <1>6, <1>7, DroppedAreGone
<1>9. /\ request' \in [Requests -> [pool : Pools \cup {NoPool}, stream : Streams \cup {NoStream}]]
      /\ \A j \in Pools : (\E r \in Requests : request'[r].pool = j)
                              <=> j = i \/ \E r \in Requests : request[r].pool = j
  BY <1>1, Taken
<1>10. Held(i)'
  BY <1>9 DEF Held
<1>11. OldestLeave
  BY <1>2, <1>3, <1>5, <1>8 DEF OldestLeave
<1> QED
  BY <1>3, <1>5, <1>8, <1>9, <1>10, <1>11

LEMMA TailOfList ==
  ASSUME NEW S, NEW lru \in Seq(S), lru # <<>>, \A c : OnlyOnce(lru, c)
  PROVE  /\ Tail(lru) \in Seq(S) /\ Len(Tail(lru)) = Len(lru) - 1
         /\ Head(lru) \in ToSet(lru)
         /\ ToSet(Tail(lru)) = ToSet(lru) \ {Head(lru)}
         /\ \A c : OnlyOnce(Tail(lru), c)
<1>1. 1 \in 0..Len(lru) /\ 1 \in DOMAIN lru /\ Head(lru) = lru[1] /\ Len(lru) \in Nat
  OBVIOUS
<1> DEFINE first == SubSeq(lru, 1, 1)
           rest == SubSeq(lru, 2, Len(lru))
<1>2. /\ rest \in Seq(S) /\ Len(rest) = Len(lru) - 1
      /\ ToSet(lru) = ToSet(first) \cup ToSet(rest)
      /\ \A s \in ToSet(first) \cap ToSet(rest) : ~OnlyOnce(lru, s)
      /\ \A s : OnlyOnce(lru, s) => OnlyOnce(rest, s)
  <2>1. 1 + 1 = 2
    OBVIOUS
  <2> QED
    BY <1>1, <2>1, RestOfList
<1>3. ToSet(first) = {Head(lru)}
  <2>1. DOMAIN first = {1} /\ first[1] = lru[1]
    BY <1>1
  <2> HIDE DEF first
  <2> QED
    BY <1>1, <2>1 DEF ToSet
<1>4. Tail(lru) = rest
  BY <1>1
<1> HIDE DEF first, rest
<1> QED
  BY <1>1, <1>2, <1>3, <1>4

LEMMA MakeKeeps ==
  ASSUME VadInv, NEW q \in Requests, request[q] = Idle,
         NEW c \in FileConfigs, NEW s \in Streams \cup {NoStream}, MakeFilePool(q, c, s)
  PROVE  VadInv' /\ OldestLeave
<1> DEFINE full == Cardinality(files) >= MaxPools /\ fileLru # <<>>
           left == IF full THEN files \ OfConfig(Head(fileLru)) ELSE files
           kept == IF full THEN Tail(fileLru) ELSE fileLru
<1>1. PICK i \in Pools : /\ Fresh(i)
                         /\ files' = left \cup {i}
                         /\ fileLru' = Append(kept, c)
                         /\ Take(q, i, s)
                         /\ UNCHANGED bundled
                         /\ NewPool(i, c)
  BY DEF MakeFilePool
<1>2. /\ fileLru \in Seq(FileConfigs) /\ Len(fileLru) <= MaxPools /\ Len(fileLru) \in Nat
      /\ files \subseteq Pools /\ bundled \in Pools \cup {NoPool}
      /\ OneToOne(fileLru, files, pool)
      /\ Cardinality(files) = Len(fileLru)
  <2>1. /\ fileLru \in Seq(FileConfigs) /\ Len(fileLru) <= MaxPools
        /\ files \subseteq Pools /\ bundled \in Pools \cup {NoPool}
        /\ OneToOne(fileLru, files, pool)
    BY DEF VadInv, VadTypeOK, FilesAreListed
  <2> QED
    BY <2>1, FilesAreCounted
<1>3. /\ request' \in [Requests -> [pool : Pools \cup {NoPool}, stream : Streams \cup {NoStream}]]
      /\ pool' \in [Pools -> PoolState]
      /\ heard' \in [Pools -> Seq(Streams)]
      /\ failed' \in [Pools -> SUBSET Streams]
      /\ \A j \in Pools : Len(pool'[j].lru) <= MaxListed
      /\ SlotsAreListed' /\ FreeAreGone' /\ OldestLeave
      /\ pool'[i].config = {c}
      /\ \A j \in Pools : Held(j)' /\ j # i => pool'[j] = pool[j]
  BY <1>1, NewPoolKeeps DEF Configs
<1>4. left \subseteq files /\ i \notin files
  BY <1>1 DEF Fresh, Held
<1>5. \A j \in left : j # i /\ pool'[j] = pool[j]
  <2> HIDE DEF left
  <2> QED
    BY <1>1, <1>2, <1>3, <1>4 DEF Held
<1>6. OfConfig(c) = {}
  BY DEF MakeFilePool
<1>7. /\ kept \in Seq(FileConfigs) /\ Len(kept) < MaxPools
      /\ OneToOne(kept, left, pool)
  <2>1. CASE full
    <3>1. /\ Tail(fileLru) \in Seq(FileConfigs) /\ Len(Tail(fileLru)) = Len(fileLru) - 1
          /\ Head(fileLru) \in ToSet(fileLru)
          /\ ToSet(Tail(fileLru)) = ToSet(fileLru) \ {Head(fileLru)}
          /\ \A d : OnlyOnce(Tail(fileLru), d)
      BY <1>2, <2>1, TailOfList DEF OneToOne
    <3>2. kept = Tail(fileLru) /\ left = {j \in files : pool[j].config # {Head(fileLru)}}
      BY <2>1 DEF OfConfig
    <3>3. Len(kept) < MaxPools
      BY <1>2, <3>1, <3>2, VadAssumption
    <3> HIDE DEF kept, left
    <3>4. ASSUME NEW j \in left PROVE \E d \in ToSet(kept) : pool[j].config = {d}
      <4>1. PICK d \in ToSet(fileLru) : pool[j].config = {d}
        BY <1>2, <3>2 DEF OneToOne
      <4> QED
        BY <3>1, <3>2, <4>1
    <3>5. ASSUME NEW d \in ToSet(kept) PROVE \E j \in left : pool[j].config = {d}
      <4>1. d \in ToSet(fileLru) /\ d # Head(fileLru)
        BY <3>1, <3>2
      <4>2. PICK j \in files : pool[j].config = {d}
        BY <1>2, <4>1 DEF OneToOne
      <4>3. {d} # {Head(fileLru)}
        BY <4>1
      <4> QED
        BY <3>2, <4>2, <4>3
    <3> QED
      BY <1>2, <3>1, <3>2, <3>3, <3>4, <3>5 DEF OneToOne
  <2>2. CASE ~full
    <3>1. fileLru = <<>> => Len(fileLru) = 0
      OBVIOUS
    <3> QED
      BY <1>2, <2>2, <3>1, VadAssumption
  <2> QED
    BY <2>1, <2>2
<1> HIDE DEF kept, left
<1>8. c \notin ToSet(kept)
  <2> SUFFICES ASSUME c \in ToSet(kept) PROVE FALSE
    OBVIOUS
  <2>1. PICK j \in left : pool[j].config = {c}
    BY <1>7 DEF OneToOne
  <2> QED
    BY <1>4, <1>6, <2>1 DEF OfConfig
<1>9. /\ fileLru' \in Seq(FileConfigs) /\ Len(fileLru') = Len(kept) + 1
      /\ ToSet(fileLru') = ToSet(kept) \cup {c}
      /\ \A d : OnlyOnce(fileLru', d)
  BY <1>1, <1>7, <1>8, AppendedIsLast DEF OneToOne
<1>10. Len(fileLru') <= MaxPools
  BY <1>7, <1>9, VadAssumption
<1>11. OneToOne(fileLru', files', pool')
  <2>1. OneToOne(kept, left, pool')
    BY <1>5, <1>7, SameConfigs
  <2> QED
    BY <1>1, <1>3, <1>8, <1>9, <2>1, OneMoreConfig
<1>12. VadTypeOK'
  BY <1>1, <1>2, <1>3, <1>4, <1>9, <1>10 DEF VadTypeOK
<1> QED
  BY <1>3, <1>11, <1>12 DEF VadInv, FilesAreListed

LEMMA BundledKeeps ==
  ASSUME VadInv, NEW q \in Requests, request[q] = Idle,
         NEW c \in BundledConfigs, NEW s \in Streams \cup {NoStream}, TakeBundledPool(q, c, s)
  PROVE  VadInv' /\ OldestLeave
<1>1. /\ fileLru \in Seq(FileConfigs) /\ Len(fileLru) <= MaxPools
      /\ files \subseteq Pools /\ bundled \in Pools \cup {NoPool}
      /\ OneToOne(fileLru, files, pool) /\ VadTypeOK
  BY DEF VadInv, VadTypeOK, FilesAreListed
<1>2. UNCHANGED <<files, fileLru>>
  BY DEF TakeBundledPool
<1>3. CASE /\ bundled # NoPool
           /\ Take(q, bundled, s)
           /\ UNCHANGED <<bundled, pool, heard, failed>>
  <2>1. bundled \in Pools
    BY <1>1, <1>3
  <2>2. /\ request' \in [Requests -> [pool : Pools \cup {NoPool}, stream : Streams \cup {NoStream}]]
        /\ \A j \in Pools : (\E r \in Requests : request'[r].pool = j)
                                <=> j = bundled \/ \E r \in Requests : request[r].pool = j
    BY <1>1, <1>3, <2>1, Taken
  <2>3. \A j \in Pools : Held(j)' <=> Held(j)
    BY <1>2, <1>3, <2>2 DEF Held
  <2>4. FilesAreListed'
    BY <1>1, <1>2, <1>3 DEF FilesAreListed
  <2> QED
    BY <1>1, <1>2, <1>3, <2>2, <2>3, <2>4, SameOrder
<1>4. ASSUME NEW i \in Pools, Fresh(i), bundled' = i, Take(q, i, s), NewPool(i, c)
      PROVE  VadInv' /\ OldestLeave
  <2>1. /\ request' \in [Requests -> [pool : Pools \cup {NoPool}, stream : Streams \cup {NoStream}]]
        /\ pool' \in [Pools -> PoolState]
        /\ heard' \in [Pools -> Seq(Streams)]
        /\ failed' \in [Pools -> SUBSET Streams]
        /\ \A j \in Pools : Len(pool'[j].lru) <= MaxListed
        /\ SlotsAreListed' /\ FreeAreGone' /\ OldestLeave
        /\ \A j \in Pools : Held(j)' /\ j # i => pool'[j] = pool[j]
    BY <1>4, NewPoolKeeps DEF Configs
  <2>2. \A j \in files : pool'[j] = pool[j]
    BY <1>1, <1>2, <1>4, <2>1 DEF Held, Fresh
  <2>3. OneToOne(fileLru', files', pool')
    BY <1>1, <1>2, <2>2, SameConfigs
  <2>4. VadTypeOK'
    BY <1>1, <1>2, <1>4, <2>1 DEF VadTypeOK
  <2> QED
    BY <2>1, <2>3, <2>4 DEF VadInv, FilesAreListed
<1> QED
  BY <1>3, <1>4 DEF TakeBundledPool

LEMMA LookUpKeeps ==
  ASSUME VadInv, NEW q \in Requests, LookUp(q)
  PROVE  VadInv' /\ OldestLeave
<1>1. PICK ask \in Asks(q) :
         \/ ask[1] \in FileConfigs /\ FindFilePool(q, ask[1], ask[2])
         \/ ask[1] \in FileConfigs /\ MakeFilePool(q, ask[1], ask[2])
         \/ ask[1] \in BundledConfigs /\ TakeBundledPool(q, ask[1], ask[2])
  BY DEF LookUp
<1>2. ask[2] \in Streams \cup {NoStream} /\ request[q] = Idle
  BY VadAssumption DEF LookUp
<1> QED
  BY <1>1, <1>2, FindKeeps, MakeKeeps, BundledKeeps

\* A request gives its pool back, with r in it.
LEMMA GivenBack ==
  ASSUME VadInv, NEW q \in Requests, request[q].pool # NoPool,
         NEW r \in PoolState, NEW h \in Seq(Streams), NEW f \in SUBSET Streams,
         r.config = pool[request[q].pool].config, Len(r.lru) <= MaxListed,
         SlotIsListed(r, h, f),
         LET i == request[q].pool
         IN /\ request' = [request EXCEPT ![q] = Idle]
            /\ UNCHANGED <<bundled, files, fileLru>>
            /\ pool' = Dropped([pool EXCEPT ![i] = r])
            /\ DropGhosts([heard EXCEPT ![i] = h], [failed EXCEPT ![i] = f])
            /\ \A s \in pool[i].streams \ (r.streams \cup f),
                  t \in pool[i].streams \cap r.streams : Before(heard[i], s, t)
  PROVE  VadInv' /\ OldestLeave
<1> DEFINE i == request[q].pool
           p == [pool EXCEPT ![i] = r]
           h1 == [heard EXCEPT ![i] = h]
           fs == [failed EXCEPT ![i] = f]
<1>1. /\ fileLru \in Seq(FileConfigs) /\ Len(fileLru) <= MaxPools
      /\ files \subseteq Pools /\ bundled \in Pools \cup {NoPool}
      /\ OneToOne(fileLru, files, pool)
      /\ pool \in [Pools -> PoolState] /\ heard \in [Pools -> Seq(Streams)]
      /\ failed \in [Pools -> SUBSET Streams]
      /\ \A j \in Pools : Len(pool[j].lru) <= MaxListed /\ SlotIsListed(pool[j], heard[j], failed[j])
      /\ request \in [Requests -> [pool : Pools \cup {NoPool}, stream : Streams \cup {NoStream}]]
  BY DEF VadInv, VadTypeOK, FilesAreListed, SlotsAreListed
<1>2. i \in Pools
  BY <1>1
<1>3. /\ pool' = Dropped(p) /\ DropGhosts(h1, fs)
      /\ request' = [request EXCEPT ![q] = Idle]
      /\ UNCHANGED <<bundled, files, fileLru>>
      /\ \A s \in pool[i].streams \ (r.streams \cup f),
            t \in pool[i].streams \cap r.streams : Before(heard[i], s, t)
      /\ r.config = pool[i].config
  OBVIOUS
<1> HIDE DEF i
<1>4. /\ p \in [Pools -> PoolState] /\ h1 \in [Pools -> Seq(Streams)] /\ fs \in [Pools -> SUBSET Streams]
      /\ p[i] = r /\ h1[i] = h /\ fs[i] = f
      /\ \A j \in Pools : j # i => p[j] = pool[j] /\ h1[j] = heard[j] /\ fs[j] = failed[j]
  BY <1>1, <1>2
<1> HIDE DEF p, h1, fs
<1>5. \A j \in Pools : SlotIsListed(p[j], h1[j], fs[j]) /\ Len(p[j].lru) <= MaxListed
  <2> SUFFICES ASSUME NEW j \in Pools
               PROVE  SlotIsListed(p[j], h1[j], fs[j]) /\ Len(p[j].lru) <= MaxListed
    OBVIOUS
  <2>1. CASE j = i
    BY <1>4, <2>1
  <2>2. CASE j # i
    BY <1>1, <1>4, <2>2
  <2> QED
    BY <2>1, <2>2
<1>6. /\ pool' \in [Pools -> PoolState]
      /\ heard' \in [Pools -> Seq(Streams)]
      /\ failed' \in [Pools -> SUBSET Streams]
      /\ \A j \in Pools : Len(pool'[j].lru) <= MaxListed
      /\ \A j \in Pools : Held(j)' => pool'[j] = p[j] /\ heard'[j] = h1[j] /\ failed'[j] = fs[j]
      /\ SlotsAreListed' /\ FreeAreGone'
  BY <1>3, <1>4, <1>5, DroppedAreGone
<1>7. \A j \in files : pool'[j].config = pool[j].config
  BY <1>1, <1>3, <1>4, <1>6 DEF Held
<1>8. OneToOne(fileLru', files', pool')
  <2>1. OneToOne(fileLru, files, pool')
    BY <1>1, <1>7, SameConfigs
  <2>2. fileLru' = fileLru /\ files' = files
    BY <1>3
  <2> QED
    BY <2>1, <2>2
<1>9. request' \in [Requests -> [pool : Pools \cup {NoPool}, stream : Streams \cup {NoStream}]]
  BY <1>1, <1>3 DEF Idle
<1>10. VadTypeOK'
  BY <1>1, <1>3, <1>6, <1>9 DEF VadTypeOK
<1>11. OldestLeave
  <2> SUFFICES ASSUME NEW j \in Pools, Held(j)',
                      NEW s \in pool[j].streams \ (pool'[j].streams \cup failed'[j]),
                      NEW t \in pool[j].streams \cap pool'[j].streams
               PROVE  Before(heard[j], s, t)
    BY DEF OldestLeave
  <2>1. pool'[j] = p[j] /\ failed'[j] = fs[j]
    BY <1>6
  <2>2. CASE j = i
    BY <1>3, <1>4, <2>1, <2>2
  <2>3. CASE j # i
    BY <1>4, <2>1, <2>3
  <2> QED
    BY <2>2, <2>3
<1> QED
  BY <1>6, <1>8, <1>10, <1>11 DEF VadInv, FilesAreListed

LEMMA LoadFailsKeeps ==
  ASSUME VadInv, NEW q \in Requests, LoadFails(q)
  PROVE  VadInv' /\ OldestLeave
<1> DEFINE i == request[q].pool
<1>1. /\ pool \in [Pools -> PoolState] /\ heard \in [Pools -> Seq(Streams)]
      /\ failed \in [Pools -> SUBSET Streams]
      /\ \A j \in Pools : Len(pool[j].lru) <= MaxListed /\ SlotIsListed(pool[j], heard[j], failed[j])
      /\ request \in [Requests -> [pool : Pools \cup {NoPool}, stream : Streams \cup {NoStream}]]
  BY DEF VadInv, VadTypeOK, SlotsAreListed
<1>2. /\ request[q].pool # NoPool /\ i \in Pools
      /\ request' = [request EXCEPT ![q] = Idle]
      /\ UNCHANGED <<bundled, files, fileLru>>
      /\ pool' = Dropped(pool)
      /\ DropGhosts(heard, failed)
  BY <1>1 DEF LoadFails
<1>3. /\ [pool EXCEPT ![i] = pool[i]] = pool
      /\ [heard EXCEPT ![i] = heard[i]] = heard
      /\ [failed EXCEPT ![i] = failed[i]] = failed
  BY <1>1, <1>2
<1>4. /\ pool[i] \in PoolState /\ heard[i] \in Seq(Streams) /\ failed[i] \in SUBSET Streams
      /\ Len(pool[i].lru) <= MaxListed /\ SlotIsListed(pool[i], heard[i], failed[i])
  BY <1>1, <1>2
<1>5. \A s \in pool[i].streams \ (pool[i].streams \cup failed[i]),
          t \in pool[i].streams \cap pool[i].streams : Before(heard[i], s, t)
  OBVIOUS
<1> QED
  BY <1>2, <1>3, <1>4, <1>5, GivenBack

LEMMA ProcessKeeps ==
  ASSUME VadInv, NEW q \in Requests, Process(q)
  PROVE  VadInv' /\ OldestLeave
<1> DEFINE i == request[q].pool
           s0 == request[q].stream
           p == [pool[i] EXCEPT !.loaded = TRUE]
           w == WithStream(p, s0)
<1>1. /\ pool \in [Pools -> PoolState] /\ heard \in [Pools -> Seq(Streams)]
      /\ failed \in [Pools -> SUBSET Streams]
      /\ \A j \in Pools : Len(pool[j].lru) <= MaxListed /\ SlotIsListed(pool[j], heard[j], failed[j])
      /\ request \in [Requests -> [pool : Pools \cup {NoPool}, stream : Streams \cup {NoStream}]]
  BY DEF VadInv, VadTypeOK, SlotsAreListed
<1>2. /\ request[q].pool # NoPool
      /\ \/ s0 = NoStream /\ Answer(q, p, {})
         \/ s0 # NoStream /\ Len(w.lru) <= MaxListed /\ Answer(q, w, {})
         \/ /\ s0 # NoStream /\ Len(w.lru) <= MaxListed
            /\ Answer(q, [w EXCEPT !.streams = @ \ {s0}], {s0})
  BY DEF Process
<1>3. i \in Pools /\ s0 \in Streams \cup {NoStream}
  BY <1>1, <1>2
<1>4. /\ p \in PoolState /\ p.config = pool[i].config
      /\ p.streams = pool[i].streams /\ p.lru = pool[i].lru
      /\ heard[i] \in Seq(Streams) /\ failed[i] \in SUBSET Streams
      /\ Len(p.lru) <= MaxListed /\ SlotIsListed(p, heard[i], failed[i])
  <2>1. /\ pool[i] \in PoolState /\ heard[i] \in Seq(Streams) /\ failed[i] \in SUBSET Streams
        /\ Len(pool[i].lru) <= MaxListed /\ SlotIsListed(pool[i], heard[i], failed[i])
    BY <1>1, <1>3
  <2>2. /\ p \in PoolState /\ p.config = pool[i].config
        /\ p.streams = pool[i].streams /\ p.lru = pool[i].lru
    BY <2>1 DEF PoolState
  <2> HIDE DEF p, i
  <2> QED
    BY <2>1, <2>2 DEF SlotIsListed
<1> HIDE DEF p
<1>5. ASSUME NEW r, NEW f0, Answer(q, r, f0)
      PROVE  /\ request' = [request EXCEPT ![q] = Idle]
             /\ UNCHANGED <<bundled, files, fileLru>>
             /\ pool' = Dropped([pool EXCEPT ![i] = r])
             /\ s0 = NoStream =>
                  DropGhosts([heard EXCEPT ![i] = heard[i]],
                             [failed EXCEPT ![i] = (failed[i] \cup f0) \cap ToSet(r.lru)])
             /\ s0 # NoStream =>
                  DropGhosts([heard EXCEPT ![i] = Kept(Touched(heard[i], s0), r.streams)],
                             [failed EXCEPT ![i] = (failed[i] \cup f0) \cap ToSet(r.lru)])
  BY <1>5 DEF Answer
<1>6. CASE s0 = NoStream /\ Answer(q, p, {})
  <2> DEFINE f == (failed[i] \cup {}) \cap ToSet(p.lru)
  <2>1. f \in SUBSET Streams /\ f = failed[i] \cap ToSet(p.lru)
    BY <1>4
  <2>2. /\ request' = [request EXCEPT ![q] = Idle]
        /\ UNCHANGED <<bundled, files, fileLru>>
        /\ pool' = Dropped([pool EXCEPT ![i] = p])
        /\ DropGhosts([heard EXCEPT ![i] = heard[i]], [failed EXCEPT ![i] = f])
    BY <1>5, <1>6
  <2> HIDE DEF f
  <2>3. SlotIsListed(p, heard[i], f)
    BY <1>4, <2>1 DEF SlotIsListed
  <2>4. \A s \in pool[i].streams \ (p.streams \cup f),
            t \in pool[i].streams \cap p.streams : Before(heard[i], s, t)
    BY <1>4
  <2> QED
    BY <1>2, <1>4, <2>1, <2>2, <2>3, <2>4, GivenBack
<1>7. ASSUME s0 # NoStream, Len(w.lru) <= MaxListed, NEW r, NEW f0, Answer(q, r, f0),
             \/ r = w /\ f0 = {}
             \/ r = [w EXCEPT !.streams = @ \ {s0}] /\ f0 = {s0}
      PROVE  VadInv' /\ OldestLeave
  <2> DEFINE f == (failed[i] \cup f0) \cap ToSet(r.lru)
             h == Kept(Touched(heard[i], s0), r.streams)
  <2>1. /\ r \in PoolState /\ r.config = p.config
        /\ h \in Seq(Streams)
        /\ SlotIsListed(r, h, f)
        /\ \A s \in p.streams \ (r.streams \cup f),
              t \in p.streams \cap r.streams : Before(heard[i], s, t)
    <3>1. s0 \in Streams
      BY <1>3, <1>7
    <3> HIDE DEF s0, i
    <3>2. /\ p \in PoolState /\ heard[i] \in Seq(Streams) /\ failed[i] \in SUBSET Streams
          /\ SlotIsListed(p, heard[i], failed[i])
      BY <1>4
    <3>3. \/ r = WithStream(p, s0) /\ f0 = {}
          \/ r = [WithStream(p, s0) EXCEPT !.streams = @ \ {s0}] /\ f0 = {s0}
      BY <1>7
    <3> HIDE DEF w
    <3> QED
      BY ONLY <3>1, <3>2, <3>3, SlotStaysListed
  <2>2. Len(r.lru) <= MaxListed
    <3>1. WithStream(p, s0) \in PoolState
      <4>1. s0 \in Streams
        BY <1>3, <1>7
      <4> HIDE DEF s0, i
      <4> QED
        BY <1>4, <4>1, StreamIsListed
    <3> HIDE DEF s0, i
    <3>2. r.lru = w.lru
      <4> HIDE DEF w
      <4>1. w \in PoolState
        BY <3>1 DEF w
      <4> QED
        BY <1>7, <4>1 DEF PoolState
    <3> QED
      BY <1>7, <3>2
  <2>3. f \in SUBSET Streams
    BY <2>1 DEF PoolState, ToSet
  <2>4. /\ request' = [request EXCEPT ![q] = Idle]
        /\ UNCHANGED <<bundled, files, fileLru>>
        /\ pool' = Dropped([pool EXCEPT ![i] = r])
        /\ DropGhosts([heard EXCEPT ![i] = h], [failed EXCEPT ![i] = f])
    BY <1>5, <1>7
  <2> HIDE DEF f, h
  <2> QED
    BY <1>2, <1>4, <2>1, <2>2, <2>3, <2>4, GivenBack
<1> QED
  BY <1>2, <1>6, <1>7

LEMMA VadKeeps ==
  ASSUME VadInv, [VadNext]_vadVars
  PROVE  VadInv' /\ (VadNext => OldestLeave)
<1>1. CASE UNCHANGED vadVars
  <2>1. FilesAreListed'
    BY <1>1 DEF VadInv, FilesAreListed, vadVars
  <2>2. VadTypeOK' /\ SlotsAreListed'
    BY <1>1 DEF VadInv, VadTypeOK, SlotsAreListed, vadVars
  <2>3. FreeAreGone'
    BY <1>1 DEF VadInv, FreeAreGone, Held, vadVars
  <2>4. OldestLeave
    BY <1>1 DEF OldestLeave, vadVars
  <2> QED
    BY <2>1, <2>2, <2>3, <2>4 DEF VadInv
<1>2. ASSUME NEW q \in Requests, LookUp(q) \/ LoadFails(q) \/ Process(q)
      PROVE  VadInv' /\ OldestLeave
  BY <1>2, LookUpKeeps, LoadFailsKeeps, ProcessKeeps
<1> QED
  BY <1>1, <1>2 DEF VadNext

LEMMA CachesAlways == VadSpec => []VadInv
  BY InitVad, VadKeeps, PTL DEF VadSpec

LEMMA InvListsCaches == VadInv => CachesAreListed
<1> SUFFICES ASSUME VadInv PROVE CachesAreListed
  OBVIOUS
<1>1. /\ fileLru \in Seq(FileConfigs) /\ Len(fileLru) <= MaxPools
      /\ OneToOne(fileLru, files, pool)
  BY DEF VadInv, VadTypeOK, FilesAreListed
<1>2. Cardinality(files) = Len(fileLru)
  BY <1>1, FilesAreCounted
<1>3. IsInjective(fileLru)
  BY <1>1 DEF OneToOne, OnlyOnce, IsInjective
<1>4. {pool[i].config : i \in files} = {{c} : c \in ToSet(fileLru)}
  <2>1. \A i \in files : pool[i].config \in {{c} : c \in ToSet(fileLru)}
    BY <1>1 DEF OneToOne
  <2>2. \A c \in ToSet(fileLru) : {c} \in {pool[i].config : i \in files}
    BY <1>1 DEF OneToOne
  <2> QED
    BY <2>1, <2>2
<1>5. \A i \in Pools : /\ Cardinality(pool[i].streams) <= MaxStreams
                       /\ pool[i].streams \subseteq ToSet(pool[i].lru)
  BY DEF VadInv, SlotsAreListed, SlotIsListed
<1> QED
  BY <1>1, <1>2, <1>3, <1>4, <1>5 DEF CachesAreListed

\* For any limits, configurations and streams, and any number of requests: the
\* pools of model files and a slot's streams stay within their bounds, and each
\* is found in its list when room has to be made (SileroSessionCache::pool,
\* ensure_stream_state).
THEOREM CachesStay == VadSpec => []CachesAreListed
  BY CachesAlways, InvListsCaches, PTL

\* Whatever requests hold a pool meanwhile and however many have failed: a
\* stream that a slot forgets, and has not failed to process, was heard before
\* all that it goes on to remember (ensure_stream_state, touch_stream_key).
THEOREM OldestLeaves == VadSpec => StreamsLeaveOldestFirst
<1>1. VadInv /\ [VadNext]_vadVars
      => [\A i \in Pools : Held(i)' =>
            \A s \in pool[i].streams \ (pool'[i].streams \cup failed'[i]) :
                \A t \in pool[i].streams \cap pool'[i].streams : Before(heard[i], s, t)]_vadVars
  BY VadKeeps DEF OldestLeave
<1> QED
  BY <1>1, CachesAlways, PTL DEF VadSpec, StreamsLeaveOldestFirst

-----------------------------------------------------------------------------
(***************************************************************************)
(* The composition: what the parts promise alone they promise beside one   *)
(* another, in whichever part a behaviour goes on.                         *)
(***************************************************************************)
\* A behaviour of the composition is one of each of its parts.
THEOREM EdgesAreTheirParts == Spec => SupervisorsSpec /\ TurnsSpec /\ VadSpec
<1>1. Init => SupervisorsInit /\ TurnsInit /\ VadInit
  BY DEF Init
<1>2. [Next]_vars => /\ [SupervisorsNext]_supervisorVars
                     /\ [TurnsNext]_turnVars
                     /\ [VadNext]_vadVars
  BY DEF Next, vars
<1> QED
  BY <1>1, <1>2, PTL DEF Spec, SupervisorsSpec, TurnsSpec, VadSpec

LEMMA TurnsTypes == TurnsSpec => []TurnsTypeOK
<1>1. TurnsInv => TurnsTypeOK
  BY DEF TurnsInv
<1> QED
  BY <1>1, TurnsAlways, PTL

LEMMA VadTypes == VadSpec => []VadTypeOK
<1>1. VadInv => VadTypeOK
  BY DEF VadInv
<1> QED
  BY <1>1, CachesAlways, PTL

\* Supervisors, turns and caches keep their types together.
THEOREM EdgesTypes == Spec => []TypeOK
<1>1. SupervisorsTypeOK /\ TurnsTypeOK /\ VadTypeOK => TypeOK
  BY DEF TypeOK
<1> QED
  BY <1>1, EdgesAreTheirParts, SupervisorTypes, TurnsTypes, VadTypes, PTL
=============================================================================
