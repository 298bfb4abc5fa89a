-------------------------- MODULE ProcessSupervisors --------------------------
(***************************************************************************)
(* The three supervisors of the API: of the worker scheduler, of the voice *)
(* agent and of the local LiveKit server.  Each owns at most one child     *)
(* process and serves its requests under a lock that it keeps while it     *)
(* waits for the child.  The children are processes of their own: they     *)
(* exit when they like, may not heed a termination, and outlive the API.   *)
(***************************************************************************)
EXTENDS Integers, FiniteSets

CONSTANTS Supervisors,
          StoppedAtShutdown, \* the ones that the end of the API's life stops
          Settings,          \* what a start asks the child to do
          Children,          \* process ids
          NoChild,
          MaxLives           \* lives of the API

ASSUME SupervisorAssumption ==
    /\ StoppedAtShutdown \subseteq Supervisors
    /\ NoChild \notin Children
    /\ MaxLives \in Nat \ {0}

VARIABLES status,  \* what the supervisor says of its child
          handle,  \* the child the supervisor holds, or NoChild
          reaped,  \* the handles whose return code is known
          shown,   \* the settings the supervisor shows
          job,     \* what the holder of the lock is doing, and for which start
          child,   \* child[p]: its supervisor, life, settings and state
          spared,  \* the supervisors that failed to kill a child
          api,     \* the process of the API
          ending,  \* the supervisors that the end of this life has yet to stop
          life,    \* how often the API has been started
          crashed  \* whether it has ever crashed

supervisorVars ==
    <<status, handle, reaped, shown, job, child, spared, api, ending, life, crashed>>

Free == [at |-> "free", settings |-> {}]

JobState == [at : {"free", "wait", "killed", "spawn"}, settings : SUBSET Settings]

Unused == [state |-> "unused", of |-> {}, life |-> 0, settings |-> {}]

ChildState ==
    [state : {"unused", "alive", "ended", "broken"}, of : SUBSET Supervisors,
     life : 0..MaxLives, settings : SUBSET Settings]

SupervisorsTypeOK ==
    /\ status \in [Supervisors -> {"stopped", "starting", "running", "exited", "failed"}]
    /\ handle \in [Supervisors -> Children \cup {NoChild}]
    /\ reaped \subseteq Children
    /\ shown \in [Supervisors -> SUBSET Settings]
    /\ job \in [Supervisors -> JobState]
    /\ child \in [Children -> ChildState]
    /\ spared \subseteq Supervisors
    /\ api \in {"up", "stopping", "down"}
    /\ ending \subseteq StoppedAtShutdown
    /\ life \in 1..MaxLives
    /\ crashed \in BOOLEAN

SupervisorsInit ==
    /\ status = [s \in Supervisors |-> "stopped"]
    /\ handle = [s \in Supervisors |-> NoChild]
    /\ reaped = {}
    /\ shown = [s \in Supervisors |-> {}]
    /\ job = [s \in Supervisors |-> Free]
    /\ child = [p \in Children |-> Unused]
    /\ spared = {}
    /\ api = "up"
    /\ ending = {}
    /\ life = 1
    /\ crashed = FALSE

-----------------------------------------------------------------------------
Alive(p) == child[p].state = "alive"

\* process is not None and process.returncode is None
Running(s) == handle[s] # NoChild /\ handle[s] \notin reaped

Outcome(p) == IF child[p].state = "ended" THEN "exited" ELSE "failed"

\* _refresh_completed_process_locked
Refreshed(s) ==
    IF handle[s] = NoChild THEN status[s]
    ELSE IF handle[s] \in reaped THEN Outcome(handle[s])
    ELSE "running"

Note(s, st) == status' = [status EXCEPT ![s] = st]

Hold(s, at, new) == job' = [job EXCEPT ![s] = [at |-> at, settings |-> new]]

Release(s) == job' = [job EXCEPT ![s] = Free]

Serves(s) == api = "up" /\ job[s] = Free

Status(s) ==
    /\ Serves(s)
    /\ Note(s, Refreshed(s))
    /\ UNCHANGED <<handle, reaped, shown, job, child, spared, api, ending, life, crashed>>

\* The settings are shown from here on: nothing is left to stop the start.
Prepare(s, new) ==
    /\ shown' = [shown EXCEPT ![s] = new]
    /\ Note(s, "starting")
    /\ Hold(s, "spawn", new)

\* Faulty variant of Start: the settings are taken over before the old child
\* has been stopped.
StartShowingEarly(s) ==
    /\ Serves(s)
    /\ \E new \in Settings, force \in BOOLEAN :
         \/ /\ Running(s) /\ ~force
            /\ Note(s, "running")
            /\ UNCHANGED <<shown, job>>
         \/ /\ Running(s) /\ force
            /\ Note(s, "running")
            /\ Hold(s, "wait", {new})
            /\ shown' = [shown EXCEPT ![s] = {new}]
         \/ ~Running(s) /\ Prepare(s, {new})
    /\ UNCHANGED <<handle, reaped, child, spared, api, ending, life, crashed>>

\* A child that runs is left alone unless a restart is forced.
Start(s) ==
    /\ Serves(s)
    /\ \E new \in Settings, force \in BOOLEAN :
         \/ /\ Running(s) /\ ~force
            /\ Note(s, "running")
            /\ UNCHANGED <<shown, job>>
         \/ /\ Running(s) /\ force
            /\ Note(s, "running")
            /\ Hold(s, "wait", {new})
            /\ UNCHANGED shown
         \/ ~Running(s) /\ Prepare(s, {new})
    /\ UNCHANGED <<handle, reaped, child, spared, api, ending, life, crashed>>

\* create_subprocess_exec
Spawn(s) ==
    /\ api # "down"
    /\ job[s].at = "spawn"
    /\ \E p \in Children :
         /\ child[p] = Unused
         /\ child' = [child EXCEPT ![p] = [state |-> "alive", of |-> {s}, life |-> life,
                                           settings |-> job[s].settings]]
         /\ handle' = [handle EXCEPT ![s] = p]
    /\ Note(s, "running")
    /\ Release(s)
    /\ UNCHANGED <<reaped, shown, spared, api, ending, life, crashed>>

SpawnFails(s) ==
    /\ api # "down"
    /\ job[s].at = "spawn"
    /\ handle' = [handle EXCEPT ![s] = NoChild]
    /\ Note(s, "failed")
    /\ Release(s)
    /\ UNCHANGED <<reaped, shown, child, spared, api, ending, life, crashed>>

\* _terminate_locked, up to its first wait.
Terminate(s) ==
    \/ /\ handle[s] = NoChild
       /\ Note(s, "stopped")
       /\ UNCHANGED <<handle, job>>
    \/ /\ handle[s] \in reaped
       /\ Note(s, Outcome(handle[s]))
       /\ handle' = [handle EXCEPT ![s] = NoChild]
       /\ UNCHANGED job
    \/ /\ Running(s)
       /\ Hold(s, "wait", {})
       /\ UNCHANGED <<status, handle>>

Stop(s) ==
    /\ Serves(s)
    /\ Terminate(s)
    /\ UNCHANGED <<reaped, shown, child, spared, api, ending, life, crashed>>

\* The child has ended: the stop is done, or the start goes on.
Ended(s) ==
    /\ api # "down"
    /\ job[s].at \in {"wait", "killed"}
    /\ handle[s] \in reaped
    /\ handle' = [handle EXCEPT ![s] = NoChild]
    /\ IF job[s].settings = {}
       THEN Note(s, "stopped") /\ Release(s) /\ UNCHANGED shown
       ELSE Prepare(s, job[s].settings)
    /\ UNCHANGED <<reaped, child, spared, api, ending, life, crashed>>

\* Faulty variant of Kill: the child is given all the time it wants.
WaitOn(s) ==
    /\ job[s].at = "wait"
    /\ Running(s)
    /\ UNCHANGED supervisorVars

\* Five seconds have passed.  After the kill the child is awaited without a
\* time limit.
Kill(s) ==
    /\ api # "down"
    /\ job[s].at = "wait"
    /\ Running(s)
    /\ Hold(s, "killed", job[s].settings)
    /\ UNCHANGED <<status, handle, reaped, shown, child, spared, api, ending, life, crashed>>

\* Faulty variant of KillFails: what could not be killed is forgotten.
ForgetChild(s) ==
    /\ api # "down"
    /\ job[s].at = "wait"
    /\ Running(s)
    /\ handle' = [handle EXCEPT ![s] = NoChild]
    /\ Note(s, "stopped")
    /\ Release(s)
    /\ spared' = spared \cup {s}
    /\ UNCHANGED <<reaped, shown, child, api, ending, life, crashed>>

\* The kill is refused.  The supervisor keeps the child, and a start that
\* waited for its end is given up.
KillFails(s) ==
    /\ api # "down"
    /\ job[s].at = "wait"
    /\ Running(s)
    /\ Note(s, "running")
    /\ Release(s)
    /\ spared' = spared \cup {s}
    /\ UNCHANGED <<handle, reaped, shown, child, api, ending, life, crashed>>

ChildEnds(p) ==
    /\ Alive(p)
    /\ \E st \in {"ended", "broken"} : child' = [child EXCEPT ![p].state = st]
    /\ UNCHANGED <<status, handle, reaped, shown, job, spared, api, ending, life, crashed>>

\* The event loop learns the return code of a child.
Reap(s) ==
    /\ api # "down"
    /\ Running(s)
    /\ ~Alive(handle[s])
    /\ reaped' = reaped \cup {handle[s]}
    /\ UNCHANGED <<status, handle, shown, job, child, spared, api, ending, life, crashed>>

-----------------------------------------------------------------------------
\* Faulty variant of ShutDown: the API ends without stopping a supervisor.
ShutDownAtOnce ==
    /\ api = "up"
    /\ api' = "stopping"
    /\ UNCHANGED <<status, handle, reaped, shown, job, child, spared, ending, life, crashed>>

\* lifespan, after its yield.
ShutDown ==
    /\ api = "up"
    /\ api' = "stopping"
    /\ ending' = StoppedAtShutdown
    /\ UNCHANGED <<status, handle, reaped, shown, job, child, spared, life, crashed>>

\* One call of stop for each, which waits for the lock like any other.
StopAtShutdown(s) ==
    /\ s \in ending
    /\ job[s] = Free
    /\ Terminate(s)
    /\ ending' = ending \ {s}
    /\ UNCHANGED <<reaped, shown, child, spared, api, life, crashed>>

\* The supervisors go with the process of the API, their children do not.
Forget ==
    /\ api' = "down"
    /\ status' = [s \in Supervisors |-> "stopped"]
    /\ handle' = [s \in Supervisors |-> NoChild]
    /\ shown' = [s \in Supervisors |-> {}]
    /\ job' = [s \in Supervisors |-> Free]
    /\ ending' = {}
    /\ UNCHANGED <<reaped, child, spared, life>>

\* A child that could not be killed does not hold up the end.
Exit ==
    /\ api = "stopping"
    /\ ending = {}
    /\ \A s \in Supervisors : job[s] = Free
    /\ Forget
    /\ UNCHANGED crashed

Crash ==
    /\ api # "down"
    /\ Forget
    /\ crashed' = TRUE

Boot ==
    /\ api = "down"
    /\ life < MaxLives
    /\ api' = "up"
    /\ life' = life + 1
    /\ UNCHANGED <<status, handle, reaped, shown, job, child, spared, ending, crashed>>

WorkUnderLock(s) ==
    Spawn(s) \/ SpawnFails(s) \/ Ended(s) \/ Kill(s) \/ KillFails(s)

SupervisorsNext ==
    \/ \E s \in Supervisors :
         Status(s) \/ Start(s) \/ Stop(s) \/ WorkUnderLock(s) \/ Reap(s) \/ StopAtShutdown(s)
    \/ \E p \in Children : ChildEnds(p)
    \/ ShutDown \/ Exit \/ Crash \/ Boot

SupervisorsSpec == SupervisorsInit /\ [][SupervisorsNext]_supervisorVars

\* The waits under the lock have a limit, and a child that was killed ends.
SupervisorsFairness ==
    \A s \in Supervisors :
        /\ WF_supervisorVars(Spawn(s) \/ SpawnFails(s))
        /\ WF_supervisorVars(Ended(s))
        /\ WF_supervisorVars(Kill(s))
        /\ WF_supervisorVars(Reap(s))
        /\ WF_supervisorVars(job[s].at = "killed" /\ Alive(handle[s]) /\ ChildEnds(handle[s]))

-----------------------------------------------------------------------------
ChildrenOf(s) == {p \in Children : Alive(p) /\ child[p].of = {s}}

\* In one life of the API a supervisor never has two children at work, with
\* restarts that are forced while the old child does not want to end, starts
\* that fail and kills that are refused (start, _terminate_locked).
OneChildPerLife ==
    \A s \in Supervisors : Cardinality({p \in ChildrenOf(s) : child[p].life = life}) <= 1

\* What a supervisor shows is what its child was started with, and it says
\* that nothing runs only when nothing does
\* (_snapshot_locked, _refresh_completed_process_locked).
ShownIsTrue ==
    \A s \in Supervisors : job[s] = Free /\ api = "up" =>
        /\ Running(s) => shown[s] = child[handle[s]].settings
        /\ status[s] # "running" => {p \in ChildrenOf(s) : child[p].life = life} = {}

\* The voice agent and LiveKit never have two children at work, over all the
\* lives of an API that does not crash, unless a kill was refused: the end of
\* a life stops them, start of a child under way or not (lifespan).
OneChildForGood ==
    \A s \in StoppedAtShutdown \ spared : ~crashed => Cardinality(ChildrenOf(s)) <= 1

\* A request that took the lock of a supervisor gives it back
\* (_terminate_locked: a child that ignores the termination is killed).
LocksAreReleased ==
    \A s \in Supervisors : job[s].at # "free" ~> job[s].at = "free"
=============================================================================
