------------------------------ MODULE A2AStudio ------------------------------
(***************************************************************************)
(* The task ledger, the workers that drain it, and the A2A endpoints of    *)
(* app.py through which people and other services change it.  A call of an *)
(* endpoint is held by a caller; a handler that reads, then writes, then   *)
(* sets the run's status takes a step for each.                            *)
(***************************************************************************)
EXTENDS AgentWorker

CONSTANTS Callers,   \* concurrent calls of the endpoints
          Endpoints, \* the endpoints in use, a subset of AllEndpoints
          Gated,     \* tasks sent with requires_human_feedback
          Timely     \* does every live worker finish within stale_task_after?

AllEndpoints == {"send", "resend", "status", "retry", "repair"}

ASSUME StudioAssumption ==
    /\ Endpoints \subseteq AllEndpoints
    /\ Gated \subseteq Task
    /\ Timely \in BOOLEAN

VARIABLE caller

vars == <<ledger, aged, runStatus, worker, caller>>

NoCall == [pc |-> "idle", job |-> NoTask, deps |-> {}]

CallState ==
    {NoCall} \cup
    [pc   : {"gate", "retry", "repair", "write", "resume"},
     job  : Task,
     deps : SUBSET Task]    \* repair: ids to remove, then ids that remain

TypeOK ==
    /\ LedgerTypeOK
    /\ WorkerTypeOK
    /\ caller \in [Callers -> CallState]

Init ==
    /\ LedgerInit
    /\ WorkerInit
    /\ caller = [c \in Callers |-> NoCall]

-----------------------------------------------------------------------------
Idle(c, e) == caller[c] = NoCall /\ e \in Endpoints

Serving(c, label) == caller[c].pc = label

Continue(c, label, t, ids) ==
    caller' = [caller EXCEPT ![c] = [pc |-> label, job |-> t, deps |-> ids]]

EndCall(c) == caller' = [caller EXCEPT ![c] = NoCall]

\* send_agent_message: the body is upserted whether or not the id is known.
Send(c, t) ==
    /\ \/ Status(t) = "absent" /\ Idle(c, "send")
       \/ Status(t) # "absent" /\ Idle(c, "resend")
    /\ RecordAgentMessage(t, NewMessage(t))
    /\ IF t \in Gated THEN Continue(c, "gate", t, {}) ELSE UNCHANGED caller
    /\ UNCHANGED <<runStatus, worker>>

\* The second write of a gated send, and of a status update that stops a task.
OpenGate(c) ==
    /\ Serving(c, "gate")
    /\ runStatus' = "waiting_for_human"
    /\ EndCall(c)
    /\ UNCHANGED <<ledger, aged, worker>>

\* update_agent_message_status: sender, recipient or claimant sets any status.
\* One step with the read before it: every claimant is the recipient or the
\* sender, so who may write does not depend on when the row is read.
PostStatus(c, t, s, a) ==
    /\ Idle(c, "status")
    /\ Status(t) # "absent"
    /\ a \in {Sender[t], Recipient[t], ledger[t].claimedBy} \ {NoAgent}
    /\ UpdateAgentMessageStatus(t, s, a)
    /\ IF s \in {"waiting_for_human", "blocked"}
         THEN Continue(c, "gate", t, {}) ELSE UNCHANGED caller
    /\ UNCHANGED <<runStatus, worker>>

\* authorize_agent_message_retry checks the status it read ...
CheckRetry(c, t) ==
    /\ Idle(c, "retry")
    /\ Status(t) \in Retriable
    /\ Continue(c, "retry", t, {})
    /\ UNCHANGED <<ledgerVars, worker>>

\* ... and writes without looking again.  The request may reset the attempt
\* count and may set max_attempts.
ApplyRetry(c) ==
    LET t == caller[c].job IN
    /\ Serving(c, "retry")
    /\ \E reset \in BOOLEAN, max \in 1 .. MaxAttempts :
         AuthorizeAgentMessageRetry(t, reset, max)
    /\ Continue(c, "resume", t, {})
    /\ UNCHANGED <<runStatus, worker>>

\* Retry and repair end by putting the run back to RUNNING.
ResumeRun(c) ==
    /\ Serving(c, "resume")
    /\ runStatus' = "running"
    /\ EndCall(c)
    /\ UNCHANGED <<ledger, aged, worker>>

\* repair_agent_message_dependencies refuses ids the task does not carry.
CheckRepair(c, t, ids) ==
    /\ Idle(c, "repair")
    /\ ids \cap ledger[t].deps # {}
    /\ Continue(c, "repair", t, ids)
    /\ UNCHANGED <<ledgerVars, worker>>

\* The store reads the row again and computes what remains in Python ...
ReadRepair(c) ==
    LET t == caller[c].job IN
    /\ Serving(c, "repair")
    /\ IF caller[c].deps \cap ledger[t].deps = {}
         THEN Continue(c, "resume", t, {})
         ELSE Continue(c, "write", t, ledger[t].deps \ caller[c].deps)
    /\ UNCHANGED <<ledgerVars, worker>>

\* ... and a second statement writes it.
WriteRepair(c) ==
    /\ Serving(c, "write")
    /\ WriteRemainingDependencies(caller[c].job, caller[c].deps)
    /\ Continue(c, "resume", caller[c].job, {})
    /\ UNCHANGED <<runStatus, worker>>

\* The API process dies between two writes of a handler.
DropCall(c) ==
    /\ caller[c] # NoCall
    /\ EndCall(c)
    /\ UNCHANGED <<ledgerVars, worker>>

-----------------------------------------------------------------------------
\* Timely: no task grows stale under a worker that still runs it.
Age(t) ==
    /\ Timely => \A w \in Workers : ~Holds(w, t)
    /\ GrowStale(t)
    /\ UNCHANGED <<worker, caller>>

WorkerNext ==
    \E w \in Workers :
        /\ \/ \E ids \in Targets, recover \in RecoverStaleTasks :
                StartPass(w, ids, recover)
           \/ WorkerStep(w)
           \/ Crash(w)
        /\ UNCHANGED caller

CallStep(c) ==
    OpenGate(c) \/ ApplyRetry(c) \/ ResumeRun(c) \/ ReadRepair(c) \/ WriteRepair(c)

CallerNext ==
    \E c \in Callers :
        \/ \E t \in Task : Send(c, t)
        \/ \E t \in Task, s \in TaskStatus \ {"absent"}, a \in Agents : PostStatus(c, t, s, a)
        \/ \E t \in Task : CheckRetry(c, t)
        \/ \E t \in Task, ids \in SUBSET Task : CheckRepair(c, t, ids)
        \/ CallStep(c)
        \/ DropCall(c)

Next ==
    \/ WorkerNext
    \/ CallerNext
    \/ \E t \in Task : Age(t)

Spec == Init /\ [][Next]_vars

(***************************************************************************)
(* Fairness.  The scheduler and the --watch loops of the CLI start passes  *)
(* for ever, a started pass goes on, time goes by, and a handler that has  *)
(* begun ends.  Processes stop dying at some point, and clients stop       *)
(* sending a message again that was recorded.                              *)
(***************************************************************************)
NoMoreResends ==
    <>[][\A c \in Callers, t \in Task : Status(t) # "absent" => ~Send(c, t)]_vars

NoMoreCrashes ==
    /\ <>[][\A w \in Workers : Crash(w) => WorkerStep(w)]_vars
    /\ <>[][\A c \in Callers : DropCall(c) => CallStep(c)]_vars

Fairness ==
    /\ \A w \in Workers :
         /\ WF_vars(StartPass(w, {}, TRUE) /\ UNCHANGED caller)
         /\ WF_vars(WorkerStep(w) /\ UNCHANGED caller)
    /\ \A t \in Task : WF_vars(Age(t))
    /\ \A c \in Callers : WF_vars(CallStep(c))
    /\ NoMoreCrashes
    /\ NoMoreResends

FairSpec == Spec /\ Fairness

-----------------------------------------------------------------------------
(* Deployments in which the statements of the store are enough *)

OneWorkerPerAgent ==
    \A v, w \in Workers : WorkerAgent[v] = WorkerAgent[w] => v = w

NoDependencies == \A t \in Task : InitialDeps[t] = {}

\* No endpoint forces a status, no id is sent twice, and an agent has one worker:
\* recovery and the write-back of a waiting row then never meet a task that is
\* being run, however slowly.  Several workers of an agent have to be on time,
\* and nothing may be found waiting.
Orderly ==
    /\ Endpoints \subseteq {"send", "retry", "repair"}
    /\ OneWorkerPerAgent \/ (Timely /\ NoDependencies)

\* No two calls are between the read and the write of the same task.
Overlapping(c, d, label) ==
    c # d /\ Serving(c, label) /\ Serving(d, label) /\ caller[c].job = caller[d].job

RetriesDoNotOverlap == \A c, d \in Callers : ~Overlapping(c, d, "retry")

RepairsDoNotOverlap == \A c, d \in Callers : ~Overlapping(c, d, "write")

-----------------------------------------------------------------------------
(* Properties *)

\* No two worker processes run the same task at once: the atomic claim,
\* recovery, exhaustion blocking, retry and the write-back of waiting rows
\* never hand a task out a second time while its first worker is alive.
SingleExecutor ==
    \A t \in Task : \A v, w \in Workers : Holds(v, t) /\ Holds(w, t) => v = w

\* While a worker runs a task the ledger says so: the row is claimed or in
\* progress in the name of the worker's agent, whatever was recovered,
\* retried, repaired or written back in the meantime.
LedgerAgreesWithWorker ==
    \A w \in Workers, t \in Task :
        Holds(w, t) => /\ Status(t) \in StaleRecoverable
                       /\ ledger[t].claimedBy = WorkerAgent[w]

\* A task runs only on finished upstream work, and that work stays finished
\* for as long as the task runs, though the ledger checked it only once, in
\* the claim.
UpstreamStaysDone ==
    \A w \in Workers, t \in Task :
        Holds(w, t) => \A d \in ledger[t].deps : Status(d) = "completed"

\* Even when slow workers lose their tasks to recovery, the live workers on
\* one task never outnumber the attempts the ledger has counted for it, so
\* max_attempts bounds the overlap.
OverlapWithinAttempts ==
    \A t \in Task :
        Cardinality({w \in Workers : Holds(w, t)}) <= ledger[t].attempts

\* A completed task is never re-opened or overwritten.
CompletedIsFinal ==
    [][\A t \in Task : Status(t) = "completed" => Status(t)' = "completed"]_vars

\* attempt_count goes down only where a retry was authorised.
AttemptsNeverRollBack ==
    [][\A t \in Task :
         ledger'[t].attempts < ledger[t].attempts =>
             \E c \in Callers : Serving(c, "retry") /\ caller[c].job = t]_vars

\* A retry is for blocked, failed and canceled tasks: when it is written it may
\* find the task accepted again, by another retry, but never in the hands of a
\* worker or completed.
RetryOpensStoppedTasks ==
    [][\A c \in Callers :
         ApplyRetry(c) => Status(caller[c].job) \in Retriable \cup {"accepted"}]_vars

\* A task that was blocked, failed or canceled is re-opened by nothing but a
\* retry: no write-back of a row listed while it was still open, no sweep,
\* late finish or repair sets it going again.
OnlyRetriesReopen ==
    [][\A t \in Task :
         Status(t) \in Retriable /\ Status(t)' \notin Retriable =>
             \E c \in Callers : Serving(c, "retry") /\ caller[c].job = t]_vars

(***************************************************************************)
(* Why SingleExecutor and LedgerAgreesWithWorker hold in an orderly        *)
(* deployment.  Busy extends Holds to the window between the COMPLETED     *)
(* write and its event.  The conjuncts are inductive together.             *)
(***************************************************************************)
Busy(w, t) == worker[w].job = t /\ worker[w].pc \in {"claimed", "executing", "closing"}

\* A held row is marked as such and nobody else may give it up as stale: only
\* the workers of its recipient do.
HeldRowsAreMarked ==
    \A w \in Workers, t \in Task :
        Holds(w, t) => /\ Status(t) \in StaleRecoverable
                       /\ ledger[t].claimedBy = WorkerAgent[w]
                       /\ Recipient[t] = WorkerAgent[w]
                       /\ OneWorkerPerAgent \/ ~aged[t]

ClosingRowsAreCompleted ==
    \A w \in Workers, t \in Task :
        Busy(w, t) /\ At(w, "closing") => Status(t) = "completed"

BusyAlone ==
    \A t \in Task : \A v, w \in Workers : Busy(v, t) /\ Busy(w, t) => v = w

BusyWorkersHaveJobs ==
    \A w \in Workers :
        worker[w].pc \in {"claimed", "executing", "closing"} => worker[w].job \in Task

\* A retry that has passed its check finds the task as the check left it.
RetriesAreCurrent ==
    \A c \in Callers : Serving(c, "retry") => Status(caller[c].job) \in Retriable

\* The agent's only worker finds its listed messages still accepted ...
ListedRowsAreAccepted ==
    OneWorkerPerAgent =>
        \A w \in Workers : \A t \in worker[w].inbox :
            Status(t) = "accepted" /\ Recipient[t] = WorkerAgent[w]

\* ... and lists nothing before it has swept the inbox.
SweepsListNothing ==
    \A w \in Workers :
        worker[w].pc \in {"idle", "recover", "block", "escalate", "list"} =>
            worker[w].inbox = {}

\* Without dependencies no message is ever found waiting.
NothingWaits ==
    NoDependencies =>
        /\ \A t \in Task : ledger[t].deps = {}
        /\ \A w \in Workers : worker[w].waiting = {}
        /\ \A w \in Workers, t \in Task : worker[w].copy[t].deps = {}
        /\ \A c \in Callers : Serving(c, "write") => caller[c].deps = {}

WaitingRowsAreListed == \A w \in Workers : worker[w].waiting \subseteq worker[w].inbox

OrderlyInv ==
    /\ TypeOK
    /\ HeldRowsAreMarked
    /\ ClosingRowsAreCompleted
    /\ BusyAlone
    /\ BusyWorkersHaveJobs
    /\ RetriesAreCurrent
    /\ ListedRowsAreAccepted
    /\ SweepsListNothing
    /\ NothingWaits
    /\ WaitingRowsAreListed

Settled(t) == Status(t) \in {"completed", "failed", "blocked"}

Ready(t) == Status(t) = "accepted" /\ \A d \in ledger[t].deps : Status(d) = "completed"

\* Every accepted task whose upstream work is complete is run to an end or
\* blocked, although workers crash, waiting tasks stand before it in the
\* inbox and other workers race for it; unless a message sent again re-opens
\* the upstream work.
ReadyTasksSettle ==
    \A t \in Task :
        Ready(t) ~> Settled(t) \/ \E d \in ledger[t].deps : Status(d) # "completed"

\* No task stays claimed or in progress for ever: a worker ends it, or it is
\* recovered from the worker that died.
ClaimsAreReleased ==
    \A t \in Task :
        Status(t) \in StaleRecoverable ~> Status(t) \notin StaleRecoverable
=============================================================================
