----------------------------- MODULE AgentWorker -----------------------------
(***************************************************************************)
(* AgentWorker.run of orchestration/agent_worker.py: one pass of a worker  *)
(* process over the inbox of its agent.  Each await of the store is a step *)
(* of its own, because other workers, the API and a crash run in between.  *)
(* A worker keeps between those steps what the coroutine keeps in locals:  *)
(* the rows it listed, the ones its snapshot found waiting, and its task.  *)
(*                                                                         *)
(* Several workers may serve one agent: claimed_by_agent_id names the      *)
(* agent, not the process.                                                 *)
(***************************************************************************)
EXTENDS TaskLedger

CONSTANTS Workers,           \* worker passes that may run at the same time
          WorkerAgent,       \* the agent each one runs for
          Targets,           \* the sets of message_ids a request may name
          RecoverStaleTasks, \* the values of recover_stale_tasks in requests
          EventFailures      \* may append_event fail after the COMPLETED write?

ASSUME WorkerAssumption ==
    /\ WorkerAgent \in [Workers -> Agents]
    /\ Targets \subseteq SUBSET Task
    /\ {} \in Targets
    /\ RecoverStaleTasks \subseteq BOOLEAN
    /\ RecoverStaleTasks # {}
    /\ EventFailures \in BOOLEAN

VARIABLE worker

NoTask == 0

PC == {"idle", "target", "recover", "block", "escalate", "list", "snapshot",
       "next", "claimed", "executing", "closing"}

WorkerState ==
    [pc       : PC,
     targeted : BOOLEAN,          \* the request named message_ids
     unread   : SUBSET Task,      \* named messages not looked up yet
     inbox    : SUBSET Task,      \* messages listed and not handled yet
     copy     : [Task -> Row],    \* their rows as they were listed
     waiting  : SUBSET Task,      \* those the snapshot found waiting
     job      : Task \cup {NoTask}]

IdleWorker ==
    [pc |-> "idle", targeted |-> FALSE, unread |-> {}, inbox |-> {},
     copy |-> [t \in Task |-> NoRow], waiting |-> {}, job |-> NoTask]

WorkerTypeOK == worker \in [Workers -> WorkerState]

WorkerInit == worker = [w \in Workers |-> IdleWorker]

At(w, label) == worker[w].pc = label

Become(w, state) == worker' = [worker EXCEPT ![w] = state]

Goto(w, label) == Become(w, [worker[w] EXCEPT !.pc = label])

EndRun(w) == Become(w, IdleWorker)

\* The claimed task a live worker is working on.
Holds(w, t) == worker[w].job = t /\ worker[w].pc \in {"claimed", "executing"}

-----------------------------------------------------------------------------
StartPass(w, ids, recover) ==
    /\ At(w, "idle")
    /\ Become(w, [worker[w] EXCEPT
         !.targeted = ids # {},
         !.unread = ids,
         !.pc = IF ids # {} THEN "target"
                ELSE IF recover THEN "recover" ELSE "block"])
    /\ UNCHANGED ledgerVars

\* _targeted_accepted_messages reads the named messages one at a time.
ReadTarget(w, t) ==
    /\ At(w, "target")
    /\ t \in worker[w].unread
    /\ IF t \in AcceptedInbox(WorkerAgent[w]) /\ Cardinality(worker[w].inbox) < BatchLimit
         THEN Become(w, [worker[w] EXCEPT !.unread = @ \ {t},
                                          !.inbox = @ \cup {t},
                                          !.copy = [@ EXCEPT ![t] = ledger[t]]])
         ELSE Become(w, [worker[w] EXCEPT !.unread = @ \ {t}])
    /\ UNCHANGED ledgerVars

TargetsRead(w) ==
    /\ At(w, "target")
    /\ worker[w].unread = {}
    /\ IF worker[w].inbox = {} THEN EndRun(w) ELSE Goto(w, "snapshot")
    /\ UNCHANGED ledgerVars

RecoverStale(w) ==
    /\ At(w, "recover")
    /\ \E S \in Batches(StaleTasks(WorkerAgent[w])) : RecoverStaleAgentMessages(S)
    /\ Goto(w, "block")
    /\ UNCHANGED runStatus

BlockExhausted(w) ==
    /\ At(w, "block")
    /\ \E S \in Batches(ExhaustedTasks(WorkerAgent[w])) :
         /\ BlockExhaustedAgentMessages(S)
         /\ Goto(w, IF S = {} THEN "list" ELSE "escalate")
    /\ UNCHANGED runStatus

\* The run is parked by a write of its own, after the tasks were blocked.
ParkRun(w) ==
    /\ At(w, "escalate")
    /\ runStatus' = "waiting_for_human"
    /\ Goto(w, "list")
    /\ UNCHANGED <<ledger, aged>>

ListInbox(w) ==
    LET batch == Oldest(AcceptedInbox(WorkerAgent[w]), BatchLimit) IN
    /\ At(w, "list")
    /\ IF batch = {}
         THEN EndRun(w)
         ELSE Become(w, [worker[w] EXCEPT
                !.inbox = batch,
                !.copy = [t \in Task |-> IF t \in batch THEN ledger[t] ELSE NoRow],
                !.pc = "snapshot"])
    /\ UNCHANGED ledgerVars

\* Only the rows of waiting messages are used again after the snapshot.
Snapshot(w) ==
    LET unmet == {t \in worker[w].inbox : Unmet(worker[w].copy[t]) # {}} IN
    /\ At(w, "snapshot")
    /\ Become(w, [worker[w] EXCEPT
         !.waiting = unmet,
         !.copy = [t \in Task |-> IF t \in unmet THEN @[t] ELSE NoRow],
         !.pc = "next"])
    /\ UNCHANGED ledgerVars

-----------------------------------------------------------------------------
\* The loop over the listed messages, in the order of the list.
IsNext(w, t) ==
    /\ At(w, "next")
    /\ t \in worker[w].inbox
    /\ worker[w].targeted \/ \A u \in worker[w].inbox : t <= u

\* worker[w] once it is done with the listed message t.
Handled(w, t) ==
    [worker[w] EXCEPT !.inbox = @ \ {t}, !.waiting = @ \ {t},
                      !.copy = [@ EXCEPT ![t] = NoRow]]

\* The whole listed row is written back, to extend its handoff trace.
WaitOnDependencies(w, t) ==
    /\ IsNext(w, t)
    /\ t \in worker[w].waiting
    /\ RecordAgentMessage(t, worker[w].copy[t])
    /\ Become(w, Handled(w, t))
    /\ UNCHANGED runStatus

Claim(w, t) ==
    /\ IsNext(w, t)
    /\ t \notin worker[w].waiting
    /\ TryClaimAgentMessage(t, WorkerAgent[w])
    /\ Become(w, [Handled(w, t) EXCEPT !.pc = "claimed", !.job = t])
    /\ UNCHANGED runStatus

SkipUnclaimable(w, t) ==
    /\ IsNext(w, t)
    /\ t \notin worker[w].waiting
    /\ ~Claimable(t, WorkerAgent[w])
    /\ Become(w, Handled(w, t))
    /\ UNCHANGED ledgerVars

EndPass(w) ==
    /\ At(w, "next")
    /\ worker[w].inbox = {}
    /\ EndRun(w)
    /\ UNCHANGED ledgerVars

-----------------------------------------------------------------------------
SetStatus(w, s) == UpdateAgentMessageStatus(worker[w].job, s, WorkerAgent[w])

BeginTask(w) ==
    /\ At(w, "claimed")
    /\ SetStatus(w, "in_progress")
    /\ Goto(w, "executing")
    /\ UNCHANGED runStatus

CompleteTask(w) ==
    /\ At(w, "executing")
    /\ SetStatus(w, "completed")
    /\ Goto(w, "closing")
    /\ UNCHANGED runStatus

NextMessage(w) == Become(w, [worker[w] EXCEPT !.pc = "next", !.job = NoTask])

\* The event of the COMPLETED write is appended and the loop goes on.
CloseTask(w) ==
    /\ At(w, "closing")
    /\ NextMessage(w)
    /\ UNCHANGED ledgerVars

\* The except branch: the step raised, or the event after COMPLETED did.
FailTask(w) ==
    /\ At(w, "executing") \/ (EventFailures /\ At(w, "closing"))
    /\ SetStatus(w, "failed")
    /\ NextMessage(w)
    /\ UNCHANGED runStatus

\* The process dies, or an exception leaves run(): the locals are gone and
\* the ledger stays as it is.
Crash(w) ==
    /\ ~At(w, "idle")
    /\ EndRun(w)
    /\ UNCHANGED ledgerVars

WorkerStep(w) ==
    \/ \E t \in Task : ReadTarget(w, t)
    \/ TargetsRead(w)
    \/ RecoverStale(w)
    \/ BlockExhausted(w)
    \/ ParkRun(w)
    \/ ListInbox(w)
    \/ Snapshot(w)
    \/ \E t \in Task : WaitOnDependencies(w, t)
    \/ \E t \in Task : Claim(w, t)
    \/ \E t \in Task : SkipUnclaimable(w, t)
    \/ EndPass(w)
    \/ BeginTask(w)
    \/ CompleteTask(w)
    \/ CloseTask(w)
    \/ FailTask(w)
=============================================================================
