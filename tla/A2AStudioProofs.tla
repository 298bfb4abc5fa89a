--------------------------- MODULE A2AStudioProofs ---------------------------
(***************************************************************************)
(* The type invariant of A2AStudio, by statement and by step; then what    *)
(* holds in orderly deployments, and how far others overlap.               *)
(***************************************************************************)
EXTENDS A2AStudio, FiniteSetTheorems, TLAPS

-----------------------------------------------------------------------------
(* The statements of the store keep the rows well-formed *)

LEMMA AgedType ==
  ASSUME NEW rows, UpdateRows(rows)
  PROVE  aged' \in [Task -> BOOLEAN]
  BY DEF UpdateRows

LEMMA RecordType ==
  ASSUME ledger \in [Task -> Row], NEW t, NEW row \in Row, RecordAgentMessage(t, row)
  PROVE  ledger' \in [Task -> Row]
  BY DEF RecordAgentMessage, UpdateRows

LEMMA ClaimType ==
  ASSUME ledger \in [Task -> Row], NEW t \in Task, NEW a \in Agents,
         TryClaimAgentMessage(t, a)
  PROVE  ledger' \in [Task -> Row]
  <1>1. ledger[t].attempts + 1 \in 0 .. MaxAttempts
    <2>1. /\ ledger[t].attempts \in 0 .. MaxAttempts
          /\ ledger[t].maxAttempts \in 1 .. MaxAttempts
      BY DEF Row
    <2>2. ledger[t].attempts < ledger[t].maxAttempts
      BY DEF TryClaimAgentMessage, Claimable
    <2> QED
      BY <2>1, <2>2, LedgerAssumption
  <1>2. \A r \in Row : r.attempts + 1 \in 0 .. MaxAttempts =>
          [r EXCEPT !.status = "claimed", !.claimedBy = a, !.attempts = @ + 1] \in Row
    BY DEF Row, TaskStatus
  <1> QED
    BY <1>1, <1>2 DEF TryClaimAgentMessage, UpdateRows

LEMMA RecoverType ==
  ASSUME ledger \in [Task -> Row], NEW S \in SUBSET Task, RecoverStaleAgentMessages(S)
  PROVE  ledger' \in [Task -> Row]
  <1>1. \A r \in Row :
          [r EXCEPT !.status = "accepted", !.claimedBy = NoAgent] \in Row
    BY DEF Row, TaskStatus
  <1> QED
    BY <1>1 DEF RecoverStaleAgentMessages, UpdateRows

LEMMA ClaimantType ==
  ASSUME ledger \in [Task -> Row], NEW t \in Task, NEW a \in Agents
  PROVE  ClaimantOr(t, a) \in Agents
  BY DEF Row, ClaimantOr

LEMMA BlockType ==
  ASSUME ledger \in [Task -> Row], NEW S \in SUBSET Task, BlockExhaustedAgentMessages(S)
  PROVE  ledger' \in [Task -> Row]
  <1>1. \A r \in Row, b \in Agents :
          [r EXCEPT !.status = "blocked", !.claimedBy = b] \in Row
    BY DEF Row, TaskStatus
  <1>2. \A t \in Task : ClaimantOr(t, Recipient[t]) \in Agents
    BY ClaimantType, LedgerAssumption
  <1> QED
    BY <1>1, <1>2 DEF BlockExhaustedAgentMessages, UpdateRows

LEMMA StatusType ==
  ASSUME ledger \in [Task -> Row], NEW t, NEW s \in TaskStatus, NEW a \in Agents,
         UpdateAgentMessageStatus(t, s, a)
  PROVE  ledger' \in [Task -> Row]
  <1>1. \A r \in Row, b \in Agents : [r EXCEPT !.status = s, !.claimedBy = b] \in Row
    BY DEF Row
  <1>2. t \in Task => ClaimantOr(t, a) \in Agents
    BY ClaimantType
  <1> QED
    BY <1>1, <1>2 DEF UpdateAgentMessageStatus, UpdateRows

LEMMA RetryType ==
  ASSUME ledger \in [Task -> Row], NEW t, NEW reset \in BOOLEAN,
         NEW max \in 1 .. MaxAttempts, AuthorizeAgentMessageRetry(t, reset, max)
  PROVE  ledger' \in [Task -> Row]
  <1>1. \A r \in Row, n \in 0 .. MaxAttempts :
          [r EXCEPT !.status = "accepted", !.claimedBy = NoAgent,
                    !.attempts = n, !.maxAttempts = max] \in Row
    BY DEF Row, TaskStatus
  <1>2. 0 \in 0 .. MaxAttempts /\ \A u \in Task : ledger[u].attempts \in 0 .. MaxAttempts
    BY LedgerAssumption DEF Row
  <1>3. CASE reset
    BY <1>1, <1>2, <1>3 DEF AuthorizeAgentMessageRetry, UpdateRows
  <1>4. CASE ~reset
    BY <1>1, <1>2, <1>4 DEF AuthorizeAgentMessageRetry, UpdateRows
  <1> QED
    BY <1>3, <1>4

LEMMA RepairType ==
  ASSUME ledger \in [Task -> Row], NEW t, NEW remaining \in SUBSET Task,
         WriteRemainingDependencies(t, remaining)
  PROVE  ledger' \in [Task -> Row]
  <1>1. \A r \in Row : \A b \in {r.claimedBy, NoAgent} :
          [r EXCEPT !.deps = remaining, !.claimedBy = b] \in Row
    BY DEF Row
  <1> QED
    BY <1>1 DEF WriteRemainingDependencies, UpdateRows

LEMMA RowFacts == NoRow \in Row /\ \A t \in Task : NewMessage(t) \in Row
  <1>1. NoRow \in Row
    BY LedgerAssumption DEF NoRow, Row, TaskStatus
  <1>2. \A r \in Row, D \in SUBSET Task :
          [r EXCEPT !.status = "accepted", !.deps = D] \in Row
    BY DEF Row, TaskStatus
  <1>3. \A t \in Task : InitialDeps[t] \in SUBSET Task
    BY LedgerAssumption
  <1> QED
    BY <1>1, <1>2, <1>3 DEF NewMessage

-----------------------------------------------------------------------------
(* Type correctness *)

LEMMA IdleType == IdleWorker \in WorkerState
  BY RowFacts DEF IdleWorker, WorkerState, PC, NoTask

LEMMA InitType == Init => TypeOK
  BY RowFacts, IdleType
  DEF Init, LedgerInit, WorkerInit, TypeOK, LedgerTypeOK, WorkerTypeOK,
      RunStatus, NoCall, CallState, NoTask

LEMMA BecomeType ==
  ASSUME WorkerTypeOK, NEW w, NEW state \in WorkerState, Become(w, state)
  PROVE  WorkerTypeOK'
  BY DEF WorkerTypeOK, Become

LEMMA GotoType ==
  ASSUME WorkerTypeOK, NEW w \in Workers, NEW label \in PC, Goto(w, label)
  PROVE  WorkerTypeOK'
  <1>1. [worker[w] EXCEPT !.pc = label] \in WorkerState
    BY DEF WorkerTypeOK, WorkerState
  <1> QED
    BY <1>1, BecomeType DEF Goto

LEMMA EndRunType ==
  ASSUME WorkerTypeOK, NEW w \in Workers, EndRun(w)
  PROVE  WorkerTypeOK'
  BY IdleType, BecomeType DEF EndRun

LEMMA StartPassType ==
  ASSUME WorkerTypeOK, NEW w \in Workers,
         NEW ids \in Targets, NEW recover \in BOOLEAN, StartPass(w, ids, recover)
  PROVE  WorkerTypeOK'
  <1>1. \A s \in WorkerState, T \in SUBSET Task, b \in BOOLEAN, label \in PC :
          [s EXCEPT !.targeted = b, !.unread = T, !.pc = label] \in WorkerState
    BY DEF WorkerState
  <1>2. worker[w] \in WorkerState /\ ids \in SUBSET Task
    BY WorkerAssumption DEF WorkerTypeOK
  <1>3. (IF ids # {} THEN "target" ELSE IF recover THEN "recover" ELSE "block") \in PC
    BY DEF PC
  <1> QED
    BY <1>1, <1>2, <1>3, BecomeType DEF StartPass

LEMMA ReadTargetType ==
  ASSUME WorkerTypeOK, ledger \in [Task -> Row], NEW w \in Workers, NEW t \in Task,
         ReadTarget(w, t)
  PROVE  WorkerTypeOK'
  <1>1. [worker[w] EXCEPT !.unread = @ \ {t}, !.inbox = @ \cup {t},
                          !.copy = [@ EXCEPT ![t] = ledger[t]]] \in WorkerState
    BY DEF WorkerTypeOK, WorkerState
  <1>2. [worker[w] EXCEPT !.unread = @ \ {t}] \in WorkerState
    BY DEF WorkerTypeOK, WorkerState
  <1> QED
    BY <1>1, <1>2, BecomeType DEF ReadTarget

LEMMA ListInboxType ==
  ASSUME WorkerTypeOK, ledger \in [Task -> Row], NEW w \in Workers, ListInbox(w)
  PROVE  WorkerTypeOK'
  <1> DEFINE batch == Oldest(AcceptedInbox(WorkerAgent[w]), BatchLimit)
             rows == [t \in Task |-> IF t \in batch THEN ledger[t] ELSE NoRow]
             state == [worker[w] EXCEPT !.inbox = batch, !.copy = rows, !.pc = "snapshot"]
  <1>1. batch \in SUBSET Task
    BY DEF Oldest, AcceptedInbox
  <1>2. rows \in [Task -> Row]
    BY RowFacts
  <1>3. state \in WorkerState
    <2> HIDE DEF batch, rows
    <2>1. \A q \in WorkerState : [q EXCEPT !.inbox = batch, !.copy = rows, !.pc = "snapshot"] \in WorkerState
      BY <1>1, <1>2 DEF WorkerState, PC
    <2> QED
      BY <2>1 DEF WorkerTypeOK
  <1>4. EndRun(w) \/ Become(w, state)
    BY DEF ListInbox
  <1> HIDE DEF state
  <1> QED
    BY <1>3, <1>4, EndRunType, BecomeType

LEMMA SnapshotType ==
  ASSUME WorkerTypeOK, NEW w \in Workers, Snapshot(w)
  PROVE  WorkerTypeOK'
  <1> DEFINE unmet == {t \in worker[w].inbox : Unmet(worker[w].copy[t]) # {}}
             rows == [t \in Task |-> IF t \in unmet THEN worker[w].copy[t] ELSE NoRow]
             state == [worker[w] EXCEPT !.waiting = unmet, !.copy = rows, !.pc = "next"]
  <1>1. unmet \in SUBSET Task
    BY DEF WorkerTypeOK, WorkerState
  <1>2. rows \in [Task -> Row]
    BY RowFacts DEF WorkerTypeOK, WorkerState
  <1>3. state \in WorkerState
    <2> HIDE DEF unmet, rows
    <2>1. \A q \in WorkerState : [q EXCEPT !.waiting = unmet, !.copy = rows, !.pc = "next"] \in WorkerState
      BY <1>1, <1>2 DEF WorkerState, PC
    <2> QED
      BY <2>1 DEF WorkerTypeOK
  <1>4. Become(w, state)
    BY DEF Snapshot
  <1> HIDE DEF state
  <1> QED
    BY <1>3, <1>4, BecomeType

LEMMA HandledType ==
  ASSUME WorkerTypeOK, NEW w \in Workers, NEW t \in Task
  PROVE  /\ Handled(w, t) \in WorkerState
         /\ [Handled(w, t) EXCEPT !.pc = "claimed", !.job = t] \in WorkerState
  <1>1. Handled(w, t) \in WorkerState
    BY RowFacts DEF WorkerTypeOK, Handled, WorkerState
  <1>2. \A s \in WorkerState : [s EXCEPT !.pc = "claimed", !.job = t] \in WorkerState
    BY DEF WorkerState, PC
  <1> QED
    BY <1>1, <1>2

LEMMA NextMessageType ==
  ASSUME WorkerTypeOK, NEW w \in Workers, NextMessage(w)
  PROVE  WorkerTypeOK'
  <1>1. [worker[w] EXCEPT !.pc = "next", !.job = NoTask] \in WorkerState
    BY DEF WorkerTypeOK, WorkerState, PC
  <1> QED
    BY <1>1, BecomeType DEF NextMessage

LEMMA WorkerStepType ==
  ASSUME TypeOK, NEW w \in Workers, WorkerStep(w)
  PROVE  LedgerTypeOK' /\ WorkerTypeOK'
  <1>1. /\ ledger \in [Task -> Row] /\ aged \in [Task -> BOOLEAN]
        /\ runStatus \in RunStatus /\ WorkerTypeOK
    BY DEF TypeOK, LedgerTypeOK
  <1>2. WorkerAgent[w] \in Agents
    BY WorkerAssumption
  <1>3. UNCHANGED ledgerVars => LedgerTypeOK'
    BY <1>1 DEF LedgerTypeOK, ledgerVars
  <1>4. ledger' \in [Task -> Row] /\ aged' \in [Task -> BOOLEAN] /\ UNCHANGED runStatus
          => LedgerTypeOK'
    BY <1>1 DEF LedgerTypeOK
  <1>5. {"recover", "block", "escalate", "list", "snapshot", "next", "claimed",
         "executing", "closing"} \subseteq PC
    BY DEF PC
  <1>6. ASSUME NEW s \in TaskStatus, SetStatus(w, s), UNCHANGED runStatus
        PROVE  LedgerTypeOK'
    <2>1. UpdateAgentMessageStatus(worker[w].job, s, WorkerAgent[w])
      BY <1>6 DEF SetStatus
    <2>2. ledger' \in [Task -> Row]
      BY <1>1, <1>2, <2>1, StatusType
    <2>3. aged' \in [Task -> BOOLEAN]
      BY <2>1, AgedType DEF UpdateAgentMessageStatus
    <2> QED
      BY <1>4, <1>6, <2>2, <2>3
  <1>10. ASSUME NEW t \in Task, ReadTarget(w, t)
         PROVE  LedgerTypeOK' /\ WorkerTypeOK'
    BY <1>1, <1>3, <1>10, ReadTargetType DEF ReadTarget
  <1>11. CASE TargetsRead(w)
    BY <1>1, <1>3, <1>5, <1>11, EndRunType, GotoType DEF TargetsRead
  <1>12. CASE RecoverStale(w)
    <2>1. PICK S \in Batches(StaleTasks(WorkerAgent[w])) : RecoverStaleAgentMessages(S)
      BY <1>12 DEF RecoverStale
    <2>2. S \in SUBSET Task
      BY DEF Batches, StaleTasks
    <2>3. LedgerTypeOK'
      BY <1>1, <1>4, <1>12, <2>1, <2>2, RecoverType, AgedType
      DEF RecoverStale, RecoverStaleAgentMessages
    <2> QED
      BY <1>1, <1>5, <1>12, <2>3, GotoType DEF RecoverStale
  <1>13. CASE BlockExhausted(w)
    <2>1. PICK S \in Batches(ExhaustedTasks(WorkerAgent[w])) :
            BlockExhaustedAgentMessages(S) /\ Goto(w, IF S = {} THEN "list" ELSE "escalate")
      BY <1>13 DEF BlockExhausted
    <2>2. S \in SUBSET Task
      BY DEF Batches, ExhaustedTasks, AcceptedInbox
    <2>3. LedgerTypeOK'
      BY <1>1, <1>4, <1>13, <2>1, <2>2, BlockType, AgedType
      DEF BlockExhausted, BlockExhaustedAgentMessages
    <2> QED
      BY <1>1, <1>5, <2>1, <2>3, GotoType
  <1>14. CASE ParkRun(w)
    <2>1. LedgerTypeOK'
      BY <1>1, <1>14 DEF ParkRun, LedgerTypeOK, RunStatus
    <2> QED
      BY <1>1, <1>5, <1>14, <2>1, GotoType DEF ParkRun
  <1>15. CASE ListInbox(w)
    BY <1>1, <1>3, <1>15, ListInboxType DEF ListInbox
  <1>16. CASE Snapshot(w)
    BY <1>1, <1>3, <1>16, SnapshotType DEF Snapshot
  <1>17. ASSUME NEW t \in Task, WaitOnDependencies(w, t)
         PROVE  LedgerTypeOK' /\ WorkerTypeOK'
    <2>1. worker[w].copy[t] \in Row
      BY <1>1 DEF WorkerTypeOK, WorkerState
    <2>2. LedgerTypeOK'
      BY <1>1, <1>4, <1>17, <2>1, RecordType, AgedType
      DEF WaitOnDependencies, RecordAgentMessage
    <2> QED
      BY <1>1, <1>17, <2>2, HandledType, BecomeType DEF WaitOnDependencies
  <1>18. ASSUME NEW t \in Task, Claim(w, t)
         PROVE  LedgerTypeOK' /\ WorkerTypeOK'
    <2>1. LedgerTypeOK'
      BY <1>1, <1>2, <1>4, <1>18, ClaimType, AgedType DEF Claim, TryClaimAgentMessage
    <2> QED
      BY <1>1, <1>18, <2>1, HandledType, BecomeType DEF Claim
  <1>19. ASSUME NEW t \in Task, SkipUnclaimable(w, t)
         PROVE  LedgerTypeOK' /\ WorkerTypeOK'
    BY <1>1, <1>3, <1>19, HandledType, BecomeType DEF SkipUnclaimable
  <1>20. CASE EndPass(w)
    BY <1>1, <1>3, <1>20, EndRunType DEF EndPass
  <1>21. CASE BeginTask(w)
    <2>1. LedgerTypeOK'
      BY <1>6, <1>21 DEF BeginTask, TaskStatus
    <2> QED
      BY <1>1, <1>5, <1>21, <2>1, GotoType DEF BeginTask
  <1>22. CASE CompleteTask(w)
    <2>1. LedgerTypeOK'
      BY <1>6, <1>22 DEF CompleteTask, TaskStatus
    <2> QED
      BY <1>1, <1>5, <1>22, <2>1, GotoType DEF CompleteTask
  <1>23. CASE CloseTask(w)
    BY <1>1, <1>3, <1>23, NextMessageType DEF CloseTask
  <1>24. CASE FailTask(w)
    <2>1. LedgerTypeOK'
      BY <1>6, <1>24 DEF FailTask, TaskStatus
    <2> QED
      BY <1>1, <1>24, <2>1, NextMessageType DEF FailTask
  <1> QED
    BY <1>10, <1>11, <1>12, <1>13, <1>14, <1>15, <1>16, <1>17, <1>18, <1>19,
       <1>20, <1>21, <1>22, <1>23, <1>24 DEF WorkerStep

LEMMA CallType ==
  ASSUME TypeOK, NEW c \in Callers, NEW t \in Task, NEW D \in SUBSET Task,
         NEW label \in {"gate", "retry", "repair", "write", "resume"},
         Continue(c, label, t, D) \/ UNCHANGED caller
  PROVE  caller' \in [Callers -> CallState]
  BY DEF TypeOK, CallState, Continue, EndCall, NoCall

LEMMA EndCallType ==
  ASSUME TypeOK, NEW c \in Callers, EndCall(c)
  PROVE  caller' \in [Callers -> CallState]
  BY DEF TypeOK, CallState, EndCall

LEMMA ServingType ==
  ASSUME TypeOK, NEW c \in Callers, caller[c].pc # "idle"
  PROVE  caller[c].job \in Task /\ caller[c].deps \in SUBSET Task
  BY DEF TypeOK, CallState, NoCall

LEMMA CallerNextType ==
  ASSUME TypeOK, CallerNext
  PROVE  TypeOK'
  <1> PICK c \in Callers :
        \/ \E t \in Task : Send(c, t)
        \/ \E t \in Task, s \in TaskStatus \ {"absent"}, a \in Agents : PostStatus(c, t, s, a)
        \/ \E t \in Task : CheckRetry(c, t)
        \/ \E t \in Task, ids \in SUBSET Task : CheckRepair(c, t, ids)
        \/ CallStep(c)
        \/ DropCall(c)
    BY DEF CallerNext
  <1>1. /\ ledger \in [Task -> Row] /\ aged \in [Task -> BOOLEAN]
        /\ runStatus \in RunStatus /\ WorkerTypeOK
    BY DEF TypeOK, LedgerTypeOK
  <1>2. {} \in SUBSET Task
    OBVIOUS
  <1>3. UNCHANGED worker => WorkerTypeOK'
    BY <1>1 DEF WorkerTypeOK
  <1>4. UNCHANGED ledgerVars => LedgerTypeOK'
    BY <1>1 DEF LedgerTypeOK, ledgerVars
  <1>5. ledger' \in [Task -> Row] /\ aged' \in [Task -> BOOLEAN] /\ UNCHANGED runStatus
          => LedgerTypeOK'
    BY <1>1 DEF LedgerTypeOK
  <1>6. ASSUME NEW t \in Task, Send(c, t)
        PROVE  TypeOK'
    <2>1. LedgerTypeOK'
      BY <1>1, <1>5, <1>6, RowFacts, RecordType, AgedType DEF Send, RecordAgentMessage
    <2>2. caller' \in [Callers -> CallState]
      BY <1>2, <1>6, CallType DEF Send
    <2> QED
      BY <1>3, <1>6, <2>1, <2>2 DEF Send, TypeOK
  <1>7. ASSUME NEW t \in Task, NEW s \in TaskStatus, NEW a \in Agents, PostStatus(c, t, s, a)
        PROVE  TypeOK'
    <2>1. LedgerTypeOK'
      <3>1. UpdateAgentMessageStatus(t, s, a) /\ UNCHANGED runStatus
        BY <1>7 DEF PostStatus
      <3>2. ledger' \in [Task -> Row]
        BY <1>1, <3>1, StatusType
      <3>3. aged' \in [Task -> BOOLEAN]
        BY <3>1, AgedType DEF UpdateAgentMessageStatus
      <3> QED
        BY <1>5, <3>1, <3>2, <3>3
    <2>2. caller' \in [Callers -> CallState]
      BY <1>2, <1>7, CallType DEF PostStatus
    <2> QED
      BY <1>3, <1>7, <2>1, <2>2 DEF PostStatus, TypeOK
  <1>8. ASSUME NEW t \in Task, CheckRetry(c, t)
        PROVE  TypeOK'
    <2>1. caller' \in [Callers -> CallState]
      BY <1>2, <1>8, CallType DEF CheckRetry
    <2> QED
      BY <1>3, <1>4, <1>8, <2>1 DEF CheckRetry, TypeOK
  <1>9. ASSUME NEW t \in Task, NEW ids \in SUBSET Task, CheckRepair(c, t, ids)
        PROVE  TypeOK'
    <2>1. caller' \in [Callers -> CallState]
      BY <1>2, <1>9, CallType DEF CheckRepair
    <2> QED
      BY <1>3, <1>4, <1>9, <2>1 DEF CheckRepair, TypeOK
  <1>10. CASE OpenGate(c) \/ ResumeRun(c)
    <2>1. LedgerTypeOK'
      BY <1>1, <1>10 DEF OpenGate, ResumeRun, LedgerTypeOK, RunStatus
    <2>2. caller' \in [Callers -> CallState]
      BY <1>10, EndCallType DEF OpenGate, ResumeRun
    <2> QED
      BY <1>3, <1>10, <2>1, <2>2 DEF OpenGate, ResumeRun, TypeOK
  <1>11. CASE ApplyRetry(c)
    <2>1. PICK reset \in BOOLEAN, max \in 1 .. MaxAttempts :
            AuthorizeAgentMessageRetry(caller[c].job, reset, max)
      BY <1>11 DEF ApplyRetry
    <2>5. ledger' \in [Task -> Row]
      BY <1>1, <2>1, RetryType DEF LedgerTypeOK
    <2>6. aged' \in [Task -> BOOLEAN]
      BY <2>1, AgedType DEF AuthorizeAgentMessageRetry
    <2>2. LedgerTypeOK'
      BY <1>1, <1>11, <2>5, <2>6 DEF ApplyRetry, LedgerTypeOK
    <2>3. caller[c].job \in Task
      BY <1>11, ServingType DEF ApplyRetry, Serving
    <2>4. caller' \in [Callers -> CallState]
      BY <1>2, <1>11, <2>3, CallType DEF ApplyRetry
    <2> QED
      BY <1>3, <1>11, <2>2, <2>4 DEF ApplyRetry, TypeOK
  <1>12. CASE ReadRepair(c)
    <2>1. caller[c].job \in Task
      BY <1>12, ServingType DEF ReadRepair, Serving
    <2>2. ledger[caller[c].job].deps \ caller[c].deps \in SUBSET Task
      BY <1>1, <2>1 DEF Row
    <2>3. caller' \in [Callers -> CallState]
      BY <1>2, <1>12, <2>1, <2>2, CallType DEF ReadRepair
    <2> QED
      BY <1>3, <1>4, <1>12, <2>3 DEF ReadRepair, TypeOK
  <1>13. CASE WriteRepair(c)
    <2>1. caller[c].job \in Task /\ caller[c].deps \in SUBSET Task
      BY <1>13, ServingType DEF WriteRepair, Serving
    <2>2. LedgerTypeOK'
      BY <1>1, <1>5, <1>13, <2>1, RepairType, AgedType
      DEF WriteRepair, WriteRemainingDependencies
    <2>3. caller' \in [Callers -> CallState]
      BY <1>2, <1>13, <2>1, CallType DEF WriteRepair
    <2> QED
      BY <1>3, <1>13, <2>2, <2>3 DEF WriteRepair, TypeOK
  <1>14. CASE DropCall(c)
    <2>1. caller' \in [Callers -> CallState]
      BY <1>14, EndCallType DEF DropCall
    <2> QED
      BY <1>3, <1>4, <1>14, <2>1 DEF DropCall, TypeOK
  <1> QED
    BY <1>6, <1>7, <1>8, <1>9, <1>10, <1>11, <1>12, <1>13, <1>14 DEF CallStep

LEMMA NextType == TypeOK /\ [Next]_vars => TypeOK'
  <1> SUFFICES ASSUME TypeOK, [Next]_vars
               PROVE  TypeOK'
    OBVIOUS
  <1>1. ASSUME NEW w \in Workers, UNCHANGED caller,
               \/ \E ids \in Targets, recover \in RecoverStaleTasks : StartPass(w, ids, recover)
               \/ Crash(w)
        PROVE  TypeOK'
    <2>1. UNCHANGED ledgerVars
      BY <1>1 DEF StartPass, Crash
    <2>2. LedgerTypeOK'
      BY <2>1 DEF TypeOK, LedgerTypeOK, ledgerVars
    <2>3. WorkerTypeOK'
      BY <1>1, WorkerAssumption, StartPassType, EndRunType DEF Crash, TypeOK
    <2> QED
      BY <1>1, <2>2, <2>3 DEF TypeOK
  <1>2. ASSUME NEW w \in Workers, UNCHANGED caller, WorkerStep(w)
        PROVE  TypeOK'
    BY <1>2, WorkerStepType DEF TypeOK
  <1>3. CASE CallerNext
    BY <1>3, CallerNextType
  <1>4. ASSUME NEW t \in Task, Age(t)
        PROVE  TypeOK'
    <2>1. aged' \in [Task -> BOOLEAN]
      BY <1>4 DEF Age, GrowStale, TypeOK, LedgerTypeOK
    <2>2. UNCHANGED <<ledger, runStatus, worker, caller>>
      BY <1>4 DEF Age, GrowStale
    <2> QED
      BY <2>1, <2>2 DEF TypeOK, LedgerTypeOK, WorkerTypeOK
  <1>5. CASE UNCHANGED vars
    BY <1>5 DEF vars, TypeOK, LedgerTypeOK, WorkerTypeOK
  <1> QED
    BY <1>1, <1>2, <1>3, <1>4, <1>5 DEF Next, WorkerNext

\* The rows, the workers' locals and the calls stay well-formed in every
\* deployment: in particular no claim counts an attempt beyond the bound.
THEOREM TypeCorrect == Spec => []TypeOK
  BY InitType, NextType, PTL DEF Spec

-----------------------------------------------------------------------------
(***************************************************************************)
(* An orderly deployment never runs one task in two workers at once, and   *)
(* its ledger names every task that is being run.  OrderlyInv is           *)
(* inductive: each step of a worker goes through WorkerFrame, which lists  *)
(* what the step owes to the other workers and to the calls; each step of  *)
(* a call goes through CallerFrame.                                        *)
(***************************************************************************)

-----------------------------------------------------------------------------
(* What the statements of the store change *)

\* Rows that are not written keep their columns and do not become stale.
Untouched(u) == ledger'[u] = ledger[u] /\ (aged'[u] => aged[u])

LEMMA RecordEffect ==
  ASSUME ledger \in [Task -> Row], NEW t, NEW row, RecordAgentMessage(t, row)
  PROVE  \A u \in Task : IF u = t THEN ledger'[u] = row /\ ~aged'[u] ELSE Untouched(u)
  <1>1. \A u \in Task : IF u = t THEN ledger'[u] = row ELSE ledger'[u] = ledger[u]
    BY DEF RecordAgentMessage, UpdateRows
  <1>2. \A u \in Task : aged'[u] => aged[u] /\ u # t
    BY DEF RecordAgentMessage, UpdateRows
  <1> QED
    BY <1>1, <1>2 DEF Untouched

LEMMA ClaimEffect ==
  ASSUME ledger \in [Task -> Row], NEW t \in Task, NEW a, TryClaimAgentMessage(t, a)
  PROVE  \A u \in Task :
           IF u = t THEN /\ ledger'[u].status = "claimed"
                         /\ ledger'[u].claimedBy = a
                         /\ ledger'[u].deps = ledger[u].deps
                         /\ ~aged'[u]
                    ELSE Untouched(u)
  <1>1. \A u \in Task : IF u = t THEN /\ ledger'[u].status = "claimed"
                                      /\ ledger'[u].claimedBy = a
                                      /\ ledger'[u].deps = ledger[u].deps
                                 ELSE ledger'[u] = ledger[u]
    <2>1. \A q \in Row :
            LET p == [q EXCEPT !.status = "claimed", !.claimedBy = a, !.attempts = @ + 1] IN
            p.status = "claimed" /\ p.claimedBy = a /\ p.deps = q.deps
      BY DEF Row
    <2> QED
      BY <2>1 DEF TryClaimAgentMessage, UpdateRows
  <1>2. \A u \in Task : aged'[u] => aged[u] /\ u # t
    BY DEF TryClaimAgentMessage, UpdateRows
  <1> QED
    BY <1>1, <1>2 DEF Untouched

LEMMA RecoverEffect ==
  ASSUME ledger \in [Task -> Row], NEW S \in SUBSET Task, RecoverStaleAgentMessages(S)
  PROVE  \A u \in Task :
           IF u \in S THEN ledger'[u].status = "accepted" /\ ledger'[u].deps = ledger[u].deps
                      ELSE Untouched(u)
  <1>1. \A u \in Task :
          IF u \in S THEN ledger'[u].status = "accepted" /\ ledger'[u].deps = ledger[u].deps
                     ELSE ledger'[u] = ledger[u]
    <2>1. \A r \in Row : \A a :
            LET q == [r EXCEPT !.status = "accepted", !.claimedBy = a] IN
            q.status = "accepted" /\ q.deps = r.deps
      BY DEF Row
    <2> QED
      BY <2>1 DEF RecoverStaleAgentMessages, UpdateRows
  <1>2. \A u \in Task : aged'[u] => aged[u]
    BY DEF RecoverStaleAgentMessages, UpdateRows
  <1> QED
    BY <1>1, <1>2 DEF Untouched

LEMMA BlockEffect ==
  ASSUME ledger \in [Task -> Row], NEW S \in SUBSET Task, BlockExhaustedAgentMessages(S)
  PROVE  \A u \in Task :
           IF u \in S THEN ledger'[u].status = "blocked" /\ ledger'[u].deps = ledger[u].deps
                      ELSE Untouched(u)
  <1>1. \A u \in Task :
          IF u \in S THEN ledger'[u].status = "blocked" /\ ledger'[u].deps = ledger[u].deps
                     ELSE ledger'[u] = ledger[u]
    <2>1. \A r \in Row : \A a :
            LET q == [r EXCEPT !.status = "blocked", !.claimedBy = a] IN
            q.status = "blocked" /\ q.deps = r.deps
      BY DEF Row
    <2> QED
      BY <2>1 DEF BlockExhaustedAgentMessages, UpdateRows
  <1>2. \A u \in Task : aged'[u] => aged[u]
    BY DEF BlockExhaustedAgentMessages, UpdateRows
  <1> QED
    BY <1>1, <1>2 DEF Untouched

LEMMA StatusEffect ==
  ASSUME ledger \in [Task -> Row], NEW t \in Task, NEW s, NEW a,
         UpdateAgentMessageStatus(t, s, a)
  PROVE  \A u \in Task :
           IF u = t THEN /\ ledger'[u].status = s
                         /\ ledger'[u].claimedBy = ClaimantOr(u, a)
                         /\ ledger'[u].deps = ledger[u].deps
                         /\ ~aged'[u]
                    ELSE Untouched(u)
  <1>1. \A u \in Task : IF u = t THEN /\ ledger'[u].status = s
                                      /\ ledger'[u].claimedBy = ClaimantOr(u, a)
                                      /\ ledger'[u].deps = ledger[u].deps
                                 ELSE ledger'[u] = ledger[u]
    <2>1. \A q \in Row : \A b :
            LET p == [q EXCEPT !.status = s, !.claimedBy = b] IN
            p.status = s /\ p.claimedBy = b /\ p.deps = q.deps
      BY DEF Row
    <2> QED
      BY ZenonT(60), <2>1 DEF UpdateAgentMessageStatus, UpdateRows
  <1>2. \A u \in Task : aged'[u] => aged[u] /\ u # t
    BY DEF UpdateAgentMessageStatus, UpdateRows
  <1> QED
    BY <1>1, <1>2 DEF Untouched

LEMMA RetryEffect ==
  ASSUME ledger \in [Task -> Row], NEW t \in Task, NEW reset, NEW max,
         AuthorizeAgentMessageRetry(t, reset, max)
  PROVE  \A u \in Task :
           IF u = t THEN ledger'[u].status = "accepted" /\ ledger'[u].deps = ledger[u].deps
                    ELSE Untouched(u)
  <1>1. \A u \in Task :
          IF u = t THEN ledger'[u].status = "accepted" /\ ledger'[u].deps = ledger[u].deps
                   ELSE ledger'[u] = ledger[u]
    BY ZenonT(60) DEF AuthorizeAgentMessageRetry, UpdateRows, Row
  <1>2. \A u \in Task : aged'[u] => aged[u]
    BY DEF AuthorizeAgentMessageRetry, UpdateRows
  <1> QED
    BY <1>1, <1>2 DEF Untouched

LEMMA RepairEffect ==
  ASSUME ledger \in [Task -> Row], NEW t \in Task, NEW remaining,
         WriteRemainingDependencies(t, remaining)
  PROVE  \A u \in Task :
           IF u = t THEN /\ ledger'[u].status = ledger[u].status
                         /\ Status(u) # "accepted" => ledger'[u].claimedBy = ledger[u].claimedBy
                         /\ ledger'[u].deps = remaining
                         /\ ~aged'[u]
                    ELSE Untouched(u)
  <1>1. \A u \in Task :
           IF u = t THEN /\ ledger'[u].status = ledger[u].status
                         /\ Status(u) # "accepted" => ledger'[u].claimedBy = ledger[u].claimedBy
                         /\ ledger'[u].deps = remaining
                    ELSE ledger'[u] = ledger[u]
    BY ZenonT(60) DEF WriteRemainingDependencies, UpdateRows, Row, Status
  <1>2. \A u \in Task : aged'[u] => aged[u] /\ u # t
    BY DEF WriteRemainingDependencies, UpdateRows
  <1> QED
    BY <1>1, <1>2 DEF Untouched

-----------------------------------------------------------------------------
(* Orderly deployments *)

\* What a step of worker w, which leaves it in state, has to show.
LEMMA WorkerFrame ==
  ASSUME OrderlyInv, TypeOK', NEW w \in Workers, NEW state \in WorkerState,
         Become(w, state), UNCHANGED caller,
         \A v \in Workers, t \in Task : v # w /\ Busy(v, t) => Untouched(t),
         \A v \in Workers, t \in Task :
            state.job = t /\ state.pc \in {"claimed", "executing", "closing"} /\ Busy(v, t)
              => v = w,
         \A t \in Task : state.job = t /\ state.pc \in {"claimed", "executing"} =>
            /\ ledger'[t].status \in StaleRecoverable
            /\ ledger'[t].claimedBy = WorkerAgent[w]
            /\ Recipient[t] = WorkerAgent[w]
            /\ OneWorkerPerAgent \/ ~aged'[t],
         \A t \in Task :
            state.job = t /\ state.pc = "closing" => ledger'[t].status = "completed",
         state.pc \in {"claimed", "executing", "closing"} => state.job \in Task,
         \A t \in Task : Status(t) \in Retriable => ledger'[t].status = ledger[t].status,
         OneWorkerPerAgent => \A v \in Workers : v # w =>
            \A t \in worker[v].inbox : ledger'[t].status = "accepted",
         OneWorkerPerAgent => \A t \in state.inbox :
            ledger'[t].status = "accepted" /\ Recipient[t] = WorkerAgent[w],
         state.pc \in {"idle", "recover", "block", "escalate", "list"} => state.inbox = {},
         NoDependencies => /\ \A t \in Task : ledger'[t].deps = {} /\ state.copy[t].deps = {}
                           /\ state.waiting = {},
         state.waiting \subseteq state.inbox
  PROVE  OrderlyInv'
  <1>1. worker'[w] = state /\ \A v \in Workers : v # w => worker'[v] = worker[v]
    BY DEF Become, OrderlyInv, TypeOK, WorkerTypeOK
  <1>2. HeldRowsAreMarked'
    BY <1>1 DEF OrderlyInv, HeldRowsAreMarked, Holds, Busy, Status, Untouched, OneWorkerPerAgent
  <1>3. ClosingRowsAreCompleted'
    BY <1>1 DEF OrderlyInv, ClosingRowsAreCompleted, Busy, At, Status, Untouched
  <1>4. BusyAlone'
    BY <1>1 DEF OrderlyInv, BusyAlone, Busy
  <1>5. BusyWorkersHaveJobs'
    BY <1>1 DEF OrderlyInv, BusyWorkersHaveJobs
  <1>6. RetriesAreCurrent'
    BY DEF OrderlyInv, RetriesAreCurrent, Serving, Status, TypeOK, CallState, NoCall
  <1>7. ListedRowsAreAccepted'
    BY <1>1 DEF OrderlyInv, ListedRowsAreAccepted, OneWorkerPerAgent, Status
  <1>8. SweepsListNothing'
    BY <1>1 DEF OrderlyInv, SweepsListNothing
  <1>9. NothingWaits'
    BY <1>1 DEF OrderlyInv, NothingWaits, NoDependencies, Serving
  <1>10. WaitingRowsAreListed'
    BY <1>1 DEF OrderlyInv, WaitingRowsAreListed
  <1> QED
    BY <1>2, <1>3, <1>4, <1>5, <1>6, <1>7, <1>8, <1>9, <1>10 DEF OrderlyInv

\* A step that only changes the locals of a worker and leaves it without job.
LEMMA QuietFrame ==
  ASSUME OrderlyInv, TypeOK', NEW w \in Workers, NEW state \in WorkerState,
         Become(w, state), UNCHANGED <<ledger, aged, caller>>,
         state.pc \notin {"claimed", "executing", "closing"},
         OneWorkerPerAgent => \A t \in state.inbox :
            Status(t) = "accepted" /\ Recipient[t] = WorkerAgent[w],
         state.pc \in {"idle", "recover", "block", "escalate", "list"} => state.inbox = {},
         NoDependencies => /\ \A t \in Task : state.copy[t].deps = {}
                           /\ state.waiting = {},
         state.waiting \subseteq state.inbox
  PROVE  OrderlyInv'
  <1>1. \A t \in Task : Untouched(t)
    BY DEF Untouched
  <1>2. NoDependencies => \A t \in Task : ledger'[t].deps = {}
    BY DEF OrderlyInv, NothingWaits
  <1>3. OneWorkerPerAgent => \A v \in Workers : \A t \in worker[v].inbox :
          ledger'[t].status = "accepted"
    BY DEF OrderlyInv, ListedRowsAreAccepted, Status
  <1> QED
    BY <1>1, <1>2, <1>3, WorkerFrame DEF Status

\* The invariant for worker w before the step, in the terms of the frames.
LEMMA WorkerFacts ==
  ASSUME OrderlyInv, NEW w \in Workers
  PROVE  /\ worker[w] \in WorkerState
         /\ OneWorkerPerAgent => \A t \in worker[w].inbox :
              Status(t) = "accepted" /\ Recipient[t] = WorkerAgent[w]
         /\ NoDependencies => /\ \A t \in Task : worker[w].copy[t].deps = {}
                              /\ \A t \in Task : ledger[t].deps = {}
                              /\ worker[w].waiting = {}
         /\ worker[w].waiting \subseteq worker[w].inbox
         /\ worker[w].pc \in {"idle", "recover", "block", "escalate", "list"}
              => worker[w].inbox = {}
         /\ worker[w].pc \in {"claimed", "executing", "closing"} => worker[w].job \in Task
  BY DEF OrderlyInv, TypeOK, WorkerTypeOK, ListedRowsAreAccepted, NothingWaits,
         WaitingRowsAreListed, SweepsListNothing, BusyWorkersHaveJobs

LEMMA EndRunInv ==
  ASSUME OrderlyInv, TypeOK', NEW w \in Workers, EndRun(w), UNCHANGED <<ledger, aged, caller>>
  PROVE  OrderlyInv'
  <1>1. /\ IdleWorker.pc = "idle" /\ IdleWorker.inbox = {} /\ IdleWorker.waiting = {}
        /\ \A t \in Task : IdleWorker.copy[t].deps = {}
    BY DEF IdleWorker, NoRow
  <1> QED
    BY <1>1, IdleType, QuietFrame DEF EndRun

LEMMA QuietGotoInv ==
  ASSUME OrderlyInv, TypeOK', NEW w \in Workers, NEW label \in PC, Goto(w, label),
         UNCHANGED <<ledger, aged, caller>>,
         label \notin {"claimed", "executing", "closing"},
         label \in {"idle", "recover", "block", "escalate", "list"} => worker[w].inbox = {}
  PROVE  OrderlyInv'
  <1> DEFINE state == [worker[w] EXCEPT !.pc = label]
  <1>1. /\ state \in WorkerState /\ state.pc = label /\ state.inbox = worker[w].inbox
        /\ state.waiting = worker[w].waiting /\ state.copy = worker[w].copy
    BY WorkerFacts DEF WorkerState
  <1>2. Become(w, state)
    BY DEF Goto
  <1> HIDE DEF state
  <1> QED
    BY <1>1, <1>2, WorkerFacts, QuietFrame

LEMMA NextMessageInv ==
  ASSUME OrderlyInv, TypeOK', NEW w \in Workers, CloseTask(w), UNCHANGED caller
  PROVE  OrderlyInv'
  <1> DEFINE state == [worker[w] EXCEPT !.pc = "next", !.job = NoTask]
  <1>1. /\ state \in WorkerState /\ state.pc = "next" /\ state.inbox = worker[w].inbox
        /\ state.waiting = worker[w].waiting /\ state.copy = worker[w].copy
    BY WorkerFacts DEF WorkerState, PC
  <1>2. Become(w, state) /\ UNCHANGED <<ledger, aged>>
    BY DEF CloseTask, NextMessage, ledgerVars
  <1> HIDE DEF state
  <1> QED
    BY <1>1, <1>2, WorkerFacts, QuietFrame

LEMMA StartPassInv ==
  ASSUME OrderlyInv, TypeOK', NEW w \in Workers, UNCHANGED caller,
         NEW ids \in Targets, NEW recover \in BOOLEAN, StartPass(w, ids, recover)
  PROVE  OrderlyInv'
  <1> DEFINE label == IF ids # {} THEN "target" ELSE IF recover THEN "recover" ELSE "block"
             named == ids # {}
             state == [worker[w] EXCEPT !.targeted = named, !.unread = ids, !.pc = label]
  <1>1. label \in {"target", "recover", "block"} /\ ids \in SUBSET Task /\ named \in BOOLEAN
    BY WorkerAssumption
  <1>2. Become(w, state) /\ UNCHANGED <<ledger, aged>> /\ worker[w].pc = "idle"
    BY DEF StartPass, At, ledgerVars
  <1> HIDE DEF label, named
  <1>3. /\ state \in WorkerState /\ state.pc = label /\ state.inbox = worker[w].inbox
        /\ state.waiting = worker[w].waiting /\ state.copy = worker[w].copy
    BY <1>1, WorkerFacts DEF WorkerState, PC
  <1> HIDE DEF state
  <1> QED
    BY <1>1, <1>2, <1>3, WorkerFacts, QuietFrame

LEMMA ReadTargetInv ==
  ASSUME OrderlyInv, TypeOK', NEW w \in Workers, UNCHANGED caller,
         NEW t \in Task, ReadTarget(w, t)
  PROVE  OrderlyInv'
  <1>1. UNCHANGED <<ledger, aged>> /\ worker[w].pc = "target"
    BY DEF ReadTarget, At, ledgerVars
  <1>2. ledger \in [Task -> Row]
    BY DEF OrderlyInv, TypeOK, LedgerTypeOK
  <1>3. CASE Become(w, [worker[w] EXCEPT !.unread = @ \ {t}])
    <2> DEFINE state == [worker[w] EXCEPT !.unread = @ \ {t}]
    <2>1. /\ state \in WorkerState /\ state.pc = "target" /\ state.inbox = worker[w].inbox
          /\ state.waiting = worker[w].waiting /\ state.copy = worker[w].copy
      BY <1>1, WorkerFacts DEF WorkerState
    <2> HIDE DEF state
    <2> QED
      BY <1>1, <1>3, <2>1, WorkerFacts, QuietFrame DEF state
  <1>4. CASE /\ t \in AcceptedInbox(WorkerAgent[w])
             /\ Become(w, [worker[w] EXCEPT !.unread = @ \ {t}, !.inbox = @ \cup {t},
                                            !.copy = [@ EXCEPT ![t] = ledger[t]]])
    <2> DEFINE state == [worker[w] EXCEPT !.unread = @ \ {t}, !.inbox = @ \cup {t},
                                          !.copy = [@ EXCEPT ![t] = ledger[t]]]
    <2>1. /\ state \in WorkerState /\ state.pc = "target"
          /\ state.inbox = worker[w].inbox \cup {t}
          /\ state.waiting = worker[w].waiting
          /\ state.copy = [worker[w].copy EXCEPT ![t] = ledger[t]]
      BY <1>1, <1>2, WorkerFacts DEF WorkerState
    <2>2. Become(w, state)
      BY <1>4
    <2>3. NoDependencies => \A u \in Task : state.copy[u].deps = {}
      BY <2>1, WorkerFacts DEF WorkerState
    <2>4. Status(t) = "accepted" /\ Recipient[t] = WorkerAgent[w]
      BY <1>4 DEF AcceptedInbox
    <2> HIDE DEF state
    <2> QED
      BY <1>1, <2>1, <2>2, <2>3, <2>4, WorkerFacts, QuietFrame
  <1> QED
    BY <1>3, <1>4 DEF ReadTarget

LEMMA ListInboxInv ==
  ASSUME OrderlyInv, TypeOK', NEW w \in Workers, UNCHANGED caller, ListInbox(w)
  PROVE  OrderlyInv'
  <1> DEFINE batch == Oldest(AcceptedInbox(WorkerAgent[w]), BatchLimit)
             rows == [t \in Task |-> IF t \in batch THEN ledger[t] ELSE NoRow]
             state == [worker[w] EXCEPT !.inbox = batch, !.copy = rows, !.pc = "snapshot"]
  <1>1. \A t \in batch : t \in Task /\ Status(t) = "accepted" /\ Recipient[t] = WorkerAgent[w]
    BY DEF Oldest, AcceptedInbox
  <1>2. rows \in [Task -> Row] /\ (NoDependencies => \A t \in Task : rows[t].deps = {})
    BY RowFacts, WorkerFacts DEF OrderlyInv, TypeOK, LedgerTypeOK, NoRow
  <1>3. /\ EndRun(w) \/ Become(w, state)
        /\ UNCHANGED <<ledger, aged>> /\ worker[w].pc = "list"
    BY DEF ListInbox, At, ledgerVars
  <1> HIDE DEF batch, rows
  <1>4. /\ state \in WorkerState /\ state.pc = "snapshot" /\ state.inbox = batch
        /\ state.waiting = worker[w].waiting /\ state.copy = rows
    BY <1>1, <1>2, WorkerFacts DEF WorkerState, PC
  <1> HIDE DEF state
  <1>5. state.waiting \subseteq state.inbox
    BY <1>3, <1>4, WorkerFacts
  <1> QED
    BY <1>1, <1>2, <1>3, <1>4, <1>5, WorkerFacts, EndRunInv, QuietFrame

LEMMA SnapshotInv ==
  ASSUME OrderlyInv, TypeOK', NEW w \in Workers, UNCHANGED caller, Snapshot(w)
  PROVE  OrderlyInv'
  <1> DEFINE unmet == {t \in worker[w].inbox : Unmet(worker[w].copy[t]) # {}}
             rows == [t \in Task |-> IF t \in unmet THEN worker[w].copy[t] ELSE NoRow]
             state == [worker[w] EXCEPT !.waiting = unmet, !.copy = rows, !.pc = "next"]
  <1>1. unmet \subseteq worker[w].inbox /\ unmet \subseteq Task
    BY WorkerFacts DEF WorkerState
  <1>2. NoDependencies => unmet = {}
    BY <1>1, WorkerFacts DEF Unmet
  <1>3. rows \in [Task -> Row] /\ (NoDependencies => \A t \in Task : rows[t].deps = {})
    BY RowFacts, WorkerFacts DEF WorkerState, NoRow
  <1>4. Become(w, state) /\ UNCHANGED <<ledger, aged>>
    BY DEF Snapshot, ledgerVars
  <1> HIDE DEF unmet, rows
  <1>5. /\ state \in WorkerState /\ state.pc = "next" /\ state.inbox = worker[w].inbox
        /\ state.waiting = unmet /\ state.copy = rows
    <2>1. \A q \in WorkerState :
            LET p == [q EXCEPT !.waiting = unmet, !.copy = rows, !.pc = "next"] IN
            /\ p \in WorkerState /\ p.pc = "next" /\ p.inbox = q.inbox
            /\ p.waiting = unmet /\ p.copy = rows
      BY <1>1, <1>3 DEF WorkerState, PC
    <2> QED
      BY <2>1, WorkerFacts
  <1> HIDE DEF state
  <1> QED
    BY <1>1, <1>2, <1>3, <1>4, <1>5, WorkerFacts, QuietFrame

\* Another worker's listed message has another recipient, and nobody is busy
\* with a message of an agent whose only worker still lists it as accepted.
LEMMA BusyFacts ==
  ASSUME OrderlyInv, NEW v \in Workers, NEW t \in Task, Busy(v, t)
  PROVE  /\ Status(t) \in {"claimed", "in_progress", "completed"}
         /\ \/ Status(t) = "completed"
            \/ Recipient[t] = WorkerAgent[v] /\ (OneWorkerPerAgent \/ ~aged[t])
  BY DEF OrderlyInv, HeldRowsAreMarked, ClosingRowsAreCompleted, Busy, Holds, At,
         StaleRecoverable

LEMMA OthersInbox ==
  ASSUME OrderlyInv, OneWorkerPerAgent, NEW v \in Workers, NEW w \in Workers, v # w,
         NEW t \in worker[v].inbox
  PROVE  t \in Task /\ Status(t) = "accepted" /\ Recipient[t] # WorkerAgent[w]
  BY WorkerFacts DEF WorkerState, OneWorkerPerAgent

LEMMA LedgerFacts == OrderlyInv => ledger \in [Task -> Row]
  BY DEF OrderlyInv, TypeOK, LedgerTypeOK

LEMMA RecoverInv ==
  ASSUME OrderlyInv, TypeOK', NEW w \in Workers, UNCHANGED caller, RecoverStale(w)
  PROVE  OrderlyInv'
  <1> DEFINE state == [worker[w] EXCEPT !.pc = "block"]
  <1>1. PICK S \in Batches(StaleTasks(WorkerAgent[w])) : RecoverStaleAgentMessages(S)
    BY DEF RecoverStale
  <1>2. Become(w, state) /\ worker[w].pc = "recover"
    BY DEF RecoverStale, Goto, At
  <1>3. /\ state \in WorkerState /\ state.pc = "block" /\ state.inbox = worker[w].inbox
        /\ state.waiting = worker[w].waiting /\ state.copy = worker[w].copy
    BY WorkerFacts DEF WorkerState, PC
  <1>4. /\ S \in SUBSET Task
        /\ \A t \in S : /\ Status(t) \in StaleRecoverable /\ aged[t]
                        /\ Recipient[t] = WorkerAgent[w]
    BY DEF Batches, StaleTasks
  <1> HIDE DEF state
  <1>5. \A t \in Task :
          IF t \in S THEN ledger'[t].status = "accepted" /\ ledger'[t].deps = ledger[t].deps
                     ELSE Untouched(t)
    BY <1>1, <1>4, LedgerFacts, RecoverEffect
  <1>6. \A v \in Workers, t \in Task : Busy(v, t) => Untouched(t)
    <2> SUFFICES ASSUME NEW v \in Workers, NEW t \in Task, Busy(v, t), t \in S
                 PROVE  FALSE
      BY <1>5
    <2>1. OneWorkerPerAgent /\ Recipient[t] = WorkerAgent[v]
      BY <1>4, BusyFacts DEF StaleRecoverable
    <2>2. v = w
      BY <1>4, <2>1 DEF OneWorkerPerAgent
    <2> QED
      BY <1>2, <2>2 DEF Busy
  <1>7. \A t \in Task : Status(t) \in Retriable => ledger'[t].status = ledger[t].status
    BY <1>4, <1>5 DEF StaleRecoverable, Retriable, Untouched
  <1>8. OneWorkerPerAgent => \A v \in Workers : v # w =>
          \A t \in worker[v].inbox : ledger'[t].status = "accepted"
    BY <1>5, OthersInbox DEF Untouched, Status
  <1>9. NoDependencies => \A t \in Task : ledger'[t].deps = {}
    BY <1>5, WorkerFacts DEF Untouched
  <1>10. state.inbox = {}
    BY <1>2, <1>3, WorkerFacts
  <1> QED
    BY <1>2, <1>3, <1>6, <1>7, <1>8, <1>9, <1>10, WorkerFacts, WorkerFrame

LEMMA BlockInv ==
  ASSUME OrderlyInv, TypeOK', NEW w \in Workers, UNCHANGED caller, BlockExhausted(w)
  PROVE  OrderlyInv'
  <1>1. PICK S \in Batches(ExhaustedTasks(WorkerAgent[w])) :
          /\ BlockExhaustedAgentMessages(S)
          /\ Goto(w, IF S = {} THEN "list" ELSE "escalate")
    BY DEF BlockExhausted
  <1> DEFINE label == IF S = {} THEN "list" ELSE "escalate"
             state == [worker[w] EXCEPT !.pc = label]
  <1>2. Become(w, state) /\ worker[w].pc = "block" /\ label \in {"list", "escalate"}
    BY <1>1 DEF BlockExhausted, Goto, At
  <1> HIDE DEF label
  <1>3. /\ state \in WorkerState /\ state.pc = label /\ state.inbox = worker[w].inbox
        /\ state.waiting = worker[w].waiting /\ state.copy = worker[w].copy
    BY <1>2, WorkerFacts DEF WorkerState, PC
  <1>4. /\ S \in SUBSET Task
        /\ \A t \in S : Status(t) = "accepted" /\ Recipient[t] = WorkerAgent[w]
    BY DEF Batches, ExhaustedTasks, AcceptedInbox
  <1> HIDE DEF state
  <1>5. \A t \in Task :
          IF t \in S THEN ledger'[t].status = "blocked" /\ ledger'[t].deps = ledger[t].deps
                     ELSE Untouched(t)
    BY <1>1, <1>4, LedgerFacts, BlockEffect
  <1>6. \A v \in Workers, t \in Task : Busy(v, t) => Untouched(t)
    BY <1>4, <1>5, BusyFacts
  <1>7. \A t \in Task : Status(t) \in Retriable => ledger'[t].status = ledger[t].status
    BY <1>4, <1>5 DEF Retriable, Untouched
  <1>8. OneWorkerPerAgent => \A v \in Workers : v # w =>
          \A t \in worker[v].inbox : ledger'[t].status = "accepted"
    BY <1>4, <1>5, OthersInbox DEF Untouched, Status
  <1>9. NoDependencies => \A t \in Task : ledger'[t].deps = {}
    BY <1>5, WorkerFacts DEF Untouched
  <1>10. state.inbox = {}
    BY <1>2, <1>3, WorkerFacts
  <1> QED
    BY <1>2, <1>3, <1>6, <1>7, <1>8, <1>9, <1>10, WorkerFacts, WorkerFrame

\* What is left of a worker's locals after a listed message.
LEMMA HandledFacts ==
  ASSUME OrderlyInv, NEW w \in Workers, NEW t \in Task
  PROVE  /\ Handled(w, t) \in WorkerState
         /\ Handled(w, t).pc = worker[w].pc
         /\ Handled(w, t).inbox = worker[w].inbox \ {t}
         /\ Handled(w, t).waiting = worker[w].waiting \ {t}
         /\ NoDependencies => \A u \in Task : Handled(w, t).copy[u].deps = {}
  <1>1. Handled(w, t).copy = [worker[w].copy EXCEPT ![t] = NoRow]
    BY WorkerFacts DEF Handled, WorkerState
  <1>2. worker[w].copy \in [Task -> Row] /\ NoRow.deps = {}
    BY WorkerFacts DEF WorkerState, NoRow
  <1>3. NoDependencies => \A u \in Task : Handled(w, t).copy[u].deps = {}
    BY <1>1, <1>2, WorkerFacts
  <1> QED
    <2>1. Handled(w, t) \in WorkerState
      BY HandledType DEF OrderlyInv, TypeOK
    <2>2. \A q \in WorkerState : \A c :
            LET p == [q EXCEPT !.inbox = @ \ {t}, !.waiting = @ \ {t}, !.copy = c] IN
            p.pc = q.pc /\ p.inbox = q.inbox \ {t} /\ p.waiting = q.waiting \ {t}
      BY DEF WorkerState
    <2> QED
      BY <1>3, <2>1, <2>2, WorkerFacts DEF Handled

LEMMA SkipInv ==
  ASSUME OrderlyInv, TypeOK', NEW w \in Workers, UNCHANGED caller,
         NEW t \in Task, SkipUnclaimable(w, t)
  PROVE  OrderlyInv'
  <1>1. Become(w, Handled(w, t)) /\ UNCHANGED <<ledger, aged>> /\ worker[w].pc = "next"
    BY DEF SkipUnclaimable, IsNext, At, ledgerVars
  <1> QED
    BY <1>1, HandledFacts, WorkerFacts, QuietFrame

LEMMA WaitOnDependenciesInv ==
  ASSUME OrderlyInv, TypeOK', OneWorkerPerAgent \/ NoDependencies,
         NEW w \in Workers, UNCHANGED caller, NEW t \in Task, WaitOnDependencies(w, t)
  PROVE  OrderlyInv'
  <1>1. /\ Become(w, Handled(w, t)) /\ worker[w].pc = "next"
        /\ t \in worker[w].waiting /\ t \in worker[w].inbox
        /\ RecordAgentMessage(t, worker[w].copy[t])
    BY DEF WaitOnDependencies, IsNext, At
  <1>2. ~NoDependencies /\ OneWorkerPerAgent
    BY <1>1, WorkerFacts
  <1>3. Status(t) = "accepted" /\ Recipient[t] = WorkerAgent[w]
    BY <1>1, <1>2, WorkerFacts
  <1>4. \A u \in Task : u # t => Untouched(u)
    BY <1>1, LedgerFacts, RecordEffect
  <1>5. \A v \in Workers, u \in Task : Busy(v, u) => Untouched(u)
    BY <1>3, <1>4, BusyFacts
  <1>6. \A u \in Task : Status(u) \in Retriable => ledger'[u].status = ledger[u].status
    BY <1>3, <1>4 DEF Retriable, Untouched
  <1>7. \A v \in Workers : v # w => \A u \in worker[v].inbox : ledger'[u].status = "accepted"
    BY <1>2, <1>3, <1>4, OthersInbox DEF Untouched, Status
  <1>8. \A u \in Handled(w, t).inbox :
          ledger'[u].status = "accepted" /\ Recipient[u] = WorkerAgent[w]
    BY <1>2, <1>4, HandledFacts, WorkerFacts DEF Untouched, Status, WorkerState
  <1> QED
    BY <1>1, <1>2, <1>5, <1>6, <1>7, <1>8, HandledFacts, WorkerFacts, WorkerFrame

LEMMA ClaimInv ==
  ASSUME OrderlyInv, TypeOK', NEW w \in Workers, UNCHANGED caller,
         NEW t \in Task, Claim(w, t)
  PROVE  OrderlyInv'
  <1> DEFINE state == [Handled(w, t) EXCEPT !.pc = "claimed", !.job = t]
  <1>1. /\ Become(w, state) /\ worker[w].pc = "next" /\ t \in worker[w].inbox
        /\ TryClaimAgentMessage(t, WorkerAgent[w])
    BY DEF Claim, IsNext, At
  <1>2. /\ state \in WorkerState /\ state.pc = "claimed" /\ state.job = t
        /\ state.inbox = Handled(w, t).inbox /\ state.waiting = Handled(w, t).waiting
        /\ state.copy = Handled(w, t).copy
    <2>1. \A s \in WorkerState :
            LET r == [s EXCEPT !.pc = "claimed", !.job = t] IN
            /\ r \in WorkerState /\ r.pc = "claimed" /\ r.job = t
            /\ r.inbox = s.inbox /\ r.waiting = s.waiting /\ r.copy = s.copy
      BY DEF WorkerState, PC
    <2> QED
      BY <2>1, HandledFacts
  <1>3. Status(t) = "accepted" /\ Recipient[t] = WorkerAgent[w]
    BY <1>1 DEF TryClaimAgentMessage, Claimable
  <1> HIDE DEF state
  <1>4. \A u \in Task :
          IF u = t THEN /\ ledger'[u].status = "claimed"
                        /\ ledger'[u].claimedBy = WorkerAgent[w]
                        /\ ledger'[u].deps = ledger[u].deps
                        /\ ~aged'[u]
                   ELSE Untouched(u)
    BY <1>1, LedgerFacts, ClaimEffect
  <1>5. \A v \in Workers : ~Busy(v, t)
    BY <1>3, BusyFacts
  <1>6. \A v \in Workers, u \in Task : Busy(v, u) => Untouched(u)
    BY <1>4, <1>5
  <1>7. \A u \in Task : Status(u) \in Retriable => ledger'[u].status = ledger[u].status
    BY <1>3, <1>4 DEF Retriable, Untouched
  <1>8. OneWorkerPerAgent => \A v \in Workers : v # w =>
          \A u \in worker[v].inbox : ledger'[u].status = "accepted"
    BY <1>3, <1>4, OthersInbox DEF Untouched, Status
  <1>9. OneWorkerPerAgent => \A u \in state.inbox :
          ledger'[u].status = "accepted" /\ Recipient[u] = WorkerAgent[w]
    BY <1>2, <1>4, HandledFacts, WorkerFacts DEF Untouched, Status, WorkerState
  <1>10. NoDependencies => \A u \in Task : ledger'[u].deps = {}
    BY <1>4, WorkerFacts DEF Untouched
  <1>11. \A u \in Task : state.job = u =>
            /\ ledger'[u].status \in StaleRecoverable
            /\ ledger'[u].claimedBy = WorkerAgent[w]
            /\ Recipient[u] = WorkerAgent[w]
            /\ ~aged'[u]
    BY <1>2, <1>3, <1>4 DEF StaleRecoverable
  <1>12. NoDependencies => /\ \A u \in Task : state.copy[u].deps = {}
                           /\ state.waiting = {}
    BY <1>2, HandledFacts, WorkerFacts
  <1>13. state.waiting \subseteq state.inbox
    BY <1>2, HandledFacts, WorkerFacts
  <1> QED
    BY <1>1, <1>2, <1>5, <1>6, <1>7, <1>8, <1>9, <1>10, <1>11, <1>12, <1>13, WorkerFrame

\* A worker that is busy with a task is the only one to be.
LEMMA JobFacts ==
  ASSUME OrderlyInv, NEW w \in Workers,
         worker[w].pc \in {"claimed", "executing", "closing"}
  PROVE  /\ worker[w].job \in Task
         /\ Status(worker[w].job) \in {"claimed", "in_progress", "completed"}
         /\ worker[w].pc # "closing" => /\ Status(worker[w].job) \in StaleRecoverable
                                        /\ ledger[worker[w].job].claimedBy = WorkerAgent[w]
                                        /\ Recipient[worker[w].job] = WorkerAgent[w]
         /\ \A v \in Workers : Busy(v, worker[w].job) => v = w
  <1>1. worker[w].job \in Task /\ Busy(w, worker[w].job)
    BY WorkerFacts DEF Busy
  <1> QED
    BY <1>1, BusyFacts DEF OrderlyInv, BusyAlone, HeldRowsAreMarked, Holds, Busy

\* A worker writes status s into the row of its job and goes on with state.
LEMMA SetStatusInv ==
  ASSUME OrderlyInv, TypeOK', NEW w \in Workers, UNCHANGED caller,
         NEW s \in TaskStatus, SetStatus(w, s),
         NEW state \in WorkerState, Become(w, state),
         worker[w].pc \in {"claimed", "executing", "closing"},
         \/ /\ s = "in_progress" /\ worker[w].pc = "claimed"
            /\ state.pc = "executing" /\ state.job = worker[w].job
         \/ s = "completed" /\ state.pc = "closing" /\ state.job = worker[w].job
         \/ state.pc = "next",
         state.inbox = worker[w].inbox, state.waiting = worker[w].waiting,
         state.copy = worker[w].copy
  PROVE  OrderlyInv'
  <1> DEFINE t == worker[w].job
  <1>1. /\ t \in Task /\ Status(t) \in {"claimed", "in_progress", "completed"}
        /\ \A v \in Workers : Busy(v, t) => v = w
    BY JobFacts
  <1>2. UpdateAgentMessageStatus(t, s, WorkerAgent[w])
    BY DEF SetStatus
  <1> HIDE DEF t
  <1>3. \A u \in Task :
          IF u = t THEN /\ ledger'[u].status = s
                        /\ ledger'[u].claimedBy = ClaimantOr(u, WorkerAgent[w])
                        /\ ledger'[u].deps = ledger[u].deps
                        /\ ~aged'[u]
                   ELSE Untouched(u)
    BY <1>1, <1>2, LedgerFacts, StatusEffect
  <1>4. \A v \in Workers, u \in Task : v # w /\ Busy(v, u) => Untouched(u)
    BY <1>1, <1>3
  <1>5. \A v \in Workers, u \in Task :
           state.job = u /\ state.pc \in {"claimed", "executing", "closing"} /\ Busy(v, u)
             => v = w
    BY <1>1 DEF t
  <1>6. \A u \in Task : Status(u) \in Retriable => ledger'[u].status = ledger[u].status
    BY <1>1, <1>3 DEF Retriable, Untouched
  <1>7. OneWorkerPerAgent => \A v \in Workers : v # w =>
          \A u \in worker[v].inbox : ledger'[u].status = "accepted"
    BY <1>1, <1>3, OthersInbox DEF Untouched, Status
  <1>8. OneWorkerPerAgent => \A u \in state.inbox :
          ledger'[u].status = "accepted" /\ Recipient[u] = WorkerAgent[w]
    BY <1>1, <1>3, WorkerFacts DEF Untouched, Status, WorkerState
  <1>9. \A u \in Task : state.job = u /\ state.pc \in {"claimed", "executing"} =>
          /\ ledger'[u].status \in StaleRecoverable
          /\ ledger'[u].claimedBy = WorkerAgent[w]
          /\ Recipient[u] = WorkerAgent[w]
          /\ ~aged'[u]
    <2> SUFFICES ASSUME state.pc = "executing", state.job = t, s = "in_progress",
                        worker[w].pc = "claimed"
                 PROVE  /\ ledger'[t].status \in StaleRecoverable
                        /\ ledger'[t].claimedBy = WorkerAgent[w]
                        /\ Recipient[t] = WorkerAgent[w]
                        /\ ~aged'[t]
      BY DEF t
    <2>1. ledger[t].claimedBy = WorkerAgent[w] /\ Recipient[t] = WorkerAgent[w]
      BY JobFacts DEF t
    <2>2. WorkerAgent[w] # NoAgent
      BY WorkerAssumption, LedgerAssumption
    <2> QED
      BY <1>1, <1>3, <2>1, <2>2 DEF StaleRecoverable, ClaimantOr
  <1>10. \A u \in Task : state.job = u /\ state.pc = "closing" => ledger'[u].status = "completed"
    BY <1>1, <1>3 DEF t
  <1>11. NoDependencies => /\ \A u \in Task : ledger'[u].deps = {} /\ state.copy[u].deps = {}
                           /\ state.waiting = {}
    BY <1>3, WorkerFacts DEF Untouched
  <1>12. /\ state.pc \in {"claimed", "executing", "closing"} => state.job \in Task
         /\ state.pc \notin {"idle", "recover", "block", "escalate", "list"}
         /\ state.waiting \subseteq state.inbox
    BY <1>1, WorkerFacts DEF t
  <1> QED
    BY <1>4, <1>5, <1>6, <1>7, <1>8, <1>9, <1>10, <1>11, <1>12, WorkerFrame

LEMMA BeginTaskInv ==
  ASSUME OrderlyInv, TypeOK', NEW w \in Workers, UNCHANGED caller, BeginTask(w)
  PROVE  OrderlyInv'
  <1> DEFINE state == [worker[w] EXCEPT !.pc = "executing"]
  <1>1. Become(w, state) /\ SetStatus(w, "in_progress") /\ worker[w].pc = "claimed"
    BY DEF BeginTask, Goto, At
  <1>2. /\ state \in WorkerState /\ state.pc = "executing" /\ state.job = worker[w].job
        /\ state.inbox = worker[w].inbox /\ state.waiting = worker[w].waiting
        /\ state.copy = worker[w].copy
    BY WorkerFacts DEF WorkerState, PC
  <1> HIDE DEF state
  <1>3. "in_progress" \in TaskStatus
    BY DEF TaskStatus
  <1> QED
    BY <1>1, <1>2, <1>3, SetStatusInv

LEMMA CompleteTaskInv ==
  ASSUME OrderlyInv, TypeOK', NEW w \in Workers, UNCHANGED caller, CompleteTask(w)
  PROVE  OrderlyInv'
  <1> DEFINE state == [worker[w] EXCEPT !.pc = "closing"]
  <1>1. Become(w, state) /\ SetStatus(w, "completed") /\ worker[w].pc = "executing"
    BY DEF CompleteTask, Goto, At
  <1>2. /\ state \in WorkerState /\ state.pc = "closing" /\ state.job = worker[w].job
        /\ state.inbox = worker[w].inbox /\ state.waiting = worker[w].waiting
        /\ state.copy = worker[w].copy
    BY WorkerFacts DEF WorkerState, PC
  <1> HIDE DEF state
  <1>3. "completed" \in TaskStatus
    BY DEF TaskStatus
  <1> QED
    BY <1>1, <1>2, <1>3, SetStatusInv

LEMMA FailTaskInv ==
  ASSUME OrderlyInv, TypeOK', NEW w \in Workers, UNCHANGED caller, FailTask(w)
  PROVE  OrderlyInv'
  <1> DEFINE state == [worker[w] EXCEPT !.pc = "next", !.job = NoTask]
  <1>1. /\ Become(w, state) /\ SetStatus(w, "failed")
        /\ worker[w].pc \in {"executing", "closing"}
    BY DEF FailTask, NextMessage, At
  <1>2. /\ state \in WorkerState /\ state.pc = "next"
        /\ state.inbox = worker[w].inbox /\ state.waiting = worker[w].waiting
        /\ state.copy = worker[w].copy
    BY WorkerFacts DEF WorkerState, PC
  <1> HIDE DEF state
  <1>3. "failed" \in TaskStatus
    BY DEF TaskStatus
  <1> QED
    BY <1>1, <1>2, <1>3, SetStatusInv

LEMMA WorkerStepInv ==
  ASSUME OrderlyInv, TypeOK', OneWorkerPerAgent \/ NoDependencies,
         NEW w \in Workers, UNCHANGED caller, WorkerStep(w) \/ Crash(w)
  PROVE  OrderlyInv'
  <1>1. CASE \E t \in Task : ReadTarget(w, t)
    BY <1>1, ReadTargetInv
  <1>2. CASE TargetsRead(w)
    <2>1. UNCHANGED <<ledger, aged>> /\ (EndRun(w) \/ Goto(w, "snapshot"))
      BY <1>2 DEF TargetsRead, ledgerVars
    <2>2. "snapshot" \in PC
      BY DEF PC
    <2> QED
      BY <2>1, <2>2, EndRunInv, QuietGotoInv
  <1>3. CASE RecoverStale(w)
    BY <1>3, RecoverInv
  <1>4. CASE BlockExhausted(w)
    BY <1>4, BlockInv
  <1>5. CASE ParkRun(w)
    <2>1. UNCHANGED <<ledger, aged>> /\ Goto(w, "list") /\ worker[w].inbox = {}
      BY <1>5, WorkerFacts DEF ParkRun, At
    <2>2. "list" \in PC
      BY DEF PC
    <2> QED
      BY <2>1, <2>2, QuietGotoInv
  <1>6. CASE ListInbox(w)
    BY <1>6, ListInboxInv
  <1>7. CASE Snapshot(w)
    BY <1>7, SnapshotInv
  <1>8. CASE \E t \in Task : WaitOnDependencies(w, t)
    BY <1>8, WaitOnDependenciesInv
  <1>9. CASE \E t \in Task : Claim(w, t)
    BY <1>9, ClaimInv
  <1>10. CASE \E t \in Task : SkipUnclaimable(w, t)
    BY <1>10, SkipInv
  <1>11. CASE EndPass(w) \/ Crash(w)
    BY <1>11, EndRunInv DEF EndPass, Crash, ledgerVars
  <1>12. CASE BeginTask(w)
    BY <1>12, BeginTaskInv
  <1>13. CASE CompleteTask(w)
    BY <1>13, CompleteTaskInv
  <1>14. CASE CloseTask(w)
    BY <1>14, NextMessageInv
  <1>15. CASE FailTask(w)
    BY <1>15, FailTaskInv
  <1> QED
    BY <1>1, <1>2, <1>3, <1>4, <1>5, <1>6, <1>7, <1>8, <1>9, <1>10, <1>11, <1>12,
       <1>13, <1>14, <1>15 DEF WorkerStep

-----------------------------------------------------------------------------
(* The calls *)

\* What a step of a call, or the passage of time, has to show.
LEMMA CallerFrame ==
  ASSUME OrderlyInv, TypeOK', UNCHANGED worker,
         \A v \in Workers, t \in Task : Busy(v, t) =>
            /\ ledger'[t].status = ledger[t].status
            /\ ledger'[t].claimedBy = ledger[t].claimedBy
            /\ Status(t) \in StaleRecoverable => OneWorkerPerAgent \/ ~aged'[t],
         \A t \in Task : Status(t) = "accepted" => ledger'[t].status = "accepted",
         RetriesAreCurrent',
         NoDependencies => /\ \A t \in Task : ledger'[t].deps = {}
                           /\ \A c \in Callers : Serving(c, "write")' => caller'[c].deps = {}
  PROVE  OrderlyInv'
  <1>1. HeldRowsAreMarked'
    BY DEF OrderlyInv, HeldRowsAreMarked, Holds, Busy, Status, OneWorkerPerAgent
  <1>2. ClosingRowsAreCompleted'
    BY DEF OrderlyInv, ClosingRowsAreCompleted, Busy, At, Status
  <1>3. BusyAlone'
    BY DEF OrderlyInv, BusyAlone, Busy
  <1>4. BusyWorkersHaveJobs'
    BY DEF OrderlyInv, BusyWorkersHaveJobs
  <1>5. ListedRowsAreAccepted'
    <2>1. OneWorkerPerAgent => \A w \in Workers : \A t \in worker[w].inbox :
            ledger'[t].status = "accepted" /\ Recipient[t] = WorkerAgent[w]
      BY WorkerFacts DEF WorkerState
    <2> QED
      BY <2>1 DEF ListedRowsAreAccepted, OneWorkerPerAgent, Status
  <1>6. SweepsListNothing'
    BY DEF OrderlyInv, SweepsListNothing
  <1>7. NothingWaits'
    BY DEF OrderlyInv, NothingWaits, NoDependencies
  <1>8. WaitingRowsAreListed'
    BY DEF OrderlyInv, WaitingRowsAreListed
  <1> QED
    BY <1>1, <1>2, <1>3, <1>4, <1>5, <1>6, <1>7, <1>8 DEF OrderlyInv

\* The other calls do not change.
LEMMA ContinueEffect ==
  ASSUME TypeOK, NEW c \in Callers, NEW label, NEW t, NEW ids, Continue(c, label, t, ids)
  PROVE  /\ caller'[c].pc = label /\ caller'[c].job = t /\ caller'[c].deps = ids
         /\ \A d \in Callers : d # c => caller'[d] = caller[d]
  BY DEF Continue, TypeOK

LEMMA EndCallEffect ==
  ASSUME TypeOK, NEW c \in Callers, EndCall(c)
  PROVE  /\ caller'[c].pc = "idle"
         /\ \A d \in Callers : d # c => caller'[d] = caller[d]
  BY DEF EndCall, TypeOK, NoCall

LEMMA CallFacts ==
  ASSUME OrderlyInv
  PROVE  /\ TypeOK
         /\ \A c \in Callers : caller[c].pc = "retry" => Status(caller[c].job) \in Retriable
         /\ NoDependencies => /\ \A t \in Task : ledger[t].deps = {}
                              /\ \A c \in Callers : caller[c].pc = "write" => caller[c].deps = {}
  BY DEF OrderlyInv, RetriesAreCurrent, NothingWaits, Serving

\* A step of call c that leaves the rows alone.
LEMMA QuietCall ==
  ASSUME OrderlyInv, TypeOK', UNCHANGED <<ledger, aged, worker>>, NEW c \in Callers,
         \A d \in Callers : d # c => caller'[d] = caller[d],
         caller'[c].pc = "retry" => Status(caller'[c].job) \in Retriable,
         NoDependencies /\ caller'[c].pc = "write" => caller'[c].deps = {}
  PROVE  OrderlyInv'
  <1>1. \A v \in Workers, t \in Task : Busy(v, t) =>
            /\ ledger'[t].status = ledger[t].status
            /\ ledger'[t].claimedBy = ledger[t].claimedBy
            /\ Status(t) \in StaleRecoverable => OneWorkerPerAgent \/ ~aged'[t]
    BY BusyFacts DEF StaleRecoverable
  <1>2. \A t \in Task : Status(t) = "accepted" => ledger'[t].status = "accepted"
    BY DEF Status
  <1>3. RetriesAreCurrent'
    BY CallFacts DEF RetriesAreCurrent, Serving, Status
  <1>4. NoDependencies =>
          /\ \A t \in Task : ledger'[t].deps = {}
          /\ \A d \in Callers : Serving(d, "write")' => caller'[d].deps = {}
    BY CallFacts DEF Serving
  <1> QED
    BY <1>1, <1>2, <1>3, <1>4, CallerFrame

\* A call writes one row, keeps in it what a busy worker and the other retries
\* rely on, and has no write to the ledger left.
LEMMA WritingCall ==
  ASSUME OrderlyInv, TypeOK', UNCHANGED worker, NEW c \in Callers,
         NEW t \in Task,
         \A d \in Callers : d # c => caller'[d] = caller[d],
         \A d \in Callers : d # c /\ caller[d].pc = "retry" /\ caller[d].job = t =>
            ledger'[t].status \in Retriable,
         \A u \in Task : u # t => Untouched(u),
         Status(t) = "accepted" => ledger'[t].status = "accepted",
         \A v \in Workers : Busy(v, t) =>
            /\ ledger'[t].status = ledger[t].status
            /\ ledger'[t].claimedBy = ledger[t].claimedBy
            /\ ~aged'[t],
         caller'[c].pc \notin {"retry", "write"},
         NoDependencies => ledger'[t].deps = {}
  PROVE  OrderlyInv'
  <1>1. \A v \in Workers, u \in Task : Busy(v, u) =>
            /\ ledger'[u].status = ledger[u].status
            /\ ledger'[u].claimedBy = ledger[u].claimedBy
            /\ Status(u) \in StaleRecoverable => OneWorkerPerAgent \/ ~aged'[u]
    BY BusyFacts DEF Untouched, StaleRecoverable
  <1>2. \A u \in Task : Status(u) = "accepted" => ledger'[u].status = "accepted"
    BY DEF Status, Untouched
  <1>3. ASSUME NEW d \in Callers, caller'[d].pc = "retry"
        PROVE  ledger'[caller'[d].job].status \in Retriable
    <2>1. d # c /\ caller'[d] = caller[d]
      BY <1>3
    <2>2. caller[d].job \in Task /\ Status(caller[d].job) \in Retriable
      BY <1>3, <2>1, CallFacts, ServingType DEF TypeOK
    <2>3. CASE caller[d].job = t
      BY <1>3, <2>1, <2>3
    <2>4. CASE caller[d].job # t
      BY <2>1, <2>2, <2>4 DEF Untouched, Status
    <2> QED
      BY <2>3, <2>4
  <1>4. RetriesAreCurrent'
    BY <1>3 DEF RetriesAreCurrent, Serving, Status
  <1>5. NoDependencies =>
          /\ \A u \in Task : ledger'[u].deps = {}
          /\ \A d \in Callers : Serving(d, "write")' => caller'[d].deps = {}
    BY CallFacts DEF Serving, Untouched
  <1> QED
    BY <1>1, <1>2, <1>4, <1>5, CallerFrame

LEMMA SendInv ==
  ASSUME OrderlyInv, TypeOK', "resend" \notin Endpoints,
         NEW c \in Callers, NEW t \in Task, Send(c, t)
  PROVE  OrderlyInv'
  <1>1. /\ Status(t) = "absent" /\ caller[c] = NoCall
        /\ RecordAgentMessage(t, NewMessage(t)) /\ UNCHANGED worker
        /\ Continue(c, "gate", t, {}) \/ UNCHANGED caller
    BY DEF Send, Idle
  <1>2. /\ caller'[c].pc \notin {"retry", "write"}
        /\ \A d \in Callers : d # c => caller'[d] = caller[d]
    BY <1>1, CallFacts, ContinueEffect DEF NoCall
  <1>3. /\ ledger'[t] = NewMessage(t)
        /\ \A u \in Task : u # t => Untouched(u)
    BY <1>1, LedgerFacts, RecordEffect
  <1>4. \A v \in Workers : ~Busy(v, t)
    BY <1>1, BusyFacts
  <1>5. NewMessage(t).deps = InitialDeps[t] /\ NewMessage(t).status = "accepted"
    BY DEF NewMessage, NoRow
  <1>6. \A d \in Callers : ~(caller[d].pc = "retry" /\ caller[d].job = t)
    BY <1>1, CallFacts DEF Retriable
  <1> QED
    BY <1>1, <1>2, <1>3, <1>4, <1>5, <1>6, WritingCall DEF NoDependencies

LEMMA ApplyRetryInv ==
  ASSUME OrderlyInv, TypeOK', RetriesDoNotOverlap, NEW c \in Callers, ApplyRetry(c)
  PROVE  OrderlyInv'
  <1> DEFINE t == caller[c].job
  <1>1. /\ caller[c].pc = "retry" /\ UNCHANGED worker
        /\ Continue(c, "resume", t, {})
        /\ \E reset \in BOOLEAN, max \in 1 .. MaxAttempts :
             AuthorizeAgentMessageRetry(t, reset, max)
    BY DEF ApplyRetry, Serving
  <1>2. t \in Task /\ Status(t) \in Retriable
    BY <1>1, CallFacts, ServingType DEF TypeOK
  <1>6. \A d \in Callers : d # c => ~(caller[d].pc = "retry" /\ caller[d].job = t)
    BY <1>1 DEF RetriesDoNotOverlap, Overlapping, Serving
  <1> HIDE DEF t
  <1>3. /\ caller'[c].pc = "resume"
        /\ \A d \in Callers : d # c => caller'[d] = caller[d]
    BY <1>1, CallFacts, ContinueEffect
  <1>4. /\ ledger'[t].status = "accepted" /\ ledger'[t].deps = ledger[t].deps
        /\ \A u \in Task : u # t => Untouched(u)
    BY <1>1, <1>2, LedgerFacts, RetryEffect
  <1>5. \A v \in Workers : ~Busy(v, t)
    BY <1>2, BusyFacts DEF Retriable
  <1> QED
    BY <1>1, <1>2, <1>3, <1>4, <1>5, <1>6, CallFacts, WritingCall

LEMMA WriteRepairInv ==
  ASSUME OrderlyInv, TypeOK', NEW c \in Callers, WriteRepair(c)
  PROVE  OrderlyInv'
  <1> DEFINE t == caller[c].job
  <1>1. /\ caller[c].pc = "write" /\ UNCHANGED worker
        /\ Continue(c, "resume", t, {})
        /\ WriteRemainingDependencies(t, caller[c].deps)
    BY DEF WriteRepair, Serving
  <1>2. t \in Task
    BY <1>1, CallFacts, ServingType DEF TypeOK
  <1> HIDE DEF t
  <1>3. /\ caller'[c].pc = "resume"
        /\ \A d \in Callers : d # c => caller'[d] = caller[d]
    BY <1>1, CallFacts, ContinueEffect
  <1>4. /\ ledger'[t].status = Status(t) /\ ledger'[t].deps = caller[c].deps /\ ~aged'[t]
        /\ Status(t) # "accepted" => ledger'[t].claimedBy = ledger[t].claimedBy
        /\ \A u \in Task : u # t => Untouched(u)
    BY <1>1, <1>2, LedgerFacts, RepairEffect DEF Status
  <1>5. \A v \in Workers : Busy(v, t) => Status(t) # "accepted"
    BY <1>2, BusyFacts
  <1>6. \A d \in Callers : caller[d].pc = "retry" /\ caller[d].job = t =>
          ledger'[t].status \in Retriable
    BY <1>4, CallFacts
  <1> QED
    BY <1>1, <1>2, <1>3, <1>4, <1>5, <1>6, CallFacts, WritingCall DEF Status

LEMMA CallerNextInv ==
  ASSUME OrderlyInv, TypeOK', RetriesDoNotOverlap, Endpoints \subseteq {"send", "retry", "repair"},
         CallerNext
  PROVE  OrderlyInv'
  <1>1. PICK c \in Callers :
          \/ \E t \in Task : Send(c, t)
          \/ \E t \in Task, s \in TaskStatus \ {"absent"}, a \in Agents : PostStatus(c, t, s, a)
          \/ \E t \in Task : CheckRetry(c, t)
          \/ \E t \in Task, ids \in SUBSET Task : CheckRepair(c, t, ids)
          \/ CallStep(c)
          \/ DropCall(c)
    BY DEF CallerNext
  <1>2. CASE \E t \in Task : Send(c, t)
    BY <1>2, SendInv
  <1>3. ASSUME NEW t, NEW s, NEW a, PostStatus(c, t, s, a)
        PROVE  FALSE
    BY <1>3 DEF PostStatus, Idle
  <1>4. ASSUME NEW t \in Task, CheckRetry(c, t)
        PROVE  OrderlyInv'
    <2>1. /\ Continue(c, "retry", t, {}) /\ Status(t) \in Retriable
          /\ UNCHANGED <<ledger, aged, worker>>
      BY <1>4 DEF CheckRetry, ledgerVars
    <2> QED
      BY <2>1, CallFacts, ContinueEffect, QuietCall
  <1>5. ASSUME NEW t \in Task, NEW ids \in SUBSET Task, CheckRepair(c, t, ids)
        PROVE  OrderlyInv'
    <2>1. Continue(c, "repair", t, ids) /\ UNCHANGED <<ledger, aged, worker>>
      BY <1>5 DEF CheckRepair, ledgerVars
    <2> QED
      BY <2>1, CallFacts, ContinueEffect, QuietCall
  <1>6. CASE OpenGate(c) \/ ResumeRun(c) \/ DropCall(c)
    <2>1. EndCall(c) /\ UNCHANGED <<ledger, aged, worker>>
      BY <1>6 DEF OpenGate, ResumeRun, DropCall, ledgerVars
    <2> QED
      BY <2>1, CallFacts, EndCallEffect, QuietCall
  <1>7. CASE ApplyRetry(c)
    BY <1>7, ApplyRetryInv
  <1>8. CASE ReadRepair(c)
    <2> DEFINE t == caller[c].job
    <2>1. /\ UNCHANGED <<ledger, aged, worker>>
          /\ \/ Continue(c, "resume", t, {})
             \/ Continue(c, "write", t, ledger[t].deps \ caller[c].deps)
      BY <1>8 DEF ReadRepair, ledgerVars
    <2>2. t \in Task
      BY <1>8, CallFacts, ServingType DEF ReadRepair, Serving, TypeOK
    <2> HIDE DEF t
    <2>3. NoDependencies => ledger[t].deps \ caller[c].deps = {}
      BY <2>2, CallFacts
    <2> QED
      BY <2>1, <2>3, CallFacts, ContinueEffect, QuietCall
  <1>9. CASE WriteRepair(c)
    BY <1>9, WriteRepairInv
  <1> QED
    BY <1>1, <1>2, <1>3, <1>4, <1>5, <1>6, <1>7, <1>8, <1>9 DEF CallStep

-----------------------------------------------------------------------------
(* The theorems *)

LEMMA OrderlyInit == Init => OrderlyInv
  <1> SUFFICES ASSUME Init
               PROVE  OrderlyInv
    OBVIOUS
  <1>1. TypeOK
    BY InitType
  <1>2. /\ \A w \in Workers : worker[w] = IdleWorker
        /\ \A t \in Task : ledger[t] = NoRow
        /\ \A c \in Callers : caller[c] = NoCall
    BY DEF Init, WorkerInit, LedgerInit
  <1>3. /\ IdleWorker.pc = "idle" /\ IdleWorker.inbox = {} /\ IdleWorker.waiting = {}
        /\ \A t \in Task : IdleWorker.copy[t].deps = {}
        /\ NoRow.deps = {} /\ NoCall.pc = "idle"
    BY DEF IdleWorker, NoRow, NoCall
  <1> QED
    BY <1>1, <1>2, <1>3
    DEF OrderlyInv, HeldRowsAreMarked, Holds, ClosingRowsAreCompleted, Busy, At, BusyAlone,
        BusyWorkersHaveJobs, RetriesAreCurrent, Serving, ListedRowsAreAccepted,
        SweepsListNothing, NothingWaits, WaitingRowsAreListed

LEMMA OrderlyNext ==
  ASSUME Orderly, RetriesDoNotOverlap, OrderlyInv, [Next]_vars
  PROVE  OrderlyInv'
  <1>1. TypeOK'
    BY NextType DEF OrderlyInv
  <1>2. ASSUME NEW w \in Workers, UNCHANGED caller, NEW ids \in Targets,
               NEW recover \in RecoverStaleTasks, StartPass(w, ids, recover)
        PROVE  OrderlyInv'
    BY <1>1, <1>2, WorkerAssumption, StartPassInv
  <1>3. ASSUME NEW w \in Workers, UNCHANGED caller, WorkerStep(w) \/ Crash(w)
        PROVE  OrderlyInv'
    BY <1>1, <1>3, WorkerStepInv DEF Orderly
  <1>4. CASE CallerNext
    BY <1>1, <1>4, CallerNextInv DEF Orderly
  <1>5. ASSUME NEW t \in Task, Age(t)
        PROVE  OrderlyInv'
    <2>1. /\ UNCHANGED <<ledger, worker, caller>>
          /\ OneWorkerPerAgent \/ \A w \in Workers : ~Holds(w, t)
      BY <1>5 DEF Age, GrowStale, Orderly
    <2>2. \A u \in Task : u # t => (aged'[u] <=> aged[u])
      BY <1>5 DEF Age, GrowStale, OrderlyInv, TypeOK, LedgerTypeOK
    <2>3. \A v \in Workers, u \in Task :
            Busy(v, u) => (Status(u) \in StaleRecoverable => OneWorkerPerAgent \/ ~aged'[u])
      <3> SUFFICES ASSUME NEW v \in Workers, NEW u \in Task, Busy(v, u),
                          Status(u) \in StaleRecoverable, ~OneWorkerPerAgent
                   PROVE  ~aged'[u]
        OBVIOUS
      <3>1. Holds(v, u)
        BY DEF OrderlyInv, ClosingRowsAreCompleted, Busy, Holds, At, StaleRecoverable
      <3> QED
        BY <2>1, <2>2, <3>1, BusyFacts DEF StaleRecoverable
    <2>4. RetriesAreCurrent'
      BY <2>1, CallFacts DEF RetriesAreCurrent, Serving, Status
    <2> QED
      BY <1>1, <2>1, <2>3, <2>4, CallFacts, CallerFrame DEF Status, Serving
  <1>6. CASE UNCHANGED vars
    BY <1>1, <1>6 DEF vars, OrderlyInv, HeldRowsAreMarked, Holds, ClosingRowsAreCompleted,
       Busy, At, BusyAlone, BusyWorkersHaveJobs, RetriesAreCurrent, Serving, Status,
       ListedRowsAreAccepted, OneWorkerPerAgent, SweepsListNothing, NothingWaits,
       NoDependencies, WaitingRowsAreListed
  <1> QED
    BY <1>2, <1>3, <1>4, <1>5, <1>6 DEF Next, WorkerNext

LEMMA OrderlySafe == OrderlyInv => SingleExecutor /\ LedgerAgreesWithWorker
  BY DEF OrderlyInv, BusyAlone, Busy, HeldRowsAreMarked, SingleExecutor,
         LedgerAgreesWithWorker, Holds

LEMMA OrderlyInductive ==
  Orderly /\ RetriesDoNotOverlap /\ OrderlyInv /\ [Next]_vars => OrderlyInv'
  BY OrderlyNext

\* What the statements of the store keep true of an orderly deployment: rows of
\* held tasks are marked, fresh and held once, checked retries are current, and
\* listed rows are unchanged.
THEOREM OrderlyHolds ==
  ASSUME Orderly
  PROVE  Spec /\ []RetriesDoNotOverlap => []OrderlyInv
  <1>1. OrderlyInv /\ RetriesDoNotOverlap /\ [Next]_vars => OrderlyInv'
    BY OrderlyInductive
  <1> QED
    BY <1>1, OrderlyInit, PTL DEF Spec

\* For any number of tasks, agents and workers: in an orderly deployment no
\* task is run by two workers at once.
THEOREM OneExecutor ==
  ASSUME Orderly
  PROVE  Spec /\ []RetriesDoNotOverlap => []SingleExecutor
  <1>1. OrderlyInv /\ RetriesDoNotOverlap /\ [Next]_vars => OrderlyInv'
    BY OrderlyInductive
  <1> QED
    BY <1>1, OrderlyInit, OrderlySafe, PTL DEF Spec

\* ... and the row of every task that is being run says so, in the name of
\* the agent whose worker runs it.
THEOREM LedgerNamesTheWorker ==
  ASSUME Orderly
  PROVE  Spec /\ []RetriesDoNotOverlap => []LedgerAgreesWithWorker
  <1>1. OrderlyInv /\ RetriesDoNotOverlap /\ [Next]_vars => OrderlyInv'
    BY OrderlyInductive
  <1> QED
    BY <1>1, OrderlyInit, OrderlySafe, PTL DEF Spec

-----------------------------------------------------------------------------
(***************************************************************************)
(* What re-opens a stopped task, where retries may overlap.  The handler   *)
(* of a retry checks a status it read before it writes, so a second one    *)
(* may put a task back that is claimed by now or completed, and OrderlyInv *)
(* fails.  That nothing else takes a task out of blocked, failed or        *)
(* canceled is left: with one worker for an agent, whatever a worker has   *)
(* listed or taken is neither of them.                                     *)
(***************************************************************************)

\* What the locals of a worker of agent a say of the rows.
OwnRows(state, a, rows) ==
    /\ state.waiting \subseteq state.inbox
    /\ state.pc \in {"idle", "recover", "block", "escalate", "list"} => state.inbox = {}
    /\ \A t \in state.inbox : rows[t].status = "accepted" /\ Recipient[t] = a
    /\ state.pc \in {"claimed", "executing", "closing"} =>
         /\ state.job \in Task
         /\ rows[state.job].status \notin Retriable
         /\ Recipient[state.job] = a
         /\ state.job \notin state.inbox

ReopenInv == TypeOK /\ \A w \in Workers : OwnRows(worker[w], WorkerAgent[w], ledger)

\* A worker takes only rows of its own agent further, and none that is stopped.
MovesOwnRows(w) ==
    \A t \in Task : ledger'[t].status # ledger[t].status =>
        Recipient[t] = WorkerAgent[w] /\ Status(t) \notin Retriable

LEMMA OwnFrame ==
  ASSUME OneWorkerPerAgent, ReopenInv, TypeOK', NEW w \in Workers, NEW state,
         Become(w, state), OwnRows(state, WorkerAgent[w], ledger'), MovesOwnRows(w)
  PROVE  ReopenInv'
<1>1. worker'[w] = state /\ \A v \in Workers : v # w => worker'[v] = worker[v]
  BY DEF Become, ReopenInv, TypeOK, WorkerTypeOK
<1>2. ASSUME NEW v \in Workers, v # w
      PROVE  OwnRows(worker[v], WorkerAgent[v], ledger')
  <2>1. WorkerAgent[v] # WorkerAgent[w]
    BY <1>2 DEF OneWorkerPerAgent
  <2>2. \A t \in Task : Recipient[t] = WorkerAgent[v] => ledger'[t].status = ledger[t].status
    BY <2>1 DEF MovesOwnRows
  <2>3. worker[v].inbox \subseteq Task
    BY DEF ReopenInv, TypeOK, WorkerTypeOK, WorkerState
  <2> QED
    BY <2>2, <2>3 DEF ReopenInv, OwnRows
<1> QED
  BY <1>1, <1>2 DEF ReopenInv

LEMMA OwnFacts ==
  ASSUME ReopenInv, NEW w \in Workers
  PROVE  /\ ledger \in [Task -> Row] /\ worker[w] \in WorkerState
         /\ worker[w].inbox \subseteq Task
         /\ OwnRows(worker[w], WorkerAgent[w], ledger)
  BY DEF ReopenInv, TypeOK, LedgerTypeOK, WorkerTypeOK, WorkerState

LEMMA RowsAtRest == UNCHANGED ledger => \A w \in Workers : MovesOwnRows(w)
  BY DEF MovesOwnRows

LEMMA EndRunOwns == \A a : OwnRows(IdleWorker, a, ledger')
  BY DEF OwnRows, IdleWorker

\* A step that moves the worker on and leaves it without listed rows.
LEMMA GotoOwns ==
  ASSUME ReopenInv, NEW w \in Workers, worker[w].inbox = {},
         NEW label, label \notin {"claimed", "executing", "closing"}
  PROVE  OwnRows([worker[w] EXCEPT !.pc = label], WorkerAgent[w], ledger')
<1> DEFINE state == [worker[w] EXCEPT !.pc = label]
<1>1. state.pc = label /\ state.inbox = worker[w].inbox /\ state.waiting = worker[w].waiting
  BY OwnFacts DEF WorkerState
<1> HIDE DEF state
<1> QED
  BY <1>1, OwnFacts DEF OwnRows

LEMMA HandledOwns ==
  ASSUME ReopenInv, NEW w \in Workers, NEW t \in Task
  PROVE  /\ Handled(w, t) \in WorkerState
         /\ Handled(w, t).pc = worker[w].pc
         /\ Handled(w, t).inbox = worker[w].inbox \ {t}
         /\ Handled(w, t).waiting = worker[w].waiting \ {t}
<1>1. Handled(w, t) \in WorkerState
  BY HandledType DEF ReopenInv, TypeOK
<1>2. \A q \in WorkerState : \A c :
        LET p == [q EXCEPT !.inbox = @ \ {t}, !.waiting = @ \ {t}, !.copy = c] IN
        p.pc = q.pc /\ p.inbox = q.inbox \ {t} /\ p.waiting = q.waiting \ {t}
  BY DEF WorkerState
<1> QED
  BY <1>1, <1>2, OwnFacts DEF Handled

\* The steps that only read.
LEMMA ReadsOwn ==
  ASSUME OneWorkerPerAgent, ReopenInv, TypeOK', NEW w \in Workers, UNCHANGED ledger,
         \/ \E ids \in Targets, recover \in RecoverStaleTasks : StartPass(w, ids, recover)
         \/ \E t \in Task : ReadTarget(w, t) \/ SkipUnclaimable(w, t)
         \/ TargetsRead(w) \/ ParkRun(w) \/ ListInbox(w) \/ Snapshot(w)
         \/ EndPass(w) \/ CloseTask(w) \/ Crash(w)
  PROVE  ReopenInv'
<1> DEFINE Owned(state) == OwnRows(state, WorkerAgent[w], ledger)
<1>0. /\ worker[w] \in WorkerState /\ worker[w].inbox \subseteq Task
      /\ Owned(worker[w])
  BY OwnFacts
<1>1. ASSUME NEW state, Become(w, state), Owned(state) PROVE ReopenInv'
  BY <1>1, OwnFrame, RowsAtRest
<1>2. CASE EndRun(w)
  BY <1>1, <1>2, EndRunOwns DEF EndRun
<1>3. ASSUME NEW ids, NEW recover, StartPass(w, ids, recover) PROVE ReopenInv'
  <2> DEFINE label == IF ids # {} THEN "target" ELSE IF recover THEN "recover" ELSE "block"
             named == ids # {}
             state == [worker[w] EXCEPT !.targeted = named, !.unread = ids, !.pc = label]
  <2>1. label \in {"target", "recover", "block"}
    OBVIOUS
  <2>2. Become(w, state) /\ worker[w].pc = "idle"
    BY <1>3 DEF StartPass, At
  <2> HIDE DEF label, named
  <2>3. /\ state.pc = label /\ state.inbox = worker[w].inbox
        /\ state.waiting = worker[w].waiting
    BY <1>0 DEF WorkerState
  <2> HIDE DEF state
  <2>4. Owned(state)
    BY <1>0, <2>1, <2>2, <2>3 DEF OwnRows
  <2> QED
    BY <1>1, <2>2, <2>4
<1>4. ASSUME NEW t \in Task, ReadTarget(w, t) PROVE ReopenInv'
  <2> DEFINE s1 == [worker[w] EXCEPT !.unread = @ \ {t}]
             s2 == [worker[w] EXCEPT !.unread = @ \ {t}, !.inbox = @ \cup {t},
                                     !.copy = [@ EXCEPT ![t] = ledger[t]]]
  <2>1. worker[w].pc = "target"
    BY <1>4 DEF ReadTarget, At
  <2>2. \/ Become(w, s1)
        \/ t \in AcceptedInbox(WorkerAgent[w]) /\ Become(w, s2)
    BY <1>4 DEF ReadTarget
  <2>3. /\ s1.pc = "target" /\ s1.inbox = worker[w].inbox /\ s1.waiting = worker[w].waiting
        /\ s2.pc = "target" /\ s2.inbox = worker[w].inbox \cup {t}
        /\ s2.waiting = worker[w].waiting
    BY <1>0, <2>1 DEF WorkerState
  <2> HIDE DEF s1, s2
  <2>4. Owned(s1)
    BY <1>0, <2>3 DEF OwnRows
  <2>5. t \in AcceptedInbox(WorkerAgent[w]) => Owned(s2)
    BY <1>0, <2>3 DEF OwnRows, AcceptedInbox, Status
  <2> QED
    BY <1>1, <2>2, <2>4, <2>5
<1>5. ASSUME NEW t \in Task, SkipUnclaimable(w, t) PROVE ReopenInv'
  <2>1. Become(w, Handled(w, t)) /\ worker[w].pc = "next"
    BY <1>5 DEF SkipUnclaimable, IsNext, At
  <2>2. Owned(Handled(w, t))
    BY <1>0, <2>1, HandledOwns DEF OwnRows
  <2> QED
    BY <1>1, <2>1, <2>2
<1>6. CASE TargetsRead(w)
  <2> DEFINE state == [worker[w] EXCEPT !.pc = "snapshot"]
  <2>1. state.pc = "snapshot" /\ state.inbox = worker[w].inbox /\ state.waiting = worker[w].waiting
    BY <1>0 DEF WorkerState
  <2>2. EndRun(w) \/ Become(w, state)
    BY <1>6 DEF TargetsRead, Goto
  <2> HIDE DEF state
  <2>3. Owned(state)
    BY <1>0, <2>1 DEF OwnRows
  <2> QED
    BY <1>1, <1>2, <2>2, <2>3
<1>7. CASE ParkRun(w)
  <2>1. /\ worker[w].inbox = {}
        /\ Become(w, [worker[w] EXCEPT !.pc = "list"])
    BY <1>0, <1>7 DEF ParkRun, At, Goto, OwnRows
  <2>2. Owned([worker[w] EXCEPT !.pc = "list"])
    BY <2>1, GotoOwns
  <2> QED
    BY <1>1, <2>1, <2>2
<1>8. CASE ListInbox(w)
  <2> DEFINE batch == Oldest(AcceptedInbox(WorkerAgent[w]), BatchLimit)
             rows == [t \in Task |-> IF t \in batch THEN ledger[t] ELSE NoRow]
             state == [worker[w] EXCEPT !.inbox = batch, !.copy = rows, !.pc = "snapshot"]
  <2>1. \A t \in batch : Status(t) = "accepted" /\ Recipient[t] = WorkerAgent[w]
    BY DEF Oldest, AcceptedInbox
  <2>2. worker[w].waiting = {}
    BY <1>0, <1>8 DEF ListInbox, At, OwnRows
  <2>3. EndRun(w) \/ Become(w, state)
    BY <1>8 DEF ListInbox
  <2> HIDE DEF batch, rows
  <2>4. state.pc = "snapshot" /\ state.inbox = batch /\ state.waiting = {}
    BY <1>0, <2>2 DEF WorkerState
  <2> HIDE DEF state
  <2>5. Owned(state)
    BY <2>1, <2>4 DEF OwnRows, Status
  <2> QED
    BY <1>1, <1>2, <2>3, <2>5
<1>9. CASE Snapshot(w)
  <2> DEFINE unmet == {t \in worker[w].inbox : Unmet(worker[w].copy[t]) # {}}
             rows == [t \in Task |-> IF t \in unmet THEN worker[w].copy[t] ELSE NoRow]
             state == [worker[w] EXCEPT !.waiting = unmet, !.copy = rows, !.pc = "next"]
  <2>1. unmet \subseteq worker[w].inbox
    OBVIOUS
  <2>2. Become(w, state)
    BY <1>9 DEF Snapshot
  <2> HIDE DEF unmet, rows
  <2>3. state.pc = "next" /\ state.inbox = worker[w].inbox /\ state.waiting = unmet
    BY <1>0 DEF WorkerState
  <2> HIDE DEF state
  <2>4. Owned(state)
    BY <1>0, <2>1, <2>3 DEF OwnRows
  <2> QED
    BY <1>1, <2>2, <2>4
<1>10. CASE EndPass(w) \/ Crash(w)
  BY <1>2, <1>10 DEF EndPass, Crash
<1>11. CASE CloseTask(w)
  <2> DEFINE state == [worker[w] EXCEPT !.pc = "next", !.job = NoTask]
  <2>1. state.pc = "next" /\ state.inbox = worker[w].inbox /\ state.waiting = worker[w].waiting
    BY <1>0 DEF WorkerState
  <2>2. Become(w, state)
    BY <1>11 DEF CloseTask, NextMessage
  <2> HIDE DEF state
  <2>3. Owned(state)
    BY <1>0, <2>1 DEF OwnRows
  <2> QED
    BY <1>1, <2>2, <2>3
<1> QED
  BY <1>3, <1>4, <1>5, <1>6, <1>7, <1>8, <1>9, <1>10, <1>11

\* The sweeps: recovery takes what is claimed or in progress, exhaustion what is
\* accepted.
LEMMA SweepsOwn ==
  ASSUME OneWorkerPerAgent, ReopenInv, TypeOK', NEW w \in Workers,
         RecoverStale(w) \/ BlockExhausted(w)
  PROVE  MovesOwnRows(w) /\ ReopenInv'
<1>0. worker[w].inbox = {} /\ ledger \in [Task -> Row]
  BY OwnFacts DEF OwnRows, RecoverStale, BlockExhausted, At
<1>1. MovesOwnRows(w)
  <2>1. CASE RecoverStale(w)
    <3>1. PICK S \in Batches(StaleTasks(WorkerAgent[w])) : RecoverStaleAgentMessages(S)
      BY <2>1 DEF RecoverStale
    <3>2. /\ S \in SUBSET Task
          /\ \A t \in S : Recipient[t] = WorkerAgent[w] /\ Status(t) \in StaleRecoverable
      BY DEF Batches, StaleTasks
    <3> QED
      BY <1>0, <3>1, <3>2, RecoverEffect DEF MovesOwnRows, Untouched, StaleRecoverable, Retriable
  <2>2. CASE BlockExhausted(w)
    <3>1. PICK S \in Batches(ExhaustedTasks(WorkerAgent[w])) : BlockExhaustedAgentMessages(S)
      BY <2>2 DEF BlockExhausted
    <3>2. /\ S \in SUBSET Task
          /\ \A t \in S : Recipient[t] = WorkerAgent[w] /\ Status(t) = "accepted"
      BY DEF Batches, ExhaustedTasks, AcceptedInbox
    <3> QED
      BY <1>0, <3>1, <3>2, BlockEffect DEF MovesOwnRows, Untouched, Retriable
  <2> QED
    BY <2>1, <2>2
<1>2. PICK label \in {"block", "list", "escalate"} : Become(w, [worker[w] EXCEPT !.pc = label])
  BY DEF RecoverStale, BlockExhausted, Goto
<1>3. OwnRows([worker[w] EXCEPT !.pc = label], WorkerAgent[w], ledger')
  BY <1>0, GotoOwns
<1> QED
  BY <1>1, <1>2, <1>3, OwnFrame

\* The write-back of a listed row, and the claim of one.
LEMMA ListedOwns ==
  ASSUME OneWorkerPerAgent, ReopenInv, TypeOK', NEW w \in Workers, NEW t \in Task,
         WaitOnDependencies(w, t) \/ Claim(w, t)
  PROVE  MovesOwnRows(w) /\ ReopenInv'
<1>0. /\ t \in worker[w].inbox /\ worker[w].pc = "next"
      /\ ledger \in [Task -> Row] /\ worker[w].inbox \subseteq Task
      /\ OwnRows(worker[w], WorkerAgent[w], ledger)
  BY OwnFacts DEF WaitOnDependencies, Claim, IsNext, At
<1>1. Status(t) = "accepted" /\ Recipient[t] = WorkerAgent[w]
  BY <1>0 DEF OwnRows, Status
<1>2. \A u \in Task : u # t => ledger'[u] = ledger[u]
  BY <1>0, RecordEffect, ClaimEffect DEF WaitOnDependencies, Claim, Untouched
<1>3. MovesOwnRows(w)
  BY <1>1, <1>2 DEF MovesOwnRows, Retriable
<1>4. CASE WaitOnDependencies(w, t)
  <2>1. OwnRows(Handled(w, t), WorkerAgent[w], ledger')
    BY <1>0, <1>2, HandledOwns DEF OwnRows
  <2> QED
    BY <1>3, <1>4, <2>1, OwnFrame DEF WaitOnDependencies
<1>5. CASE Claim(w, t)
  <2> DEFINE state == [Handled(w, t) EXCEPT !.pc = "claimed", !.job = t]
  <2>1. /\ state.pc = "claimed" /\ state.job = t
        /\ state.inbox = worker[w].inbox \ {t} /\ state.waiting = worker[w].waiting \ {t}
    <3>1. \A s \in WorkerState :
            LET r == [s EXCEPT !.pc = "claimed", !.job = t] IN
            r.pc = "claimed" /\ r.job = t /\ r.inbox = s.inbox /\ r.waiting = s.waiting
      BY DEF WorkerState
    <3> QED
      BY <3>1, HandledOwns
  <2>2. Become(w, state) /\ TryClaimAgentMessage(t, WorkerAgent[w])
    BY <1>5 DEF Claim
  <2> HIDE DEF state
  <2>3. ledger'[t].status = "claimed"
    BY <1>0, <2>2, ClaimEffect
  <2>4. OwnRows(state, WorkerAgent[w], ledger')
    BY <1>0, <1>1, <1>2, <2>1, <2>3 DEF OwnRows, Retriable
  <2> QED
    BY <1>3, <2>2, <2>4, OwnFrame
<1> QED
  BY <1>4, <1>5

\* The writes of a worker into the row of its task.
LEMMA JobOwns ==
  ASSUME OneWorkerPerAgent, ReopenInv, TypeOK', NEW w \in Workers,
         BeginTask(w) \/ CompleteTask(w) \/ FailTask(w)
  PROVE  MovesOwnRows(w) /\ ReopenInv'
<1> DEFINE job == worker[w].job
<1>0. /\ worker[w].pc \in {"claimed", "executing", "closing"}
      /\ ledger \in [Task -> Row] /\ worker[w] \in WorkerState
      /\ worker[w].inbox \subseteq Task
      /\ OwnRows(worker[w], WorkerAgent[w], ledger)
  BY OwnFacts DEF BeginTask, CompleteTask, FailTask, At
<1>1. /\ job \in Task /\ Status(job) \notin Retriable
      /\ Recipient[job] = WorkerAgent[w] /\ job \notin worker[w].inbox
  BY <1>0 DEF OwnRows, Status
<1>2. PICK s \in {"in_progress", "completed", "failed"} :
        /\ UpdateAgentMessageStatus(job, s, WorkerAgent[w])
        /\ s = "failed" <=> FailTask(w)
  BY DEF BeginTask, CompleteTask, FailTask, SetStatus, At
<1>3. \A u \in Task : IF u = job THEN ledger'[u].status = s ELSE ledger'[u] = ledger[u]
  BY <1>0, <1>1, <1>2, StatusEffect DEF Untouched
<1>4. MovesOwnRows(w)
  BY <1>1, <1>3 DEF MovesOwnRows
<1>5. \A u \in worker[w].inbox : ledger'[u] = ledger[u]
  BY <1>0, <1>1, <1>3
<1>6. CASE FailTask(w)
  <2> DEFINE state == [worker[w] EXCEPT !.pc = "next", !.job = NoTask]
  <2>1. state.pc = "next" /\ state.inbox = worker[w].inbox /\ state.waiting = worker[w].waiting
    BY <1>0 DEF WorkerState
  <2>2. Become(w, state)
    BY <1>6 DEF FailTask, NextMessage
  <2> HIDE DEF state
  <2>3. OwnRows(state, WorkerAgent[w], ledger')
    BY <1>0, <1>5, <2>1 DEF OwnRows
  <2> QED
    BY <1>4, <2>2, <2>3, OwnFrame
<1>7. CASE ~FailTask(w)
  <2>1. PICK label \in {"executing", "closing"} : Become(w, [worker[w] EXCEPT !.pc = label])
    BY <1>7 DEF BeginTask, CompleteTask, Goto
  <2> DEFINE state == [worker[w] EXCEPT !.pc = label]
  <2>2. /\ state.pc = label /\ state.inbox = worker[w].inbox
        /\ state.waiting = worker[w].waiting /\ state.job = job
    BY <1>0 DEF WorkerState
  <2> HIDE DEF state
  <2>3. s \notin Retriable
    BY <1>2, <1>7 DEF Retriable
  <2>4. OwnRows(state, WorkerAgent[w], ledger')
    <3> HIDE DEF job
    <3>1. ledger'[job].status \notin Retriable
      BY <1>1, <1>3, <2>3
    <3> QED
      BY <1>0, <1>1, <1>5, <2>2, <3>1 DEF OwnRows
  <2>5. Become(w, state)
    BY <2>1 DEF state
  <2> QED
    BY <1>4, <2>4, <2>5, OwnFrame
<1> QED
  BY <1>6, <1>7

LEMMA WorkersOwn ==
  ASSUME OneWorkerPerAgent, ReopenInv, TypeOK', NEW w \in Workers,
         \/ \E ids \in Targets, recover \in RecoverStaleTasks : StartPass(w, ids, recover)
         \/ WorkerStep(w)
         \/ Crash(w)
  PROVE  MovesOwnRows(w) /\ ReopenInv'
<1>1. CASE \/ \E ids \in Targets, recover \in RecoverStaleTasks : StartPass(w, ids, recover)
           \/ \E t \in Task : ReadTarget(w, t) \/ SkipUnclaimable(w, t)
           \/ TargetsRead(w) \/ ParkRun(w) \/ ListInbox(w) \/ Snapshot(w)
           \/ EndPass(w) \/ CloseTask(w) \/ Crash(w)
  <2>1. UNCHANGED ledger
    BY <1>1 DEF StartPass, ReadTarget, SkipUnclaimable, TargetsRead, ParkRun, ListInbox,
                Snapshot, EndPass, CloseTask, Crash, ledgerVars
  <2> QED
    BY <1>1, <2>1, ReadsOwn, RowsAtRest
<1>2. CASE RecoverStale(w) \/ BlockExhausted(w)
  BY <1>2, SweepsOwn
<1>3. CASE \E t \in Task : WaitOnDependencies(w, t) \/ Claim(w, t)
  BY <1>3, ListedOwns
<1>4. CASE BeginTask(w) \/ CompleteTask(w) \/ FailTask(w)
  BY <1>4, JobOwns
<1> QED
  BY <1>1, <1>2, <1>3, <1>4 DEF WorkerStep

\* A call moves rows to accepted only: new ones, and those it retries.
CallsOpenRows ==
    \A t \in Task : ledger'[t].status # ledger[t].status =>
        /\ ledger'[t].status = "accepted"
        /\ \/ Status(t) = "absent"
           \/ \E c \in Callers : Serving(c, "retry") /\ caller[c].job = t

LEMMA CallsOpen ==
  ASSUME ReopenInv, Endpoints \subseteq {"send", "retry", "repair"}, CallerNext
  PROVE  CallsOpenRows /\ UNCHANGED worker
<1>0. ledger \in [Task -> Row] /\ TypeOK
  BY DEF ReopenInv, TypeOK, LedgerTypeOK
<1>1. PICK c \in Callers :
        \/ \E u \in Task : Send(c, u)
        \/ \E u \in Task, s \in TaskStatus \ {"absent"}, a \in Agents : PostStatus(c, u, s, a)
        \/ \E u \in Task : CheckRetry(c, u)
        \/ \E u \in Task, ids \in SUBSET Task : CheckRepair(c, u, ids)
        \/ CallStep(c)
        \/ DropCall(c)
  BY DEF CallerNext
<1>2. ASSUME NEW u \in Task, Send(c, u) PROVE CallsOpenRows /\ UNCHANGED worker
  <2>1. /\ Status(u) = "absent" /\ RecordAgentMessage(u, NewMessage(u))
        /\ UNCHANGED worker
    BY <1>2 DEF Send, Idle
  <2>2. NewMessage(u).status = "accepted"
    BY DEF NewMessage, NoRow
  <2> QED
    BY <1>0, <2>1, <2>2, RecordEffect DEF CallsOpenRows, Untouched
<1>3. ASSUME NEW u, NEW s, NEW a, PostStatus(c, u, s, a)
      PROVE  FALSE
  BY <1>3 DEF PostStatus, Idle
<1>4. CASE ApplyRetry(c)
  <2>1. /\ Serving(c, "retry") /\ UNCHANGED worker
        /\ \E reset \in BOOLEAN, max \in 1 .. MaxAttempts :
             AuthorizeAgentMessageRetry(caller[c].job, reset, max)
    BY <1>4 DEF ApplyRetry
  <2>2. caller[c].job \in Task
    BY <1>0, <2>1, ServingType DEF Serving
  <2>3. \A u \in Task : IF u = caller[c].job THEN ledger'[u].status = "accepted"
                                             ELSE ledger'[u] = ledger[u]
    BY <1>0, <2>1, <2>2, RetryEffect DEF Untouched
  <2> QED
    BY <2>1, <2>3 DEF CallsOpenRows
<1>5. CASE WriteRepair(c)
  <2>1. caller[c].job \in Task
    BY <1>0, <1>5, ServingType DEF WriteRepair, Serving
  <2> QED
    BY <1>0, <1>5, <2>1, RepairEffect DEF WriteRepair, Untouched, CallsOpenRows
<1>6. CASE \/ \E u \in Task : CheckRetry(c, u)
           \/ \E u \in Task, ids \in SUBSET Task : CheckRepair(c, u, ids)
           \/ OpenGate(c) \/ ResumeRun(c) \/ ReadRepair(c) \/ DropCall(c)
  BY <1>6
  DEF CheckRetry, CheckRepair, OpenGate, ResumeRun, ReadRepair, DropCall, ledgerVars, CallsOpenRows
<1> QED
  BY <1>1, <1>2, <1>3, <1>4, <1>5, <1>6 DEF CallStep

\* Rows that are opened disturb no worker.
LEMMA OpenedRowsOwn ==
  ASSUME ReopenInv, TypeOK', UNCHANGED worker,
         \A t \in Task : ledger'[t].status # ledger[t].status => ledger'[t].status = "accepted"
  PROVE  ReopenInv'
<1> SUFFICES ASSUME NEW w \in Workers
             PROVE  OwnRows(worker[w], WorkerAgent[w], ledger')
  BY DEF ReopenInv
<1>1. \A t \in Task : ledger'[t].status \in {ledger[t].status, "accepted"}
  OBVIOUS
<1> QED
  BY <1>1, OwnFacts DEF OwnRows, Retriable

LEMMA ReopenNext ==
  ASSUME OneWorkerPerAgent, Endpoints \subseteq {"send", "retry", "repair"},
         ReopenInv, [Next]_vars
  PROVE  /\ ReopenInv'
         /\ \A t \in Task : Status(t) \in Retriable /\ Status(t)' \notin Retriable =>
              \E c \in Callers : Serving(c, "retry") /\ caller[c].job = t
<1>0. TypeOK'
  BY NextType DEF ReopenInv
<1>1. CASE WorkerNext
  <2>1. PICK w \in Workers : MovesOwnRows(w) /\ ReopenInv'
    BY <1>0, <1>1, WorkersOwn DEF WorkerNext
  <2> QED
    BY <2>1 DEF MovesOwnRows, Status
<1>2. CASE CallerNext
  <2>1. CallsOpenRows /\ UNCHANGED worker
    BY <1>2, CallsOpen
  <2>2. ReopenInv'
    BY <1>0, <2>1, OpenedRowsOwn DEF CallsOpenRows
  <2> QED
    BY <2>1, <2>2 DEF CallsOpenRows, Status, Retriable
<1>3. CASE (\E t \in Task : Age(t)) \/ UNCHANGED vars
  <2>1. UNCHANGED <<ledger, worker>>
    BY <1>3 DEF Age, GrowStale, vars
  <2> QED
    BY <1>0, <2>1, OpenedRowsOwn DEF Status
<1> QED
  BY <1>1, <1>2, <1>3 DEF Next

\* With one worker for an agent, and for any number of retries and repairs that
\* overlap, die half way and hit the same task: a task that was blocked, failed or
\* canceled is set going again by a retry and by nothing else.
THEOREM RetriesAloneReopen ==
  ASSUME OneWorkerPerAgent, Endpoints \subseteq {"send", "retry", "repair"}
  PROVE  Spec => OnlyRetriesReopen
<1>1. Init => ReopenInv
  BY InitType DEF Init, WorkerInit, IdleWorker, ReopenInv, OwnRows
<1>2. ReopenInv /\ [Next]_vars => ReopenInv'
  BY ReopenNext
<1>3. ReopenInv /\ [Next]_vars =>
        [\A t \in Task : Status(t) \in Retriable /\ Status(t)' \notin Retriable =>
             \E c \in Callers : Serving(c, "retry") /\ caller[c].job = t]_vars
  BY ReopenNext
<1> QED
  BY <1>1, <1>2, <1>3, PTL DEF Spec, OnlyRetriesReopen

-----------------------------------------------------------------------------
(* Attempts *)

\* A write loses no attempt and deletes no row, and it counts no attempt on a
\* task that stays open.
Counts(old, new) ==
    /\ new.attempts >= old.attempts
    /\ old.status = "accepted" /\ new.status = "accepted" => new.attempts = old.attempts
    /\ new.status = "absent" => old.status = "absent" /\ new.attempts = old.attempts

AbsentRowsAreFresh == \A t \in Task : Status(t) = "absent" => ledger[t].attempts = 0

RowsCount == \A t \in Task : Counts(ledger[t], ledger'[t])

LEMMA UpdatesCount ==
  ASSUME ledger \in [Task -> Row], NEW rows, UpdateRows(rows),
         \A u \in DOMAIN rows : Counts(ledger[u], rows[u])
  PROVE  RowsCount
<1>1. \A r \in Row : Counts(r, r)
  BY LedgerAssumption DEF Counts, Row
<1>2. \A u \in Task : ledger'[u] = IF u \in DOMAIN rows THEN rows[u] ELSE ledger[u]
  BY DEF UpdateRows
<1>3. ASSUME NEW u \in Task PROVE Counts(ledger[u], ledger'[u])
  BY <1>1, <1>2
<1> QED
  BY <1>3 DEF RowsCount

LEMMA StatementsCount ==
  ASSUME ledger \in [Task -> Row]
  PROVE  /\ \A S \in SUBSET Task : RecoverStaleAgentMessages(S) => RowsCount
         /\ \A S \in SUBSET Task : BlockExhaustedAgentMessages(S) => RowsCount
         /\ \A t \in Task : \A a : TryClaimAgentMessage(t, a) => RowsCount
         /\ \A t \in Task : \A s, a :
              s # "absent" /\ UpdateAgentMessageStatus(t, s, a) => RowsCount
         /\ \A t \in Task : \A ids : WriteRemainingDependencies(t, ids) => RowsCount
<1>1. \A r \in Row : \A s, a : s # "absent" =>
        Counts(r, [r EXCEPT !.status = s, !.claimedBy = a])
  BY LedgerAssumption DEF Counts, Row
<1>2. \A r \in Row : \A a :
        Counts(r, [r EXCEPT !.status = "claimed", !.claimedBy = a, !.attempts = @ + 1])
  BY LedgerAssumption DEF Counts, Row
<1>3. \A r \in Row : \A ids, a : Counts(r, [r EXCEPT !.deps = ids, !.claimedBy = a])
  BY LedgerAssumption DEF Counts, Row
<1>4. ASSUME NEW S \in SUBSET Task, RecoverStaleAgentMessages(S)
      PROVE  RowsCount
  <2> DEFINE rows == [u \in S |-> [ledger[u] EXCEPT !.status = "accepted", !.claimedBy = NoAgent]]
  <2>1. UpdateRows(rows)
    BY <1>4 DEF RecoverStaleAgentMessages
  <2>2. \A u \in S : ledger[u] \in Row
    OBVIOUS
  <2>3. \A u \in DOMAIN rows : Counts(ledger[u], rows[u])
    BY <1>4, <1>1, <2>2
  <2> HIDE DEF rows
  <2> QED
    BY <2>1, <2>3, UpdatesCount
<1>5. ASSUME NEW S \in SUBSET Task, BlockExhaustedAgentMessages(S)
      PROVE  RowsCount
  <2> DEFINE rows == [u \in S |->
                    [ledger[u] EXCEPT !.status = "blocked",
                                      !.claimedBy = ClaimantOr(u, Recipient[u])]]
  <2>1. UpdateRows(rows)
    BY <1>5 DEF BlockExhaustedAgentMessages
  <2>2. \A u \in S : ledger[u] \in Row
    OBVIOUS
  <2>3. \A u \in DOMAIN rows : Counts(ledger[u], rows[u])
    BY <1>5, <1>1, <2>2
  <2> HIDE DEF rows
  <2> QED
    BY <2>1, <2>3, UpdatesCount
<1>6. ASSUME NEW t \in Task, NEW a, TryClaimAgentMessage(t, a)
      PROVE  RowsCount
  <2> DEFINE rows == [u \in {t} |->
                    [ledger[u] EXCEPT !.status = "claimed", !.claimedBy = a,
                                      !.attempts = @ + 1]]
  <2>1. UpdateRows(rows)
    BY <1>6 DEF TryClaimAgentMessage
  <2>2. \A u \in {t} : ledger[u] \in Row
    OBVIOUS
  <2>3. \A u \in DOMAIN rows : Counts(ledger[u], rows[u])
    BY <1>6, <1>2, <2>2
  <2> HIDE DEF rows
  <2> QED
    BY <2>1, <2>3, UpdatesCount
<1>7. ASSUME NEW t \in Task, NEW s, NEW a, s # "absent",
             UpdateAgentMessageStatus(t, s, a)
      PROVE  RowsCount
  <2> DEFINE rows == [u \in {t} |->
                    [ledger[u] EXCEPT !.status = s, !.claimedBy = ClaimantOr(u, a)]]
  <2>1. UpdateRows(rows)
    BY <1>7 DEF UpdateAgentMessageStatus
  <2>2. \A u \in {t} : ledger[u] \in Row
    OBVIOUS
  <2>3. \A u \in DOMAIN rows : Counts(ledger[u], rows[u])
    BY <1>7, <1>1, <2>2
  <2> HIDE DEF rows
  <2> QED
    BY <2>1, <2>3, UpdatesCount
<1>8. ASSUME NEW t \in Task, NEW ids, WriteRemainingDependencies(t, ids)
      PROVE  RowsCount
  <2> DEFINE rows == [u \in {t} |->
                    [ledger[u] EXCEPT
                       !.deps = ids,
                       !.claimedBy = IF Status(u) = "accepted" THEN NoAgent ELSE @]]
  <2>1. UpdateRows(rows)
    BY <1>8 DEF WriteRemainingDependencies
  <2>2. \A u \in {t} : ledger[u] \in Row
    OBVIOUS
  <2>3. \A u \in DOMAIN rows : Counts(ledger[u], rows[u])
    BY <1>8, <1>3, <2>2
  <2> HIDE DEF rows
  <2> QED
    BY <2>1, <2>3, UpdatesCount
<1> QED
  BY <1>4, <1>5, <1>6, <1>7, <1>8

LEMMA SameRowsCount == ledger \in [Task -> Row] /\ UNCHANGED ledger => RowsCount
<1> SUFFICES ASSUME ledger \in [Task -> Row], UNCHANGED ledger, NEW t \in Task
             PROVE  Counts(ledger[t], ledger'[t])
  BY DEF RowsCount
<1>1. ledger[t] \in Row
  OBVIOUS
<1> QED
  BY <1>1, LedgerAssumption DEF Counts, Row

-----------------------------------------------------------------------------
(***************************************************************************)
(* How far workers overlap when recovery takes tasks from slow ones.       *)
(* Without dependencies no listed row is written back, so attempts only    *)
(* grow while no retry and no message sent again resets them.              *)
(***************************************************************************)
OnlyGrowing ==
    /\ NoDependencies
    /\ Endpoints \subseteq {"send", "status", "repair"}

Holders(t) == {w \in Workers : Holds(w, t)}

NoDepsAnywhere ==
    /\ \A t \in Task : ledger[t].deps = {}
    /\ \A w \in Workers :
         worker[w].waiting = {} /\ \A t \in Task : worker[w].copy[t].deps = {}
    /\ \A c \in Callers : caller[c].pc \notin {"retry", "repair", "write"}

HoldersAreCounted ==
    \A t \in Task : /\ IsFiniteSet(Holders(t))
                    /\ Cardinality(Holders(t)) <= ledger[t].attempts

OverlapInv == TypeOK /\ NoDepsAnywhere /\ AbsentRowsAreFresh /\ HoldersAreCounted

\* What a step leaves behind that neither lets a task nor counts down.
LEMMA OverlapStays ==
  ASSUME OverlapInv, TypeOK', NoDepsAnywhere', RowsCount,
         \A t \in Task : Holders(t)' \subseteq Holders(t)
  PROVE  OverlapInv'
<1>1. AbsentRowsAreFresh'
  BY DEF OverlapInv, AbsentRowsAreFresh, RowsCount, Counts, Status
<1>2. ASSUME NEW t \in Task
      PROVE  /\ IsFiniteSet(Holders(t)')
             /\ Cardinality(Holders(t)') <= ledger'[t].attempts
  <2>1. IsFiniteSet(Holders(t)) /\ Cardinality(Holders(t)) <= ledger[t].attempts
    BY DEF OverlapInv, HoldersAreCounted
  <2>2. /\ IsFiniteSet(Holders(t)')
        /\ Cardinality(Holders(t)') <= Cardinality(Holders(t))
    BY <2>1, FS_Subset
  <2>3. Cardinality(Holders(t)) \in Nat /\ Cardinality(Holders(t)') \in Nat
    BY <2>1, <2>2, FS_CardinalityType
  <2>4. ledger[t].attempts <= ledger'[t].attempts
    <3>1. ledger[t] \in Row /\ ledger'[t] \in Row
      BY DEF OverlapInv, TypeOK, LedgerTypeOK
    <3>2. ledger'[t].attempts >= ledger[t].attempts
      BY DEF RowsCount, Counts
    <3> QED
      BY <3>1, <3>2, LedgerAssumption DEF Row
  <2>5. ledger[t].attempts \in Nat /\ ledger'[t].attempts \in Nat
    BY LedgerAssumption DEF OverlapInv, TypeOK, LedgerTypeOK, Row
  <2> QED
    BY <2>1, <2>2, <2>3, <2>4, <2>5
<1> QED
  BY <1>1, <1>2 DEF OverlapInv, HoldersAreCounted

\* The same for a worker that goes to state.
LEMMA OverlapWorker ==
  ASSUME OverlapInv, TypeOK', NEW w \in Workers, NEW state \in WorkerState,
         Become(w, state), UNCHANGED caller, RowsCount,
         \A t \in Task : ledger'[t].deps = ledger[t].deps,
         state.waiting = {}, \A t \in Task : state.copy[t].deps = {},
         \A t \in Task : state.job = t /\ state.pc \in {"claimed", "executing"} => Holds(w, t)
  PROVE  OverlapInv'
<1>1. worker'[w] = state /\ \A v \in Workers : v # w => worker'[v] = worker[v]
  BY DEF Become, OverlapInv, TypeOK, WorkerTypeOK
<1>2. NoDepsAnywhere'
  BY <1>1 DEF OverlapInv, NoDepsAnywhere
<1>3. \A t \in Task : Holders(t)' \subseteq Holders(t)
  BY <1>1 DEF Holders, Holds
<1> QED
  BY <1>2, <1>3, OverlapStays

LEMMA OverlapFacts ==
  ASSUME OverlapInv, NEW w \in Workers
  PROVE  /\ ledger \in [Task -> Row]
         /\ worker[w] \in WorkerState
         /\ worker[w].waiting = {}
         /\ \A t \in Task : worker[w].copy[t].deps = {} /\ ledger[t].deps = {}
  BY DEF OverlapInv, TypeOK, LedgerTypeOK, WorkerTypeOK, NoDepsAnywhere

LEMMA OverlapGoto ==
  ASSUME OverlapInv, TypeOK', NEW w \in Workers, NEW label \in PC, Goto(w, label),
         UNCHANGED caller, RowsCount,
         \A t \in Task : ledger'[t].deps = ledger[t].deps,
         label \in {"claimed", "executing"} => worker[w].pc \in {"claimed", "executing"}
  PROVE  OverlapInv'
<1> DEFINE state == [worker[w] EXCEPT !.pc = label]
<1>1. /\ state \in WorkerState /\ state.pc = label /\ state.job = worker[w].job
      /\ state.waiting = worker[w].waiting /\ state.copy = worker[w].copy
  BY OverlapFacts DEF WorkerState
<1>2. Become(w, state)
  BY DEF Goto
<1> HIDE DEF state
<1> QED
  BY <1>1, <1>2, OverlapFacts, OverlapWorker DEF Holds

LEMMA OverlapEndRun ==
  ASSUME OverlapInv, TypeOK', NEW w \in Workers, EndRun(w), UNCHANGED <<ledger, caller>>
  PROVE  OverlapInv'
<1>1. /\ IdleWorker \in WorkerState /\ IdleWorker.pc = "idle" /\ IdleWorker.waiting = {}
      /\ \A t \in Task : IdleWorker.copy[t].deps = {}
  BY IdleType DEF IdleWorker, NoRow
<1>2. RowsCount /\ Become(w, IdleWorker)
  BY SameRowsCount, OverlapFacts DEF EndRun
<1> QED
  BY <1>1, <1>2, OverlapWorker

\* A worker's step that writes nothing.
LEMMA OverlapReads ==
  ASSUME OverlapInv, TypeOK', NEW w \in Workers, UNCHANGED <<ledger, caller>>,
         \/ \E ids \in Targets, recover \in BOOLEAN : StartPass(w, ids, recover)
         \/ \E t \in Task : ReadTarget(w, t) \/ SkipUnclaimable(w, t)
         \/ TargetsRead(w) \/ ParkRun(w) \/ ListInbox(w) \/ Snapshot(w)
         \/ EndPass(w) \/ CloseTask(w) \/ Crash(w)
  PROVE  OverlapInv'
<1>0. RowsCount
  BY SameRowsCount, OverlapFacts
<1>1. CASE \E ids \in Targets, recover \in BOOLEAN : StartPass(w, ids, recover)
  <2>1. PICK ids \in Targets, recover \in BOOLEAN : StartPass(w, ids, recover)
    BY <1>1
  <2> DEFINE label == IF ids # {} THEN "target" ELSE IF recover THEN "recover" ELSE "block"
             state == [worker[w] EXCEPT !.targeted = ids # {}, !.unread = ids, !.pc = label]
  <2>2. ids \in SUBSET Task /\ label \in PC /\ label \notin {"claimed", "executing"}
    BY WorkerAssumption DEF PC
  <2>3. Become(w, state)
    BY <2>1 DEF StartPass
  <2> HIDE DEF label
  <2>4. /\ state \in WorkerState /\ state.pc = label
        /\ state.waiting = worker[w].waiting /\ state.copy = worker[w].copy
    BY <2>2, OverlapFacts DEF WorkerState
  <2> HIDE DEF state
  <2> QED
    BY <1>0, <2>2, <2>3, <2>4, OverlapFacts, OverlapWorker
<1>2. ASSUME NEW t \in Task, ReadTarget(w, t) PROVE OverlapInv'
  <2>1. ledger[t] \in Row /\ worker[w] \in WorkerState /\ At(w, "target")
    BY <1>2, OverlapFacts DEF ReadTarget
  <2> DEFINE s1 == [worker[w] EXCEPT !.unread = @ \ {t}, !.inbox = @ \cup {t},
                                     !.copy = [@ EXCEPT ![t] = ledger[t]]]
             s2 == [worker[w] EXCEPT !.unread = @ \ {t}]
  <2>2. /\ s1 \in WorkerState /\ s1.pc = "target" /\ s1.waiting = worker[w].waiting
        /\ \A u \in Task : s1.copy[u] = IF u = t THEN ledger[t] ELSE worker[w].copy[u]
    BY <2>1 DEF WorkerState, At
  <2>3. /\ s2 \in WorkerState /\ s2.pc = "target" /\ s2.waiting = worker[w].waiting
        /\ s2.copy = worker[w].copy
    BY <2>1 DEF WorkerState, At
  <2>4. Become(w, s1) \/ Become(w, s2)
    BY <1>2 DEF ReadTarget
  <2> HIDE DEF s1, s2
  <2>5. CASE Become(w, s1)
    <3>1. \A u \in Task : s1.copy[u].deps = {}
      BY <2>2, OverlapFacts
    <3> QED
      BY <1>0, <2>2, <2>5, <3>1, OverlapFacts, OverlapWorker
  <2>6. CASE Become(w, s2)
    BY <1>0, <2>3, <2>6, OverlapFacts, OverlapWorker
  <2> QED
    BY <2>4, <2>5, <2>6
<1>3. ASSUME NEW t \in Task, SkipUnclaimable(w, t) PROVE OverlapInv'
  <2>1. Become(w, Handled(w, t)) /\ At(w, "next")
    BY <1>3 DEF SkipUnclaimable, IsNext
  <2>2. /\ Handled(w, t) \in WorkerState /\ Handled(w, t).pc = "next"
        /\ Handled(w, t).waiting = {}
        /\ \A u \in Task : Handled(w, t).copy[u].deps = {}
    BY <2>1, OverlapFacts, RowFacts DEF Handled, WorkerState, At, NoRow
  <2> QED
    BY <1>0, <2>1, <2>2, OverlapWorker
<1>4. CASE TargetsRead(w)
  BY <1>0, <1>4, OverlapEndRun, OverlapGoto DEF TargetsRead, PC
<1>5. CASE ParkRun(w)
  BY <1>0, <1>5, OverlapGoto DEF ParkRun, PC
<1>6. CASE ListInbox(w)
  <2> DEFINE batch == Oldest(AcceptedInbox(WorkerAgent[w]), BatchLimit)
             rows == [t \in Task |-> IF t \in batch THEN ledger[t] ELSE NoRow]
             state == [worker[w] EXCEPT !.inbox = batch, !.copy = rows, !.pc = "snapshot"]
  <2>1. batch \in SUBSET Task
    BY DEF Oldest, AcceptedInbox
  <2>2. rows \in [Task -> Row] /\ \A t \in Task : rows[t].deps = {}
    BY RowFacts, OverlapFacts DEF NoRow
  <2>3. EndRun(w) \/ Become(w, state)
    BY <1>6 DEF ListInbox
  <2> HIDE DEF batch, rows
  <2>4. /\ state \in WorkerState /\ state.pc = "snapshot" /\ state.copy = rows
        /\ state.waiting = worker[w].waiting
    BY <2>1, <2>2, OverlapFacts DEF WorkerState, PC
  <2> HIDE DEF state
  <2>5. CASE EndRun(w)
    BY <2>5, OverlapEndRun
  <2>6. CASE Become(w, state)
    BY <1>0, <2>2, <2>4, <2>6, OverlapFacts, OverlapWorker
  <2> QED
    BY <2>3, <2>5, <2>6
<1>7. CASE Snapshot(w)
  <2> DEFINE unmet == {t \in worker[w].inbox : Unmet(worker[w].copy[t]) # {}}
             rows == [t \in Task |-> IF t \in unmet THEN worker[w].copy[t] ELSE NoRow]
             state == [worker[w] EXCEPT !.waiting = unmet, !.copy = rows, !.pc = "next"]
  <2>1. worker[w].inbox \subseteq Task
    BY OverlapFacts DEF WorkerState
  <2>2. unmet = {}
    BY <2>1, OverlapFacts DEF Unmet
  <2>3. Become(w, state)
    BY <1>7 DEF Snapshot
  <2> HIDE DEF unmet
  <2>4. rows \in [Task -> Row] /\ \A t \in Task : rows[t].deps = {}
    BY <2>2, RowFacts DEF NoRow
  <2> HIDE DEF rows
  <2>5. /\ state \in WorkerState /\ state.pc = "next" /\ state.copy = rows
        /\ state.waiting = {}
    BY <2>2, <2>4, OverlapFacts DEF WorkerState, PC
  <2> HIDE DEF state
  <2> QED
    BY <1>0, <2>3, <2>4, <2>5, OverlapWorker
<1>8. CASE EndPass(w) \/ Crash(w)
  BY <1>8, OverlapEndRun DEF EndPass, Crash
<1>9. CASE CloseTask(w)
  <2> DEFINE state == [worker[w] EXCEPT !.pc = "next", !.job = NoTask]
  <2>1. /\ state \in WorkerState /\ state.pc = "next"
        /\ state.waiting = worker[w].waiting /\ state.copy = worker[w].copy
    BY OverlapFacts DEF WorkerState, PC
  <2>2. Become(w, state)
    BY <1>9 DEF CloseTask, NextMessage
  <2> HIDE DEF state
  <2> QED
    BY <1>0, <2>1, <2>2, OverlapFacts, OverlapWorker
<1> QED
  BY <1>1, <1>2, <1>3, <1>4, <1>5, <1>6, <1>7, <1>8, <1>9

\* The claim: one more holder, one more attempt.
LEMMA OverlapClaim ==
  ASSUME OverlapInv, TypeOK', NEW w \in Workers, NEW t \in Task, Claim(w, t), UNCHANGED caller
  PROVE  OverlapInv'
<1> DEFINE state == [Handled(w, t) EXCEPT !.pc = "claimed", !.job = t]
<1>1. Become(w, state) /\ TryClaimAgentMessage(t, WorkerAgent[w]) /\ IsNext(w, t)
  BY DEF Claim
<1>2. state \in WorkerState
  BY HandledType DEF OverlapInv, TypeOK
<1>3. /\ state.pc = "claimed" /\ state.job = t /\ state.waiting = {}
      /\ \A u \in Task : state.copy[u].deps = {}
  BY OverlapFacts, RowFacts DEF Handled, WorkerState, NoRow
<1> HIDE DEF state
<1>4. worker'[w] = state /\ \A v \in Workers : v # w => worker'[v] = worker[v]
  BY <1>1 DEF Become, OverlapInv, TypeOK, WorkerTypeOK
<1>5. \A u \in Task : ledger'[u].deps = ledger[u].deps
  BY <1>1, OverlapFacts, ClaimEffect DEF Untouched
<1>6. RowsCount
  BY <1>1, OverlapFacts, StatementsCount
<1>7. NoDepsAnywhere'
  BY <1>3, <1>4, <1>5 DEF OverlapInv, NoDepsAnywhere
<1>8. AbsentRowsAreFresh'
  BY <1>6 DEF OverlapInv, AbsentRowsAreFresh, RowsCount, Counts, Status
<1>9. ledger'[t].attempts = ledger[t].attempts + 1
  <2>1. \A r \in Row : \A a :
          [r EXCEPT !.status = "claimed", !.claimedBy = a, !.attempts = @ + 1].attempts
            = r.attempts + 1
    BY DEF Row
  <2> QED
    BY <1>1, <2>1, OverlapFacts DEF TryClaimAgentMessage, UpdateRows
<1>10. Holders(t)' \subseteq Holders(t) \cup {w}
  BY <1>4 DEF Holders, Holds
<1>11. ASSUME NEW u \in Task, u # t
       PROVE  Holders(u)' \subseteq Holders(u) /\ ledger'[u] = ledger[u]
  <2>1. Holders(u)' \subseteq Holders(u)
    BY <1>3, <1>4, <1>11 DEF Holders, Holds
  <2> QED
    BY <1>1, <1>11, <2>1, OverlapFacts, ClaimEffect DEF Untouched
<1>12. ASSUME NEW u \in Task
       PROVE  /\ IsFiniteSet(Holders(u)')
              /\ Cardinality(Holders(u)') <= ledger'[u].attempts
  <2>1. IsFiniteSet(Holders(u)) /\ Cardinality(Holders(u)) <= ledger[u].attempts
    BY DEF OverlapInv, HoldersAreCounted
  <2>2. Cardinality(Holders(u)) \in Nat /\ ledger[u].attempts \in Nat
    BY <2>1, OverlapFacts, LedgerAssumption, FS_CardinalityType DEF Row
  <2>3. CASE u = t
    <3>1. /\ IsFiniteSet(Holders(t) \cup {w})
          /\ Cardinality(Holders(t) \cup {w}) <= Cardinality(Holders(t)) + 1
      BY <2>1, <2>2, <2>3, FS_AddElement
    <3>2. /\ IsFiniteSet(Holders(t)')
          /\ Cardinality(Holders(t)') <= Cardinality(Holders(t) \cup {w})
      BY <1>10, <3>1, FS_Subset
    <3>3. Cardinality(Holders(t)') \in Nat /\ Cardinality(Holders(t) \cup {w}) \in Nat
      BY <3>1, <3>2, FS_CardinalityType
    <3> QED
      BY <1>9, <2>1, <2>2, <2>3, <3>1, <3>2, <3>3
  <2>4. CASE u # t
    <3>1. /\ IsFiniteSet(Holders(u)')
          /\ Cardinality(Holders(u)') <= Cardinality(Holders(u))
      BY <1>11, <2>1, <2>4, FS_Subset
    <3>2. Cardinality(Holders(u)') \in Nat
      BY <3>1, FS_CardinalityType
    <3> QED
      BY <1>11, <2>1, <2>2, <2>4, <3>1, <3>2
  <2> QED
    BY <2>3, <2>4
<1> QED
  BY <1>7, <1>8, <1>12 DEF OverlapInv, HoldersAreCounted

LEMMA OverlapWorkerStep ==
  ASSUME OverlapInv, TypeOK', NEW w \in Workers, WorkerStep(w), UNCHANGED caller
  PROVE  OverlapInv'
<1>0. ledger \in [Task -> Row] /\ worker[w] \in WorkerState
  BY OverlapFacts
<1>1. CASE RecoverStale(w)
  <2>1. PICK S \in Batches(StaleTasks(WorkerAgent[w])) : RecoverStaleAgentMessages(S)
    BY <1>1 DEF RecoverStale
  <2>2. S \in SUBSET Task
    BY DEF Batches, StaleTasks
  <2>3. RowsCount /\ \A u \in Task : ledger'[u].deps = ledger[u].deps
    BY <1>0, <2>1, <2>2, StatementsCount, RecoverEffect DEF Untouched
  <2> QED
    BY <1>1, <2>3, OverlapGoto DEF RecoverStale, PC
<1>2. CASE BlockExhausted(w)
  <2>1. PICK S \in Batches(ExhaustedTasks(WorkerAgent[w])) :
          BlockExhaustedAgentMessages(S) /\ Goto(w, IF S = {} THEN "list" ELSE "escalate")
    BY <1>2 DEF BlockExhausted
  <2>2. S \in SUBSET Task
    BY DEF Batches, ExhaustedTasks, AcceptedInbox
  <2>3. RowsCount /\ \A u \in Task : ledger'[u].deps = ledger[u].deps
    BY <1>0, <2>1, <2>2, StatementsCount, BlockEffect DEF Untouched
  <2> QED
    BY <2>1, <2>3, OverlapGoto DEF PC
<1>3. ASSUME NEW t \in Task, WaitOnDependencies(w, t) PROVE FALSE
  BY <1>3, OverlapFacts DEF WaitOnDependencies
<1>4. ASSUME NEW t \in Task, Claim(w, t) PROVE OverlapInv'
  BY <1>4, OverlapClaim
<1>5. ASSUME NEW s \in {"in_progress", "completed", "failed"}, SetStatus(w, s),
             worker[w].job \in Task
      PROVE  RowsCount /\ \A u \in Task : ledger'[u].deps = ledger[u].deps
  BY <1>0, <1>5, StatementsCount, StatusEffect DEF SetStatus, Untouched
<1>6. ASSUME NEW s, SetStatus(w, s), worker[w].job \notin Task
      PROVE  UNCHANGED ledger
  BY <1>0, <1>6 DEF SetStatus, UpdateAgentMessageStatus, UpdateRows
<1>7. ASSUME NEW s \in {"in_progress", "completed", "failed"}, SetStatus(w, s)
      PROVE  RowsCount /\ \A u \in Task : ledger'[u].deps = ledger[u].deps
  BY <1>0, <1>5, <1>6, <1>7, SameRowsCount
<1>8. CASE BeginTask(w) \/ CompleteTask(w)
  BY <1>7, <1>8, OverlapGoto DEF BeginTask, CompleteTask, At, PC
<1>9. CASE FailTask(w)
  <2> DEFINE state == [worker[w] EXCEPT !.pc = "next", !.job = NoTask]
  <2>1. /\ state \in WorkerState /\ state.pc = "next"
        /\ state.waiting = worker[w].waiting /\ state.copy = worker[w].copy
    BY OverlapFacts DEF WorkerState, PC
  <2>2. Become(w, state) /\ SetStatus(w, "failed")
    BY <1>9 DEF FailTask, NextMessage
  <2> HIDE DEF state
  <2> QED
    BY <1>7, <2>1, <2>2, OverlapFacts, OverlapWorker
<1>10. CASE \/ \E t \in Task : ReadTarget(w, t) \/ SkipUnclaimable(w, t)
            \/ TargetsRead(w) \/ ParkRun(w) \/ ListInbox(w) \/ Snapshot(w)
            \/ EndPass(w) \/ CloseTask(w)
  <2>1. UNCHANGED ledger
    BY <1>10 DEF ReadTarget, SkipUnclaimable, TargetsRead, ParkRun, ListInbox, Snapshot,
                 EndPass, CloseTask, ledgerVars
  <2> QED
    BY <1>10, <2>1, OverlapReads
<1> QED
  BY <1>1, <1>2, <1>3, <1>4, <1>8, <1>9, <1>10 DEF WorkerStep

LEMMA OverlapCall ==
  ASSUME OverlapInv, TypeOK', Endpoints \subseteq {"send", "status", "repair"},
         NoDependencies, CallerNext
  PROVE  OverlapInv'
<1>0. /\ ledger \in [Task -> Row] /\ TypeOK
      /\ \A u \in Task : ledger[u].deps = {}
      /\ \A c \in Callers : caller[c].pc \notin {"retry", "repair", "write"}
  BY DEF OverlapInv, TypeOK, LedgerTypeOK, NoDepsAnywhere
<1>1. PICK c \in Callers :
        \/ \E u \in Task : Send(c, u)
        \/ \E u \in Task, s \in TaskStatus \ {"absent"}, a \in Agents : PostStatus(c, u, s, a)
        \/ \E u \in Task : CheckRetry(c, u)
        \/ \E u \in Task, ids \in SUBSET Task : CheckRepair(c, u, ids)
        \/ CallStep(c)
        \/ DropCall(c)
  BY DEF CallerNext
<1>2. ASSUME UNCHANGED worker, RowsCount,
             \A u \in Task : ledger'[u].deps = {},
             \A d \in Callers : caller'[d].pc \notin {"retry", "repair", "write"}
      PROVE  OverlapInv'
  <2>1. NoDepsAnywhere'
    BY <1>2 DEF OverlapInv, NoDepsAnywhere
  <2>2. \A t \in Task : Holders(t)' \subseteq Holders(t)
    BY <1>2 DEF Holders, Holds
  <2> QED
    BY <1>2, <2>1, <2>2, OverlapStays
<1>3. ASSUME NEW t, NEW ids, NEW label \in {"gate", "resume"},
             Continue(c, label, t, ids) \/ UNCHANGED caller
      PROVE  \A d \in Callers : caller'[d].pc \notin {"retry", "repair", "write"}
  BY <1>0, <1>3 DEF Continue, TypeOK
<1>4. EndCall(c) => \A d \in Callers : caller'[d].pc \notin {"retry", "repair", "write"}
  BY <1>0 DEF EndCall, TypeOK, NoCall
<1>5. ASSUME NEW u \in Task, Send(c, u) PROVE OverlapInv'
  <2>1. Status(u) = "absent" /\ RecordAgentMessage(u, NewMessage(u))
    BY <1>5 DEF Send, Idle
  <2>2. /\ NewMessage(u).status = "accepted" /\ NewMessage(u).attempts = 0
        /\ NewMessage(u).deps = {}
    BY DEF NewMessage, NoRow, NoDependencies
  <2>3. Counts(ledger[u], NewMessage(u))
    BY <2>1, <2>2 DEF Counts, OverlapInv, AbsentRowsAreFresh, Status
  <2>4. RowsCount
    <3> DEFINE rows == [v \in {u} |-> NewMessage(u)]
    <3>1. UpdateRows(rows)
      BY <2>1 DEF RecordAgentMessage
    <3>2. \A v \in DOMAIN rows : Counts(ledger[v], rows[v])
      BY <2>3
    <3> HIDE DEF rows
    <3> QED
      BY <1>0, <3>1, <3>2, UpdatesCount
  <2>5. \A v \in Task : ledger'[v].deps = {}
    BY <1>0, <2>1, <2>2, RecordEffect DEF Untouched
  <2>6. UNCHANGED worker /\ \A d \in Callers : caller'[d].pc \notin {"retry", "repair", "write"}
    BY <1>3, <1>5 DEF Send
  <2> QED
    BY <1>2, <2>4, <2>5, <2>6
<1>6. ASSUME NEW u \in Task, NEW s \in TaskStatus \ {"absent"}, NEW a \in Agents,
             PostStatus(c, u, s, a)
      PROVE  OverlapInv'
  <2>1. UpdateAgentMessageStatus(u, s, a) /\ UNCHANGED worker
    BY <1>6 DEF PostStatus
  <2>2. RowsCount /\ \A v \in Task : ledger'[v].deps = {}
    BY <1>0, <2>1, StatementsCount, StatusEffect DEF Untouched
  <2>3. \A d \in Callers : caller'[d].pc \notin {"retry", "repair", "write"}
    BY <1>3, <1>6 DEF PostStatus
  <2> QED
    BY <1>2, <2>1, <2>2, <2>3
<1>7. ASSUME NEW u \in Task, CheckRetry(c, u) PROVE FALSE
  BY <1>7 DEF CheckRetry, Idle
<1>8. ASSUME NEW u \in Task, NEW ids \in SUBSET Task, CheckRepair(c, u, ids) PROVE FALSE
  BY <1>0, <1>8 DEF CheckRepair
<1>9. CASE CallStep(c) \/ DropCall(c)
  <2>1. OpenGate(c) \/ ResumeRun(c) \/ DropCall(c)
    BY <1>0, <1>9 DEF CallStep, ApplyRetry, ReadRepair, WriteRepair, Serving
  <2>2. EndCall(c) /\ UNCHANGED <<ledger, worker>>
    BY <2>1 DEF OpenGate, ResumeRun, DropCall, ledgerVars
  <2>3. RowsCount /\ \A u \in Task : ledger'[u].deps = {}
    BY <1>0, <2>2, SameRowsCount
  <2> QED
    BY <1>2, <1>4, <2>2, <2>3
<1> QED
  BY <1>1, <1>5, <1>6, <1>7, <1>8, <1>9

LEMMA OverlapNext == OnlyGrowing /\ OverlapInv /\ [Next]_vars => OverlapInv'
<1> SUFFICES ASSUME OnlyGrowing, OverlapInv, [Next]_vars PROVE OverlapInv'
  OBVIOUS
<1>0. TypeOK' /\ ledger \in [Task -> Row]
  BY NextType DEF OverlapInv, TypeOK, LedgerTypeOK
<1>1. ASSUME NEW w \in Workers, UNCHANGED caller,
             \/ \E ids \in Targets, recover \in RecoverStaleTasks : StartPass(w, ids, recover)
             \/ Crash(w)
      PROVE  OverlapInv'
  <2>1. UNCHANGED ledger
    BY <1>1 DEF StartPass, Crash, ledgerVars
  <2> QED
    BY <1>0, <1>1, <2>1, WorkerAssumption, OverlapReads
<1>2. ASSUME NEW w \in Workers, UNCHANGED caller, WorkerStep(w)
      PROVE  OverlapInv'
  BY <1>0, <1>2, OverlapWorkerStep
<1>3. CASE CallerNext
  BY <1>0, <1>3, OverlapCall DEF OnlyGrowing
<1>4. CASE (\E t \in Task : Age(t)) \/ UNCHANGED vars
  <2>1. UNCHANGED <<ledger, worker, caller>>
    BY <1>4 DEF Age, GrowStale, vars
  <2>2. NoDepsAnywhere' /\ \A t \in Task : Holders(t)' \subseteq Holders(t)
    BY <2>1 DEF OverlapInv, NoDepsAnywhere, Holders, Holds
  <2> QED
    BY <1>0, <2>1, <2>2, SameRowsCount, OverlapStays
<1> QED
  BY <1>1, <1>2, <1>3, <1>4 DEF Next, WorkerNext

LEMMA OverlapInit == OnlyGrowing /\ Init => OverlapInv
<1> SUFFICES ASSUME OnlyGrowing, Init PROVE OverlapInv
  OBVIOUS
<1>1. NoDepsAnywhere /\ AbsentRowsAreFresh
  BY DEF Init, LedgerInit, WorkerInit, IdleWorker, NoRow, NoCall, NoDepsAnywhere,
         AbsentRowsAreFresh
<1>2. ASSUME NEW t \in Task PROVE Holders(t) = {} /\ ledger[t].attempts = 0
  BY DEF Init, LedgerInit, WorkerInit, IdleWorker, NoRow, Holders, Holds
<1> QED
  BY <1>1, <1>2, InitType, FS_EmptySet DEF OverlapInv, HoldersAreCounted

\* Where recovery takes tasks from workers that are slow and not dead, and
\* nothing resets a count, the attempts of a task still bound the workers on it,
\* for any number of workers.
THEOREM OverlapIsBounded ==
  ASSUME OnlyGrowing
  PROVE  Spec => []OverlapWithinAttempts
<1>1. OverlapInv => OverlapWithinAttempts
  BY DEF OverlapInv, HoldersAreCounted, Holders, OverlapWithinAttempts
<1> QED
  BY <1>1, OverlapInit, OverlapNext, PTL DEF Spec
=============================================================================
