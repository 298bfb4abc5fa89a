--------------------------- MODULE TaskBoardProofs ---------------------------
(* What every implementation of the task board inherits. *)
EXTENDS TaskBoard, TLAPS

LEMMA MoveEffect ==
  ASSUME board \in [Task -> Places], NEW S \in SUBSET Task, NEW from, NEW to,
         Move(S, from, to)
  PROVE  \A t \in Task : IF t \in S THEN board[t] = from /\ board'[t] = to
                                    ELSE board'[t] = board[t]
  BY DEF Move

LEMMA BoardType ==
  ASSUME Deps \in [Task -> SUBSET Task], TypeOK, [Next]_vars
  PROVE  TypeOK'
  <1>1. ASSUME NEW S \in SUBSET Task, NEW from, NEW to \in Places, Move(S, from, to)
        PROVE  board' \in [Task -> Places]
    BY <1>1 DEF Move, TypeOK
  <1>2. {"open", "taken", "done", "stopped"} \subseteq Places
    BY DEF Places
  <1>3. CASE \E t \in Task : Post(t) \/ Readmit(t)
    BY <1>1, <1>2, <1>3 DEF Post, Readmit, TypeOK
  <1>4. ASSUME NEW t \in Task, NEW w \in Workers, Take(t, w)
        PROVE  TypeOK'
    BY <1>1, <1>2, <1>4 DEF Take, TypeOK
  <1>5. ASSUME NEW t \in Task, NEW w \in Workers, Finish(t, w)
        PROVE  TypeOK'
    BY <1>1, <1>2, <1>5 DEF Finish, TypeOK
  <1>6. ASSUME NEW t \in Task, NEW w \in Workers, Vanish(t, w)
        PROVE  TypeOK'
    BY <1>6 DEF Vanish, TypeOK
  <1>7. CASE \E S \in SUBSET Task : Reopen(S) \/ Stop(S)
    BY <1>1, <1>2, <1>7 DEF Reopen, Stop, TypeOK
  <1>8. ASSUME NEW t \in Task, NEW S \in SUBSET Task, Revise(t, S)
        PROVE  TypeOK'
    BY <1>8 DEF Revise, TypeOK
  <1>9. CASE UNCHANGED vars
    BY <1>9 DEF vars, TypeOK
  <1> QED
    BY <1>3, <1>4, <1>5, <1>6, <1>7, <1>8, <1>9 DEF Next

LEMMA ReadyStep ==
  ASSUME Nobody \notin Workers, TypeOK, HeldTasksAreReady, [Next]_vars
  PROVE  HeldTasksAreReady'
  <1>1. ASSUME NEW S \in SUBSET Task, NEW from, NEW to, Move(S, from, to),
               from \notin {"taken", "done"}, UNCHANGED <<holder, needs>>
        PROVE  HeldTasksAreReady'
    <2>1. \A u \in Task : IF u \in S THEN board[u] = from ELSE board'[u] = board[u]
      BY <1>1, MoveEffect DEF TypeOK
    <2>2. \A u \in Task : needs[u] \subseteq Task
      BY DEF TypeOK
    <2> QED
      BY <1>1, <2>1, <2>2 DEF HeldTasksAreReady
  <1>2. CASE \E t \in Task : Post(t) \/ Readmit(t)
    BY <1>1, <1>2 DEF Post, Readmit
  <1>3. ASSUME NEW t \in Task, NEW w \in Workers, Take(t, w)
        PROVE  HeldTasksAreReady'
    <2>1. \A u \in Task : IF u = t THEN board[u] = "open" /\ board'[u] = "taken"
                                   ELSE board'[u] = board[u]
      BY <1>3, MoveEffect DEF Take, TypeOK
    <2>2. /\ \A d \in needs[t] : board[d] = "done"
          /\ \A u \in Task : u # t => holder'[u] = holder[u]
          /\ UNCHANGED needs
      BY <1>3 DEF Take, TypeOK
    <2>3. \A u \in Task : needs[u] \subseteq Task
      BY DEF TypeOK
    <2> QED
      BY <2>1, <2>2, <2>3 DEF HeldTasksAreReady
  <1>4. ASSUME NEW t \in Task, NEW w \in Workers, Finish(t, w)
        PROVE  HeldTasksAreReady'
    <2>1. \A u \in Task : IF u = t THEN board[u] = "taken" ELSE board'[u] = board[u]
      BY <1>4, MoveEffect DEF Finish, TypeOK
    <2>2. /\ \A u \in Task : holder'[u] = IF u = t THEN Nobody ELSE holder[u]
          /\ UNCHANGED needs
      BY <1>4 DEF Finish, TypeOK
    <2>3. \A u \in Task : needs[u] \subseteq Task
      BY DEF TypeOK
    <2> QED
      BY <2>1, <2>2, <2>3 DEF HeldTasksAreReady
  <1>5. ASSUME NEW t \in Task, NEW w \in Workers, Vanish(t, w)
        PROVE  HeldTasksAreReady'
    BY <1>5 DEF Vanish, HeldTasksAreReady, TypeOK
  <1>6. ASSUME NEW S \in SUBSET Task, Reopen(S)
        PROVE  HeldTasksAreReady'
    <2>1. \A u \in Task : IF u \in S THEN board[u] = "taken" /\ holder[u] = Nobody
                                     ELSE board'[u] = board[u]
      BY <1>6, MoveEffect DEF Reopen, TypeOK
    <2>2. UNCHANGED <<holder, needs>>
      BY <1>6 DEF Reopen
    <2>3. \A u \in Task : needs[u] \subseteq Task
      BY DEF TypeOK
    <2> QED
      BY <2>1, <2>2, <2>3 DEF HeldTasksAreReady
  <1>7. ASSUME NEW S \in SUBSET Task, Stop(S)
        PROVE  HeldTasksAreReady'
    BY <1>1, <1>7 DEF Stop
  <1>8. ASSUME NEW t \in Task, NEW S \in SUBSET Task, Revise(t, S)
        PROVE  HeldTasksAreReady'
    BY <1>8 DEF Revise, HeldTasksAreReady, TypeOK
  <1>9. CASE UNCHANGED vars
    BY <1>9 DEF vars, HeldTasksAreReady
  <1> QED
    BY <1>2, <1>3, <1>4, <1>5, <1>6, <1>7, <1>8, <1>9 DEF Next

\* On any board, for as long as a worker runs a task, the task is marked as
\* taken and everything it needs stays done.
THEOREM BoardKeepsUpstreamDone ==
  ASSUME Nobody \notin Workers, Deps \in [Task -> SUBSET Task]
  PROVE  Spec => []HeldTasksAreReady
  <1>1. Init => TypeOK /\ HeldTasksAreReady
    BY DEF Init, TypeOK, HeldTasksAreReady, Places
  <1>2. TypeOK /\ HeldTasksAreReady /\ [Next]_vars => (TypeOK /\ HeldTasksAreReady)'
    BY BoardType, ReadyStep
  <1> QED
    BY <1>1, <1>2, PTL DEF Spec
=============================================================================
