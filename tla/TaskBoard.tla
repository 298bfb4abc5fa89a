------------------------------ MODULE TaskBoard ------------------------------
(***************************************************************************)
(* What the A2A ledger and its workers promise together: a board of tasks  *)
(* on which an open task is taken by one worker at a time, only when the   *)
(* tasks it needs are done, and a done task is never taken again.  A       *)
(* worker may vanish; only then is its task put back on the board.  What a *)
(* task needs may be cut down at any time, but nothing is added to it once *)
(* the task is taken.                                                      *)
(***************************************************************************)
CONSTANTS Task,    \* tasks
          Workers, \* workers
          Nobody,  \* no worker
          Deps     \* Deps[t]: the tasks that t needs when it is posted

VARIABLES board,  \* board[t]: how far task t is
          holder, \* holder[t]: the live worker that runs t
          needs   \* needs[t]: the tasks that have to be done before t is taken

vars == <<board, holder, needs>>

Places == {"absent", "open", "taken", "done", "stopped"}

TypeOK ==
    /\ board \in [Task -> Places]
    /\ holder \in [Task -> Workers \cup {Nobody}]
    /\ needs \in [Task -> SUBSET Task]

Init ==
    /\ board = [t \in Task |-> "absent"]
    /\ holder = [t \in Task |-> Nobody]
    /\ needs = Deps

Move(S, from, to) ==
    /\ \A t \in S : board[t] = from
    /\ board' = [t \in Task |-> IF t \in S THEN to ELSE board[t]]

Post(t) == Move({t}, "absent", "open") /\ UNCHANGED <<holder, needs>>

Take(t, w) ==
    /\ \A u \in Task : holder[u] # w
    /\ \A d \in needs[t] : board[d] = "done"
    /\ Move({t}, "open", "taken")
    /\ holder' = [holder EXCEPT ![t] = w]
    /\ UNCHANGED needs

Finish(t, w) ==
    /\ holder[t] = w
    /\ Move({t}, "taken", "done") \/ Move({t}, "taken", "stopped")
    /\ holder' = [holder EXCEPT ![t] = Nobody]
    /\ UNCHANGED needs

Vanish(t, w) ==
    /\ holder[t] = w
    /\ holder' = [holder EXCEPT ![t] = Nobody]
    /\ UNCHANGED <<board, needs>>

\* Abandoned tasks go back on the board together.
Reopen(S) ==
    /\ \A t \in S : holder[t] = Nobody
    /\ Move(S, "taken", "open")
    /\ UNCHANGED <<holder, needs>>

\* Tasks that were tried too often leave the board until a person puts them
\* back.
Stop(S) == Move(S, "open", "stopped") /\ UNCHANGED <<holder, needs>>

Readmit(t) == Move({t}, "stopped", "open") /\ UNCHANGED <<holder, needs>>

Revise(t, S) ==
    /\ S \subseteq needs[t] \/ (board[t] = "open" /\ S \subseteq Deps[t])
    /\ needs' = [needs EXCEPT ![t] = S]
    /\ UNCHANGED <<board, holder>>

Next ==
    \/ \E t \in Task : Post(t) \/ Readmit(t)
    \/ \E t \in Task, w \in Workers : Take(t, w) \/ Finish(t, w) \/ Vanish(t, w)
    \/ \E S \in SUBSET Task : Reopen(S) \/ Stop(S)
    \/ \E t \in Task, S \in SUBSET Task : Revise(t, S)

Spec == Init /\ [][Next]_vars

\* Only a taken task has a holder, and everything it needs is done.
HeldTasksAreReady ==
    \A t \in Task :
        holder[t] # Nobody =>
            board[t] = "taken" /\ \A d \in needs[t] : board[d] = "done"
=============================================================================
