---------------------------- MODULE A2ARefinement ----------------------------
(***************************************************************************)
(* In an orderly deployment the ledger and the workers implement           *)
(* TaskBoard.                                                              *)
(***************************************************************************)
EXTENDS A2AStudio

\* The null of claimed_by_agent_id is not a process.
ASSUME RefinementAssumption == NoAgent \notin Workers

Place(t) ==
    CASE Status(t) = "absent" -> "absent"
      [] Status(t) = "accepted" -> "open"
      [] Status(t) \in StaleRecoverable -> "taken"
      [] Status(t) = "completed" -> "done"
      [] OTHER -> "stopped"

Holder(t) ==
    IF \E w \in Workers : Holds(w, t)
    THEN CHOOSE w \in Workers : Holds(w, t)
    ELSE NoAgent

Needs(t) == IF Status(t) = "absent" THEN InitialDeps[t] ELSE ledger[t].deps

Board == INSTANCE TaskBoard
    WITH Nobody <- NoAgent, Deps <- InitialDeps,
         board <- [t \in Task |-> Place(t)],
         holder <- [t \in Task |-> Holder(t)],
         needs <- [t \in Task |-> Needs(t)]

\* The statements of the store, interleaved as the workers and the endpoints
\* issue them, amount to the moves of a task board.
ImplementsTaskBoard == Board!Spec
=============================================================================
