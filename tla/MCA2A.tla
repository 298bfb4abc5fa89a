-------------------------------- MODULE MCA2A --------------------------------
(* Instances of A2AStudio for TLC. *)
EXTENDS A2ARefinement, TLC

CONSTANTS writer, reviewer, \* agents
          w1, w2,           \* worker passes
          c1, c2            \* calls of the endpoints

\* Everything goes to one agent, whose two workers race for it.
OneInbox == [t \in Task |-> writer]
BothWriters == [w \in Workers |-> writer]

\* Odd tasks go to the writer, even ones to the reviewer.
TwoInboxes == [t \in Task |-> IF t % 2 = 1 THEN writer ELSE reviewer]
OneEach == [w \in Workers |-> IF w = w1 THEN writer ELSE reviewer]

FromReviewer == [t \in Task |-> reviewer]

Independent == [t \in Task |-> {}]
Chain == [t \in Task |-> IF t = 1 THEN {} ELSE {t - 1}]
FirstWaits == [t \in Task |-> IF t = 1 THEN {2} ELSE {}]

InboxOnly == {{}}
SecondByName == {{}, {2}}
AnyTarget == SUBSET Task

\* The two workers of one agent are interchangeable.
Alike == Permutations(Workers)
=============================================================================
