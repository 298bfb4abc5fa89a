------------------------------- MODULE MCEdges -------------------------------
(***************************************************************************)
(* Instances, for TLC, of the components at the edges of the studio: the   *)
(* supervisors of its processes, the voice agent's turns and the speech    *)
(* detector's caches.  They share no state; a behaviour is one of the      *)
(* parts, so that their states add up.                                     *)
(***************************************************************************)
EXTENDS ProcessSupervisors, VoiceTurns, VadCaches

CONSTANTS f1, f2, \* configurations of model files
          b1, b2, \* sizes for the bundled model
          q1,     \* a request for a stream
          a1      \* a response

VARIABLE part

\* One request names a stream; the other churns the caches.
StreamAndChurn(q) ==
    IF q = q1 THEN {f1} \X Streams
    ELSE {<<f2, NoStream>>, <<b1, NoStream>>, <<b2, NoStream>>}

\* The other response is to an utterance without a turn id.
FirstHasATurn == [r \in Responses |-> IF r = a1 THEN CHOOSE v \in Turns : TRUE ELSE NoTurn]

-----------------------------------------------------------------------------
Init ==
    /\ part \in {"supervisors", "turns", "pools"}
    /\ SupervisorsInit
    /\ TurnsInit
    /\ VadInit

Next ==
    \/ /\ part = "supervisors" /\ SupervisorsNext
       /\ UNCHANGED <<turnVars, vadVars, part>>
    \/ /\ part = "turns" /\ TurnsNext
       /\ UNCHANGED <<supervisorVars, vadVars, part>>
    \/ /\ part = "pools" /\ VadNext
       /\ UNCHANGED <<supervisorVars, turnVars, part>>

vars == <<supervisorVars, turnVars, vadVars, part>>

Spec == Init /\ [][Next]_vars /\ SupervisorsFairness /\ TurnsFairness

TypeOK == SupervisorsTypeOK /\ TurnsTypeOK /\ VadTypeOK
=============================================================================
