---------------------------- MODULE VoiceDialogue ----------------------------
(***************************************************************************)
(* What the voice events of a run amount to, however often and in whatever *)
(* order they are delivered.  A turn of the user is entered once and its   *)
(* final transcript is never replaced; a response is entered once; its     *)
(* follow-up task comes after it, once, and quotes nothing but the final   *)
(* transcript of the turn it answers.                                      *)
(***************************************************************************)
EXTENDS VoiceIds

VARIABLES turn,   \* turn[v]: absent, pending, or the final transcript
          reply,  \* the responses entered as heard by the user
          task,   \* task[r]: absent, or what the follow-up of r quotes
          failure \* the responses whose failure is up for review

dialogue == <<turn, reply, task, failure>>

DialogueInit ==
    /\ turn = [v \in Turns |-> "absent"]
    /\ reply = {}
    /\ task = [r \in Responses |-> "absent"]
    /\ failure = {}

\* What is known of the words that r answers.
Quotable(r) ==
    IF SourceOf[r] = NoTurn THEN {"unknown"}
    ELSE {"pending"} \cup (Texts \cap {turn[SourceOf[r]]})

EnterTurn(v, s) ==
    /\ turn[v] \in {"absent", "pending"}
    /\ turn' = [turn EXCEPT ![v] = s]
    /\ UNCHANGED <<reply, task, failure>>

EnterReply(r) ==
    /\ reply' = reply \cup {r}
    /\ UNCHANGED <<turn, task, failure>>

FollowUp(r, s) ==
    /\ r \in reply
    /\ \/ task[r] = "absent" /\ s \in Quotable(r)
       \/ task[r] # "absent" /\ s \in Quotable(r) \cap Texts
    /\ task' = [task EXCEPT ![r] = s]
    /\ UNCHANGED <<turn, reply, failure>>

ReviewFailure(r) ==
    /\ failure' = failure \cup {r}
    /\ UNCHANGED <<turn, reply, task>>

DialogueNext ==
    \/ \E v \in Turns, s \in {"pending"} \cup Texts : EnterTurn(v, s)
    \/ \E r \in Responses : EnterReply(r) \/ ReviewFailure(r)
    \/ \E r \in Responses, s \in {"unknown", "pending"} \cup Texts : FollowUp(r, s)

DialogueSpec == DialogueInit /\ [][DialogueNext]_dialogue
=============================================================================
