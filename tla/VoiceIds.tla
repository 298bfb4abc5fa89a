------------------------------ MODULE VoiceIds ------------------------------
(***************************************************************************)
(* What the voice agent, the voice events and the dialogue they leave      *)
(* behind have in common: the user's turns, the assistant's responses, and *)
(* the words of a turn.                                                    *)
(***************************************************************************)
CONSTANTS Turns,      \* voice turns of the user
          NoTurn,     \* no turn
          Responses,  \* responses of the assistant
          NoResponse, \* no response
          SourceOf,   \* SourceOf[r]: the turn response r answers, or NoTurn
          Texts,      \* final transcripts
          NoText      \* no transcript

ASSUME VoiceAssumption ==
    /\ NoTurn \notin Turns
    /\ NoResponse \notin Responses
    /\ SourceOf \in [Responses -> Turns \cup {NoTurn}]
    /\ NoText \notin Texts
    /\ Texts \cap {"absent", "pending", "unknown"} = {}
=============================================================================
