----------------------------- MODULE VoiceEvents -----------------------------
(***************************************************************************)
(* POST /api/realtime-sessions/{id}/voice-events.  The voice agent sends   *)
(* each event to the API itself, with a timeout, and to the browser, which *)
(* sends it on under the same uid: an event arrives any number of times,   *)
(* in any order, and deliveries overlap.  A call may die between any two   *)
(* awaits of the store.                                                    *)
(***************************************************************************)
EXTENDS VoiceIds

CONSTANTS Events, \* the events the agent emits; an event is its own uid
          Calls   \* calls of the endpoint under way at once

\* A response that is completed without a word has no text either.
Event == [kind : {"committed"}, about : Turns, text : Texts \cup {NoText}]
         \cup [kind : {"completed"}, about : Responses, text : Texts \cup {NoText}]
         \cup [kind : {"failed"}, about : Responses, text : {NoText}]

ASSUME EventAssumption == Events \subseteq Event /\ Events # {}

VARIABLES turn, reply, task, failure, \* see VoiceDialogue
          logged,   \* the events with a row in run_events
          answered, \* the events some delivery of which got its answer
          call

eventVars == <<turn, reply, task, failure, logged, answered, call>>

Dialogue == INSTANCE VoiceDialogue

CallState ==
    [pc : {"idle", "append", "find", "record", "promote", "list", "sync",
           "follow", "source", "insert", "report"},
     event : Events, todo : SUBSET Responses,
     quote : {"none", "unknown", "pending"} \cup Texts]

EventsTypeOK ==
    /\ turn \in [Turns -> {"absent", "pending"} \cup Texts]
    /\ reply \subseteq Responses
    /\ task \in [Responses -> {"absent", "unknown", "pending"} \cup Texts]
    /\ failure \subseteq Responses
    /\ logged \subseteq Events
    /\ answered \subseteq Events
    /\ call \in [Calls -> CallState]

IdleCall == [pc |-> "idle", event |-> CHOOSE e \in Events : TRUE, todo |-> {}, quote |-> "none"]

EventsInit ==
    /\ Dialogue!DialogueInit
    /\ logged = {}
    /\ answered = {}
    /\ call = [c \in Calls |-> IdleCall]

-----------------------------------------------------------------------------
Of(c) == call[c].event

About(c) == Of(c).about

Await(c, label) == call' = [call EXCEPT ![c].pc = label]

Answer(c) ==
    /\ call' = [call EXCEPT ![c] = IdleCall]
    /\ answered' = answered \cup {Of(c)}

\* find_event_by_voice_agent_event_uid
Deliver(c, e) ==
    /\ call[c].pc = "idle"
    /\ call' = [call EXCEPT ![c] = [IdleCall EXCEPT
                    !.pc = IF e \in logged THEN "find" ELSE "append",
                    !.event = e]]
    /\ UNCHANGED <<turn, reply, task, failure, logged, answered>>

AppendEvent(c) ==
    /\ call[c].pc = "append"
    /\ logged' = logged \cup {Of(c)}
    /\ Await(c, IF Of(c).kind = "failed" THEN "report" ELSE "record")
    /\ UNCHANGED <<turn, reply, task, failure, answered>>

\* Faulty variant of FindTurn: a known event has been dealt with.
FindNothing(c) ==
    /\ call[c].pc = "find"
    /\ Answer(c)
    /\ UNCHANGED <<turn, reply, task, failure, logged>>

\* A duplicate makes up for what the first delivery has left undone.
FindTurn(c) ==
    /\ call[c].pc = "find"
    /\ \/ /\ Of(c).kind = "committed"
          /\ IF turn[About(c)] = "absent" \/ Of(c).text # NoText
             THEN Await(c, "record") /\ UNCHANGED answered
             ELSE Answer(c)
       \/ /\ Of(c).kind = "completed"
          /\ Await(c, IF About(c) \in reply THEN "follow" ELSE "record")
          /\ UNCHANGED answered
       \/ /\ Of(c).kind = "failed"
          /\ Await(c, "report")
          /\ UNCHANGED answered
    /\ UNCHANGED <<turn, reply, task, failure, logged>>

\* record_voice_agent_conversation_turn_if_absent, under the lock of the turn.
\* A turn that is there already may still wait for its transcript.
RecordUserTurn(c) ==
    /\ call[c].pc = "record"
    /\ Of(c).kind = "committed"
    /\ IF turn[About(c)] = "absent"
       THEN /\ turn' = [turn EXCEPT ![About(c)] =
                            IF Of(c).text = NoText THEN "pending" ELSE Of(c).text]
            /\ Answer(c)
       ELSE /\ IF Of(c).text = NoText THEN Answer(c)
               ELSE Await(c, "promote") /\ UNCHANGED answered
            /\ UNCHANGED turn
    /\ UNCHANGED <<reply, task, failure, logged>>

\* Faulty variant of PromoteTranscript: the last transcript wins.
OverwriteTranscript(c) ==
    /\ call[c].pc = "promote"
    /\ turn' = [turn EXCEPT ![About(c)] = Of(c).text]
    /\ Await(c, "list")
    /\ UNCHANGED <<reply, task, failure, logged, answered>>

\* promote_voice_user_transcript_if_pending.  When the transcript is final
\* already the turn is read again: the same words are passed on once more,
\* others are dropped.
PromoteTranscript(c) ==
    /\ call[c].pc = "promote"
    /\ \/ /\ turn[About(c)] = "pending"
          /\ turn' = [turn EXCEPT ![About(c)] = Of(c).text]
          /\ Await(c, "list")
          /\ UNCHANGED answered
       \/ /\ turn[About(c)] = Of(c).text
          /\ Await(c, "list")
          /\ UNCHANGED <<turn, answered>>
       \/ /\ turn[About(c)] \notin {"pending", Of(c).text}
          /\ Answer(c)
          /\ UNCHANGED turn
    /\ UNCHANGED <<reply, task, failure, logged>>

\* The follow-ups that do not quote the transcript yet, as they are listed.
ListFollowups(c) ==
    /\ call[c].pc = "list"
    /\ call' = [call EXCEPT ![c].pc = "sync",
                            ![c].todo = {r \in Responses :
                                            /\ SourceOf[r] = About(c)
                                            /\ task[r] \notin {"absent", Of(c).text}}]
    /\ UNCHANGED <<turn, reply, task, failure, logged, answered>>

\* update_agent_message_payload, one message at a time.
SyncFollowup(c) ==
    /\ call[c].pc = "sync"
    /\ \E r \in call[c].todo :
         /\ task' = [task EXCEPT ![r] = Of(c).text]
         /\ call' = [call EXCEPT ![c].todo = @ \ {r}]
    /\ UNCHANGED <<turn, reply, failure, logged, answered>>

FollowupsSynced(c) ==
    /\ call[c].pc = "sync"
    /\ call[c].todo = {}
    /\ Answer(c)
    /\ UNCHANGED <<turn, reply, task, failure, logged>>

\* A response without words is no turn; it is followed up only if a turn of it
\* is there already.
RecordReply(c) ==
    /\ call[c].pc = "record"
    /\ Of(c).kind = "completed"
    /\ reply' = IF Of(c).text = NoText THEN reply ELSE reply \cup {About(c)}
    /\ IF About(c) \in reply' THEN Await(c, "follow") /\ UNCHANGED answered
       ELSE Answer(c)
    /\ UNCHANGED <<turn, task, failure, logged>>

FindFollowup(c) ==
    /\ call[c].pc = "follow"
    /\ IF task[About(c)] # "absent" THEN Answer(c)
       ELSE Await(c, "source") /\ UNCHANGED answered
    /\ UNCHANGED <<turn, reply, task, failure, logged>>

\* Faulty variant of ReadSource: the turn is not checked for a final transcript.
QuoteTurn(c) ==
    /\ call[c].pc = "source"
    /\ LET v == SourceOf[About(c)] IN
       call' = [call EXCEPT ![c].pc = "insert",
                            ![c].quote = IF v = NoTurn THEN "unknown" ELSE turn[v]]
    /\ UNCHANGED <<turn, reply, task, failure, logged, answered>>

\* The status of the turn that the response answers, as it is now.
ReadSource(c) ==
    /\ call[c].pc = "source"
    /\ LET v == SourceOf[About(c)] IN
       call' = [call EXCEPT ![c].pc = "insert",
                            ![c].quote = IF v = NoTurn THEN "unknown"
                                         ELSE IF turn[v] \in Texts THEN turn[v]
                                         ELSE "pending"]
    /\ UNCHANGED <<turn, reply, task, failure, logged, answered>>

\* record_agent_message_if_absent under an id derived from the response.
InsertFollowup(c) ==
    /\ call[c].pc = "insert"
    /\ task' = [task EXCEPT ![About(c)] = IF @ = "absent" THEN call[c].quote ELSE @]
    /\ Answer(c)
    /\ UNCHANGED <<turn, reply, failure, logged>>

\* The review of a failure is found or inserted under an id of its own.
ReportFailure(c) ==
    /\ call[c].pc = "report"
    /\ failure' = failure \cup {About(c)}
    /\ Answer(c)
    /\ UNCHANGED <<turn, reply, task, logged>>

\* The API process or its connection to the store dies.
LoseCall(c) ==
    /\ call[c].pc # "idle"
    /\ call' = [call EXCEPT ![c] = IdleCall]
    /\ UNCHANGED <<turn, reply, task, failure, logged, answered>>

EventsNext ==
    \E c \in Calls :
        \/ \E e \in Events : Deliver(c, e)
        \/ AppendEvent(c)
        \/ FindTurn(c)
        \/ RecordUserTurn(c)
        \/ PromoteTranscript(c)
        \/ ListFollowups(c)
        \/ SyncFollowup(c)
        \/ FollowupsSynced(c)
        \/ RecordReply(c)
        \/ FindFollowup(c)
        \/ ReadSource(c)
        \/ InsertFollowup(c)
        \/ ReportFailure(c)
        \/ LoseCall(c)

EventsSpec == EventsInit /\ [][EventsNext]_eventVars

-----------------------------------------------------------------------------
\* An event whose delivery was answered has left all its effects behind,
\* although the event, the turn and the follow-up are separate writes, an
\* earlier delivery of it may have died between them, and others overlap it
\* (record_realtime_voice_agent_event, _recover_duplicate_voice_agent_event_effects).
AnsweredIsApplied ==
    \A e \in answered :
        /\ e.kind = "committed" =>
             /\ turn[e.about] # "absent"
             /\ e.text # NoText => turn[e.about] \in Texts
        /\ e.kind = "completed" /\ e.text # NoText =>
             e.about \in reply /\ task[e.about] # "absent"
        /\ e.kind = "failed" => e.about \in failure

\* Whatever is delivered twice, late or half way, the dialogue is entered as
\* VoiceDialogue promises: turns and responses once, final transcripts for
\* good, follow-ups after their response and quoting nothing but the final
\* transcript.
ImplementsVoiceDialogue == Dialogue!DialogueSpec

\* Once the final transcript of a turn is in and no call is under way, the
\* follow-ups of the responses to that turn quote it
\* (_promote_pending_voice_user_transcript,
\* _sync_voice_followup_tasks_for_promoted_source_turn).
FollowupsCatchUp ==
    (\A c \in Calls : call[c].pc = "idle") =>
        \A e \in answered :
            e.kind = "committed" /\ e.text # NoText =>
                \A r \in Responses :
                    SourceOf[r] = e.about => task[r] \in {"absent", turn[e.about]}
=============================================================================
