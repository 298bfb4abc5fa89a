----------------------------- MODULE VoiceTurns -----------------------------
(***************************************************************************)
(* The voice agent in its room: engine.py, the publisher of adapters.py    *)
(* and the interrupts of livekit_app.py.  Turns are handled by tasks that  *)
(* run side by side and share one output buffer; a task yields only where  *)
(* it awaits.  A response is interrupted by the creator, by name or        *)
(* whichever came last, and by the voice edge, whose acknowledgement names *)
(* the response that was active when its frame was sent.                   *)
(***************************************************************************)
EXTENDS VoiceIds, Integers, Sequences, FiniteSets, SequencesExt

CONSTANTS ChunkLen,  \* samples in a chunk of speech
          FrameLen,  \* samples in a frame of the output track
          MaxChunks, \* chunks in the longest response
          MaxCancelled \* MAX_CANCELLED_RESPONSE_IDS

NoFrame == "no frame"

ASSUME TurnsAssumption ==
    /\ ChunkLen \in Nat \ {0} /\ FrameLen \in Nat \ {0} /\ MaxChunks \in Nat
    /\ MaxCancelled \in Nat \ {0}
    /\ NoFrame \notin Responses \cup {NoResponse}

VARIABLES active,     \* the responses under way, the latest last
          phase,      \* phase[r]: where the task of r awaits
          said,       \* said[r]: the chunks of r so far
          verdict,    \* verdict[r]: how r ended, as its last event says
          token,      \* the responses whose cancellation token is set
          stopped,    \* the responses whose chunks the publisher ignores
          remembered, \* cancelled_response_id_order, the ids of cancelled_response_ids
          named,      \* history: the responses whose cancellation was asked for
          source,     \* the response that had the output track created
          buffer,     \* the samples waiting for a frame, by response
          late,       \* the responses heard after they were stopped
          edge        \* the response named in the frame at the voice edge

turnVars == <<active, phase, said, verdict, token, stopped, remembered, named, source, buffer, late, edge>>

Phase == {"new", "thinking", "track", "speaking", "ending", "ended"}

Verdict == {"none", "completed", "cancelled", "failed"}

TurnsTypeOK ==
    /\ active \in Seq(Responses)
    /\ phase \in [Responses -> Phase]
    /\ said \in [Responses -> 0..MaxChunks]
    /\ verdict \in [Responses -> Verdict]
    /\ token \subseteq Responses
    /\ stopped \subseteq Responses
    /\ remembered \in Seq(Responses)
    /\ named \subseteq Responses
    /\ source \in Responses \cup {NoResponse}
    /\ buffer \in Seq(Responses)
    /\ late \subseteq Responses
    /\ edge \in Responses \cup {NoResponse, NoFrame}

TurnsInit ==
    /\ active = <<>>
    /\ phase = [r \in Responses |-> "new"]
    /\ said = [r \in Responses |-> 0]
    /\ verdict = [r \in Responses |-> "none"]
    /\ token = {}
    /\ stopped = {}
    /\ remembered = <<>>
    /\ named = {}
    /\ source = NoResponse
    /\ buffer = <<>>
    /\ late = {}
    /\ edge = NoFrame

-----------------------------------------------------------------------------
Live == {active[i] : i \in DOMAIN active}

\* active_response_id
Latest == IF active = <<>> THEN NoResponse ELSE active[Len(active)]

Enter(r, p) == phase' = [phase EXCEPT ![r] = p]

\* handle_turn registers its token before its first await.
StartTurn(r) ==
    /\ phase[r] = "new"
    /\ Enter(r, "thinking")
    /\ active' = Append(active, r)
    /\ UNCHANGED <<said, verdict, token, stopped, remembered, named, source, buffer, late, edge>>

\* Faulty variant of PublishChunk: the publisher takes chunks of any response,
\* and the engine does not look at the token between chunks.
PublishAnyChunk(r) ==
    /\ phase[r] = "thinking"
    /\ said[r] < MaxChunks
    /\ said' = [said EXCEPT ![r] = @ + 1]
    /\ IF source = NoResponse
       THEN source' = r /\ Enter(r, "track") /\ UNCHANGED buffer
       ELSE /\ buffer' = buffer \o [i \in 1..ChunkLen |-> r]
            /\ Enter(r, "speaking")
            /\ UNCHANGED source
    /\ UNCHANGED <<active, verdict, token, stopped, remembered, named, late, edge>>

\* A delta of text has grown to a fragment and Kokoro has spoken a chunk of
\* it: the token is checked, then the publisher's own set.  The first chunk of
\* all has to wait for the output track.
PublishChunk(r) ==
    /\ phase[r] = "thinking"
    /\ r \notin token \cup stopped
    /\ said[r] < MaxChunks
    /\ said' = [said EXCEPT ![r] = @ + 1]
    /\ IF source = NoResponse
       THEN source' = r /\ Enter(r, "track") /\ UNCHANGED buffer
       ELSE /\ buffer' = buffer \o [i \in 1..ChunkLen |-> r]
            /\ Enter(r, "speaking")
            /\ UNCHANGED source
    /\ UNCHANGED <<active, verdict, token, stopped, remembered, named, late, edge>>

\* publish_track is done.  The publisher does not look again whether the
\* response has been stopped meanwhile.
TrackPublished(r) ==
    /\ phase[r] = "track"
    /\ buffer' = buffer \o [i \in 1..ChunkLen |-> r]
    /\ Enter(r, "speaking")
    /\ UNCHANGED <<active, said, verdict, token, stopped, remembered, named, source, late, edge>>

\* capture_frame takes the oldest samples, whoever they belong to.
CaptureFrame(r) ==
    /\ phase[r] = "speaking"
    /\ Len(buffer) >= FrameLen
    /\ buffer' = SubSeq(buffer, FrameLen + 1, Len(buffer))
    /\ late' = late \cup (stopped \cap {buffer[i] : i \in 1..FrameLen})
    /\ UNCHANGED <<active, phase, said, verdict, token, stopped, remembered, named, source, edge>>

\* Faulty variant of ChunkPublished: the loop goes on until nothing is left.
DrainBuffer(r) ==
    /\ phase[r] = "speaking"
    /\ buffer = <<>>
    /\ Enter(r, "thinking")
    /\ UNCHANGED <<active, said, verdict, token, stopped, remembered, named, source, buffer, late, edge>>

\* What does not fill a frame stays in the buffer.
ChunkPublished(r) ==
    /\ phase[r] = "speaking"
    /\ Len(buffer) < FrameLen
    /\ Enter(r, "thinking")
    /\ UNCHANGED <<active, said, verdict, token, stopped, remembered, named, source, buffer, late, edge>>

\* clear_output_buffer and stop_response_audio: the buffer is emptied,
\* whoever the samples belong to.
Silence(r) ==
    /\ stopped' = stopped \cup {r}
    /\ buffer' = <<>>

\* The stream of text ends.  The token is not looked at any more.
CompleteResponse(r) ==
    /\ phase[r] = "thinking"
    /\ Enter(r, "ending")
    /\ verdict' = [verdict EXCEPT ![r] = "completed"]
    /\ UNCHANGED <<active, said, token, stopped, remembered, named, source, buffer, late, edge>>

\* throw_if_cancelled, at the next delta of text or chunk of speech.
NoticeCancellation(r) ==
    /\ phase[r] = "thinking"
    /\ r \in token
    /\ Enter(r, "ending")
    /\ verdict' = [verdict EXCEPT ![r] = "cancelled"]
    /\ Silence(r)
    /\ UNCHANGED <<active, said, token, remembered, named, source, late, edge>>

\* A ProviderConfigurationError of Gemma, Kokoro or the publisher.
FailResponse(r) ==
    /\ phase[r] = "thinking"
    /\ Enter(r, "ending")
    /\ verdict' = [verdict EXCEPT ![r] = "failed"]
    /\ Silence(r)
    /\ UNCHANGED <<active, said, token, remembered, named, source, late, edge>>

Deregister(r) ==
    \E i \in DOMAIN active : active[i] = r /\ active' = RemoveAt(active, i)

\* The last event is out and the token is given up.
EndTurn(r) ==
    /\ phase[r] = "ending"
    /\ Enter(r, "ended")
    /\ Deregister(r)
    /\ UNCHANGED <<said, verdict, token, stopped, remembered, named, source, buffer, late, edge>>

\* Any other exception, of the event sink above all, ends the task without an
\* event and without clearing the output.
BreakTurn(r) ==
    /\ phase[r] \in {"thinking", "track", "speaking", "ending"}
    /\ Enter(r, "ended")
    /\ verdict' = [verdict EXCEPT ![r] = "none"]
    /\ Deregister(r)
    /\ UNCHANGED <<said, token, stopped, remembered, named, source, buffer, late, edge>>

-----------------------------------------------------------------------------
\* _remember_cancelled_response_id: the oldest ids are forgotten.
Remember(r) ==
    IF Contains(remembered, r) THEN UNCHANGED remembered
    ELSE LET ids == Append(remembered, r)
         IN remembered' = IF Len(ids) > MaxCancelled THEN Tail(ids) ELSE ids

\* Faulty variant of CancelResponse: whichever response came last is cancelled.
CancelLatest(r) ==
    /\ Remember(r)
    /\ IF r \in Live
       THEN token' = token \cup {Latest} /\ Silence(r)
       ELSE UNCHANGED <<token, stopped, buffer>>

\* The id is remembered; then cancel_response, which does not await anything
\* before it has set the token and silenced the response.
CancelResponse(r) ==
    /\ Remember(r)
    /\ IF r \in Live
       THEN token' = token \cup {r} /\ Silence(r)
       ELSE UNCHANGED <<token, stopped, buffer>>

\* voice_interrupt names a response the room has heard of, or means the latest.
Interrupt(r) ==
    /\ r = Latest \/ phase[r] # "new"
    /\ CancelResponse(r)
    /\ named' = named \cup {r}
    /\ UNCHANGED <<active, phase, said, verdict, source, late, edge>>

\* A frame of the creator's microphone goes to the voice edge.
AskEdge ==
    /\ edge = NoFrame
    /\ edge' = Latest
    /\ UNCHANGED <<active, phase, said, verdict, token, stopped, remembered, named, source,
                   buffer, late>>

\* The edge answers; if it hears speech over the response it was told of, it
\* acknowledges the cancellation, which is carried out unless it is remembered.
EdgeAnswers ==
    /\ edge # NoFrame
    /\ edge' = NoFrame
    /\ \/ /\ edge \in Responses
          /\ named' = named \cup {edge}
          /\ IF Contains(remembered, edge) THEN UNCHANGED <<token, stopped, remembered, buffer>>
             ELSE CancelResponse(edge)
       \/ UNCHANGED <<token, stopped, remembered, named, buffer>>
    /\ UNCHANGED <<active, phase, said, verdict, source, late>>

RunTurn(r) ==
    \/ PublishChunk(r)
    \/ TrackPublished(r)
    \/ CaptureFrame(r)
    \/ ChunkPublished(r)
    \/ CompleteResponse(r)
    \/ NoticeCancellation(r)
    \/ FailResponse(r)
    \/ EndTurn(r)

TurnsNext ==
    \/ \E r \in Responses : StartTurn(r) \/ RunTurn(r) \/ BreakTurn(r) \/ Interrupt(r)
    \/ AskEdge
    \/ EdgeAnswers

TurnsSpec == TurnsInit /\ [][TurnsNext]_turnVars

\* The event loop runs the task of a response on, and the streams it reads
\* deliver or end: the providers are called with timeouts.
TurnsFairness == \A r \in Responses : WF_turnVars(RunTurn(r))

-----------------------------------------------------------------------------
\* A cancellation that the creator or the voice edge asks for has reached the
\* response it named, if that is still under way, and no other: although the
\* edge acknowledges a response that may not be the latest any more, and an id
\* that is remembered is not cancelled again
\* (_handle_audio_track, _handle_interrupt_message, cancel_response).
CancellationReachesItsResponse ==
    /\ named \cap Live \subseteq token
    /\ token \subseteq named

\* A response that was stopped is not heard again, although the responses
\* share one buffer and a stopped one may be about to publish a chunk: but for
\* the response that was waiting for the output track
\* (publish_audio_chunk, clear_output_buffer, stop_response_audio).
OnlyTheFirstIsHeardLate == late \subseteq {source}

\* A response that was cancelled comes to its end and gives up its token,
\* whatever it was waiting for (handle_turn).
InterruptsSettle ==
    \A r \in Responses : r \in token ~> phase[r] = "ended"
=============================================================================
