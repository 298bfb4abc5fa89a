------------------------------- MODULE MCFlows -------------------------------
(***************************************************************************)
(* Instances for TLC of what the studio does with the creator's words and  *)
(* drafts: the API's handling of voice events, the revision loop, the      *)
(* autonomous pass and the browser page.  They share no state; a behaviour *)
(* is one of the parts, so that their states add up.                       *)
(***************************************************************************)
EXTENDS VoiceEvents, RevisionLoop, StudioPass, StudioPage

CONSTANTS v1,           \* a turn
          r1, r2,       \* responses
          t1, t2,       \* transcripts
          w1, w2,       \* words of feedback
          draft, note,  \* a content artifact, an id that is none
          doctor, editor

VARIABLE part

\* The second response is to an utterance without a turn id.
FirstAnswersTurn == [r \in Responses |-> IF r = r1 THEN v1 ELSE NoTurn]

\* The turn is told of as it begins and with either of two transcripts; one
\* response completes, as one event with its words and another without them
\* tell, and one fails.
AllKinds ==
    {[kind |-> "committed", about |-> v1, text |-> s] : s \in Texts \cup {NoText}}
    \cup {[kind |-> "completed", about |-> r1, text |-> t1],
          [kind |-> "completed", about |-> r1, text |-> NoText],
          [kind |-> "failed", about |-> r2, text |-> NoText]}

\* One transcript and one response.
OneAnswer ==
    {[kind |-> "committed", about |-> v1, text |-> t1],
     [kind |-> "completed", about |-> r1, text |-> t1]}

\* The same words for whatever is current and for the draft by name, others
\* without a gate, and a request that names nothing to revise.
FourRequests ==
    {[words |-> w1, gated |-> TRUE, targets |-> {}],
     [words |-> w1, gated |-> TRUE, targets |-> {draft}],
     [words |-> w2, gated |-> FALSE, targets |-> {}],
     [words |-> w2, gated |-> FALSE, targets |-> {note}]}

OneSpecialist == <<doctor>>

OneReviewer == <<editor>>

\* One kind of media plan.
OneKind == <<"image">>

\* All handlers but the restoring of the last run, which only reads.
AllButRestore == Gates \cup (Ungated \ {"restore"})

-----------------------------------------------------------------------------
allVars == <<eventVars, revisionVars, passVars, pageVars, part>>

Init ==
    /\ part \in {"events", "revision", "pass", "page"}
    /\ EventsInit
    /\ RevisionInit
    /\ PassInit
    /\ PageInit
    /\ supported => part = "pass"       \* one initial state of the
    /\ part # "page" => made = {}       \* other parts will do

\* No more deliveries are made, and none is under way.
RevisionsOver ==
    /\ part = "revision"
    /\ asks = MaxAsks
    /\ \A d \in Deliveries : step[d] \in Resting
    /\ UNCHANGED allVars

\* The page has used up its handlers, or stands still before.
PageRests == part = "page" /\ UNCHANGED allVars

Next ==
    \/ part = "events" /\ EventsNext /\ UNCHANGED <<revisionVars, passVars, pageVars, part>>
    \/ part = "revision" /\ RevisionNext /\ UNCHANGED <<eventVars, passVars, pageVars, part>>
    \/ part = "pass" /\ PassNext /\ UNCHANGED <<eventVars, revisionVars, pageVars, part>>
    \/ part = "page" /\ PageNext /\ UNCHANGED <<eventVars, revisionVars, passVars, part>>
    \/ RevisionsOver
    \/ PageRests

Spec == Init /\ [][Next]_allVars

TypeOK == EventsTypeOK /\ RevisionTypeOK /\ PassTypeOK /\ PageTypeOK
=============================================================================
