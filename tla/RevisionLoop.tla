---------------------------- MODULE RevisionLoop ----------------------------
(***************************************************************************)
(* POST /api/runs/{id}/revision-loop, which the conversation router calls  *)
(* too: the creator's words become one feedback item, tasks for the        *)
(* specialists, a revision of every target and a gate.  The handler writes *)
(* to the store step by step and may die between any two; its caller sends *)
(* the same words again, and deliveries of them overlap.                   *)
(***************************************************************************)
EXTENDS SequencesExt

CONSTANTS Words,      \* what is asked for
          Originals,  \* the content artifacts the run has brought forth
          Named,      \* the ids a request may name, of artifacts or of nothing
          Requests,   \* what creators send
          Recipients, \* the specialists that get a task, in order
          Reviewers,  \* those whose decision a revision carries, in order
          NoOne,      \* for a write about the item itself
          NoItem,     \* a delivery has no feedback item yet
          Deliveries, \* calls of the endpoint under way at once
          MaxAsks     \* bound on the deliveries made in all

\* A request that names no target is about whatever is current.
Request == [words : Words, gated : BOOLEAN, targets : SUBSET Named]

ASSUME RevisionAssumption ==
    /\ Requests \subseteq Request
    /\ Requests # {}
    /\ IsFiniteSet(Originals)
    /\ Recipients \in Seq(Range(Recipients))
    /\ Reviewers \in Seq(Range(Reviewers))
    /\ MaxAsks \in Nat

VARIABLES feedback,  \* the items of the run, the latest last
          recorded,  \* tasks, revisions and events in the store
          runStatus,
          step,      \* step[d]: where delivery d awaits, or how it ended
          request,   \* request[d]: what it delivers
          item,      \* item[d]: its feedback item, which is its own id
          at,        \* at[d]: its position in the script of its item
          served,    \* the items some delivery of which was answered
          asks,      \* deliveries made
          raced      \* words two deliveries of which overlapped

revisionVars == <<feedback, recorded, runStatus, step, request, item, at, served, asks, raced>>

Resting == {"none", "answered", "refused", "lost"}

UnderWay == {"find", "select", "record", "write"}

-----------------------------------------------------------------------------
\* _revision_artifact_id
Revision(f, a) == [item |-> f, parent |-> a]

Revised(store) == {w.about : w \in {v \in store : v.kind = "revision"}}

Artifacts ==
    Originals \cup {Revision(w.item, w.about) : w \in {v \in recorded : v.kind = "revision"}}

\* _leaf_content_artifacts
Leaves == Artifacts \ Revised(recorded)

Write(kind, f, about) == [kind |-> kind, item |-> f, about |-> about]

TasksOf(f) ==
    [i \in 1..(2 * Len(Recipients)) |->
        Write(IF i % 2 = 1 THEN "task" ELSE "accepted", f, Recipients[(i + 1) \div 2])]

\* What is written of one revision: the artifact itself and its events.
Marks == <<"revision", "artifact_revised">> \o Reviewers

RevisionsOf(f) ==
    [i \in 1..(Len(Marks) * Cardinality(f.targets)) |->
        Write(Marks[((i - 1) % Len(Marks)) + 1], f,
              SetToSeq(f.targets)[((i - 1) \div Len(Marks)) + 1])]

\* All that the words bring about, in the order the handler writes it.
Script(f) ==
    <<Write("feedback_recorded", f, NoOne), Write("revision_loop_started", f, NoOne)>>
    \o TasksOf(f)
    \o RevisionsOf(f)
    \o <<Write("status", f, NoOne),
         Write(IF f.gated THEN "gate_opened" ELSE "loop_completed", f, NoOne)>>

-----------------------------------------------------------------------------
RevisionTypeOK ==
    /\ feedback \in Seq(Range(feedback))
    /\ \A f \in Range(feedback) :
         /\ f.words \in Words
         /\ f.gated \in BOOLEAN
         /\ f.targets # {} /\ f.targets \subseteq Artifacts
    /\ runStatus \in {"running", "waiting_for_human", "completed"}
    /\ step \in [Deliveries -> Resting \cup UnderWay]
    /\ request \in [Deliveries -> Requests]
    /\ item = [d \in Deliveries |-> item[d]]
    /\ at \in [Deliveries -> Nat]
    /\ served \subseteq Range(feedback)
    /\ asks \in 0..MaxAsks
    /\ raced \subseteq Words

RevisionInit ==
    /\ feedback = <<>>
    /\ recorded = {}
    /\ runStatus = "waiting_for_human"
    /\ step = [d \in Deliveries |-> "none"]
    /\ request = [d \in Deliveries |-> CHOOSE q \in Requests : TRUE]
    /\ item = [d \in Deliveries |-> NoItem]
    /\ at = [d \in Deliveries |-> 1]
    /\ served = {}
    /\ asks = 0
    /\ raced = {}

Rest(d, outcome) ==
    /\ step' = [step EXCEPT ![d] = outcome]
    /\ request' = [request EXCEPT ![d] = CHOOSE q \in Requests : TRUE]
    /\ item' = [item EXCEPT ![d] = NoItem]
    /\ at' = [at EXCEPT ![d] = 1]

Ask(d, q) ==
    /\ step[d] \in Resting
    /\ asks < MaxAsks
    /\ asks' = asks + 1
    /\ step' = [step EXCEPT ![d] = "find"]
    /\ request' = [request EXCEPT ![d] = q]
    /\ runStatus' = "running"
    /\ raced' = raced \cup {q.words : e \in {e \in Deliveries \ {d} :
                                /\ step[e] \in UnderWay
                                /\ request[e].words = q.words}}
    /\ UNCHANGED <<feedback, recorded, item, at, served>>

\* _find_existing_revision_feedback
Matches(f, q) ==
    /\ f.words = q.words
    /\ f.gated = q.gated
    /\ q.targets \in {{}, f.targets}

\* Faulty variant of FindFeedback: the targets are chosen anew, the item only
\* recorded if absent.
FindNoFeedback(d) ==
    /\ step[d] = "find"
    /\ step' = [step EXCEPT ![d] = "select"]
    /\ UNCHANGED <<feedback, recorded, runStatus, request, item, at, served, asks, raced>>

\* Words that were sent before go on with the item and the targets they have,
\* those of the latest item that matches.
FindFeedback(d) ==
    /\ step[d] = "find"
    /\ LET found == {i \in DOMAIN feedback : Matches(feedback[i], request[d])} IN
       \/ /\ found = {}
          /\ step' = [step EXCEPT ![d] = "select"]
          /\ UNCHANGED item
       \/ \E i \in found :
          /\ \A j \in found : j <= i
          /\ step' = [step EXCEPT ![d] = "write"]
          /\ item' = [item EXCEPT ![d] = feedback[i]]
    /\ UNCHANGED <<feedback, recorded, runStatus, request, at, served, asks, raced>>

Targets(q) == IF q.targets = {} THEN Leaves ELSE q.targets \cap Artifacts

\* _select_revision_targets.  The run stays as Ask has set it.
Refuse(d) ==
    /\ step[d] = "select"
    /\ Targets(request[d]) = {}
    /\ Rest(d, "refused")
    /\ UNCHANGED <<feedback, recorded, runStatus, served, asks, raced>>

SelectTargets(d) ==
    /\ step[d] = "select"
    /\ Targets(request[d]) # {}
    /\ step' = [step EXCEPT ![d] = "record"]
    /\ item' = [item EXCEPT ![d] = [words |-> request[d].words,
                                    gated |-> request[d].gated,
                                    targets |-> Targets(request[d])]]
    /\ UNCHANGED <<feedback, recorded, runStatus, request, at, served, asks, raced>>

\* record_feedback_if_absent: the id is derived from words, gate and targets.
RecordFeedback(d) ==
    /\ step[d] = "record"
    /\ step' = [step EXCEPT ![d] = "write"]
    /\ feedback' = IF item[d] \in Range(feedback) THEN feedback ELSE Append(feedback, item[d])
    /\ UNCHANGED <<recorded, runStatus, request, item, at, served, asks, raced>>

\* Faulty variant of TakeStep: a revision that is there was told of.
SkipRevised(d) ==
    /\ step[d] = "write"
    /\ at[d] <= Len(Script(item[d]))
    /\ LET w == Script(item[d])[at[d]] IN
       /\ recorded' = IF w.kind = "status" THEN recorded ELSE recorded \cup {w}
       /\ runStatus' = IF w.kind # "status" THEN runStatus
                       ELSE IF item[d].gated THEN "waiting_for_human" ELSE "completed"
       /\ at' = [at EXCEPT ![d] = IF w.kind = "revision" /\ w \in recorded
                                  THEN @ + Len(Marks) ELSE @ + 1]
    /\ UNCHANGED <<feedback, step, request, item, served, asks, raced>>

\* Faulty variant of TakeStep: a loop that was closed is not closed again.
CloseOnce(d) ==
    /\ step[d] = "write"
    /\ at[d] <= Len(Script(item[d]))
    /\ LET w == Script(item[d])[at[d]] IN
       /\ recorded' = IF w.kind = "status" THEN recorded ELSE recorded \cup {w}
       /\ runStatus' = IF w.kind # "status" \/ item[d] \in served THEN runStatus
                       ELSE IF item[d].gated THEN "waiting_for_human" ELSE "completed"
    /\ at' = [at EXCEPT ![d] = @ + 1]
    /\ UNCHANGED <<feedback, step, request, item, served, asks, raced>>

\* The next write of the script.  All are made if absent, under ids or keys
\* derived from the item, except for the status of the run.
TakeStep(d) ==
    /\ step[d] = "write"
    /\ at[d] <= Len(Script(item[d]))
    /\ LET w == Script(item[d])[at[d]] IN
       \/ /\ w.kind # "status"
          /\ recorded' = recorded \cup {w}
          /\ UNCHANGED runStatus
       \/ /\ w.kind = "status"
          /\ runStatus' = IF item[d].gated THEN "waiting_for_human" ELSE "completed"
          /\ UNCHANGED recorded
    /\ at' = [at EXCEPT ![d] = @ + 1]
    /\ UNCHANGED <<feedback, step, request, item, served, asks, raced>>

RespondRevised(d) ==
    /\ step[d] = "write"
    /\ at[d] > Len(Script(item[d]))
    /\ served' = served \cup {item[d]}
    /\ Rest(d, "answered")
    /\ UNCHANGED <<feedback, recorded, runStatus, asks, raced>>

\* The process or its connection to the store dies.
LoseDelivery(d) ==
    /\ step[d] \in UnderWay
    /\ Rest(d, "lost")
    /\ UNCHANGED <<feedback, recorded, runStatus, served, asks, raced>>

RevisionNext ==
    \E d \in Deliveries :
        \/ \E q \in Requests : Ask(d, q)
        \/ FindFeedback(d)
        \/ Refuse(d)
        \/ SelectTargets(d)
        \/ RecordFeedback(d)
        \/ TakeStep(d)
        \/ RespondRevised(d)
        \/ LoseDelivery(d)

RevisionSpec == RevisionInit /\ [][RevisionNext]_revisionVars

-----------------------------------------------------------------------------
\* Feedback whose delivery was answered has everything the words ask for in
\* the store, tasks, revisions, reviews and events, although earlier
\* deliveries of it may have died at any write and others overlap it
\* (RevisionWorkflow.run, _revise_artifacts, _append_revision_event_once).
AnsweredIsRevised ==
    \A f \in served : \A i \in DOMAIN Script(f) :
        Script(f)[i].kind # "status" => Script(f)[i] \in recorded

\* The same words make one item, and revise the same artifacts, however often
\* they are sent and wherever a delivery of them died: a second item comes
\* only of naming other targets or of two deliveries that overlapped
\* (_find_existing_revision_feedback, _revision_feedback_id).
WordsMakeOneItem ==
    \A f, g \in Range(feedback) :
        f # g /\ f.words = g.words /\ f.gated = g.gated =>
            \/ f.words \in raced
            \/ \E q \in Requests :
                  /\ q.words = f.words /\ q.gated = f.gated
                  /\ f.targets \subseteq q.targets \/ g.targets \subseteq q.targets

\* When every delivery that was made was in the end answered, the run does not
\* stay running: a delivery of words that were dealt with sets it running too,
\* and has to put it back (RevisionWorkflow.run, _close_or_reopen_gate).
AnsweredRunIsSettled ==
    /\ \A d \in Deliveries : step[d] \in {"none", "answered"}
    /\ \E d \in Deliveries : step[d] = "answered"
    => runStatus # "running"
=============================================================================
