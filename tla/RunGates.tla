------------------------------ MODULE RunGates ------------------------------
(***************************************************************************)
(* What decides whether autonomous work on a run may go on: the status of  *)
(* the run, its human feedback items, and whether some A2A task is         *)
(* stopped.  The endpoints of app.py through which people change them are  *)
(* held by desks; each await of the store is a step.                       *)
(***************************************************************************)
EXTENDS Naturals, FiniteSets

CONSTANTS Profiles,  \* worker profiles of the run
          NoProfile, \* no profile
          Policies,  \* what a confirmation is about: a policy status and a query
          Items,     \* feedback items that can be recorded: a bound
          Desks      \* concurrent calls of the endpoints

ASSUME GateAssumption == NoProfile \notin Profiles

VARIABLES runStatus, \* runs.status
          feedback,  \* feedback[i]: the row of item i, and its history
          stopped,   \* some A2A task is blocked, waits for a human or is in a cycle
          desk

gateVars == <<runStatus, feedback, stopped>>

RunStatus == {"running", "waiting_for_human", "completed"}

\* Nothing here tells a resolved item from a rejected one: both are answered.
FeedbackStatus == {"absent", "open", "routed", "answered"}

\* The metadata by which a heartbeat finds its own gates again: the profile,
\* and the project memory policy it asks a person to confirm.
Gate == Profiles \X Policies

NoGate == <<>>

\* An item that asks: for an answer, or for the agent it was routed to.
Standing == {"open", "routed"}

\* reopened is history for the properties: no step reads it.
Item ==
    [status   : FeedbackStatus,
     gate     : Gate \cup {NoGate},
     reopened : BOOLEAN]    \* asks again after an answer

NewItem(g) == [status |-> "open", gate |-> g, reopened |-> FALSE]

IdleDesk == [pc |-> "idle", next |-> "running"]

DeskState == [pc : {"idle", "count", "read", "named", "write"}, next : RunStatus]

GatesTypeOK ==
    /\ runStatus \in RunStatus
    /\ feedback \in [Items -> Item]
    /\ stopped \in BOOLEAN
    /\ desk \in [Desks -> DeskState]

GatesInit ==
    /\ runStatus = "running"
    /\ feedback = [i \in Items |-> [NewItem(NoGate) EXCEPT !.status = "absent"]]
    /\ stopped = FALSE
    /\ desk = [d \in Desks |-> IdleDesk]

-----------------------------------------------------------------------------
\* list_feedback(run_id, status = OPEN)
OpenItems == {i \in Items : feedback[i].status = "open"}

Unused == {i \in Items : feedback[i].status = "absent"}

\* record_feedback
RecordFeedback(i, g) ==
    /\ i \in Unused
    /\ feedback' = [feedback EXCEPT ![i] = NewItem(g)]

\* update_feedback_status: whatever the item's status is.
UpdateFeedbackStatus(i, s) ==
    feedback' = [feedback EXCEPT
      ![i].status = s,
      ![i].reopened = s \in Standing /\ (@ \/ feedback[i].status \notin Standing)]

\* Faulty variant of GatesOf: the routed items are forgotten.
OpenGatesOf(g) ==
    {i \in Items : feedback[i].gate = g /\ feedback[i].status = "open"}

\* The items that ask for g and wait for an answer, or for the agent they were
\* routed to.
GatesOf(g) ==
    {i \in Items : feedback[i].gate = g /\ feedback[i].status \in Standing}

-----------------------------------------------------------------------------
Goto(d, label, s) == desk' = [desk EXCEPT ![d] = [pc |-> label, next |-> s]]

Leave(d) == desk' = [desk EXCEPT ![d] = IdleDesk]

\* The last write of most handlers.
WriteRunStatus(d) ==
    /\ desk[d].pc = "write"
    /\ runStatus' = desk[d].next
    /\ Leave(d)
    /\ UNCHANGED <<feedback, stopped>>

\* open_human_feedback_gate records the item, then parks the run.
OpenGate(d) ==
    /\ desk[d] = IdleDesk
    /\ \E i \in Items : RecordFeedback(i, NoGate)
    /\ Goto(d, "write", "waiting_for_human")
    /\ UNCHANGED <<runStatus, stopped>>

\* A gated A2A message, or a task set to blocked or waiting_for_human, parks
\* the run without a feedback item.
StopTask(d) ==
    /\ desk[d] = IdleDesk
    /\ stopped' \in {stopped, TRUE}
    /\ Goto(d, "write", "waiting_for_human")
    /\ UNCHANGED <<runStatus, feedback>>

\* Retry and dependency repair release one task and let the run go on,
\* whatever else holds it up.
ReleaseTask(d) ==
    /\ desk[d] = IdleDesk
    /\ stopped
    /\ stopped' \in BOOLEAN
    /\ Goto(d, "write", "running")
    /\ UNCHANGED <<runStatus, feedback>>

\* resolve_feedback: the item first, to any status from any.  Then the run, if
\* the request names a status for it or, unlike a rejection, resolves the item.
Answer(d, i, s) ==
    /\ desk[d] = IdleDesk
    /\ feedback[i].status # "absent"
    /\ s # "absent"
    /\ UpdateFeedbackStatus(i, s)
    /\ \/ Goto(d, "named", "running")
       \/ s = "answered" /\ Goto(d, "count", "running")
       \/ UNCHANGED desk
    /\ UNCHANGED <<runStatus, stopped>>

\* The run is left alone while other items are open.
CountOpenItems(d) ==
    /\ desk[d].pc = "count"
    /\ IF OpenItems = {} THEN Goto(d, "read", "running") ELSE Leave(d)
    /\ UNCHANGED gateVars

\* A status that the request names is written whatever else is open.  Otherwise
\* the run goes on if tasks linked to the item are pending, and is completed if
\* none is.
ChooseRunStatus(d) ==
    /\ \E s \in RunStatus :
         /\ desk[d].pc = "named" \/ (desk[d].pc = "read" /\ s # "waiting_for_human")
         /\ IF s = runStatus THEN Leave(d) ELSE Goto(d, "write", s)
    /\ UNCHANGED gateVars

\* The API process dies between two writes.
DropCall(d) ==
    /\ desk[d].pc # "idle"
    /\ Leave(d)
    /\ UNCHANGED gateVars

DeskNext ==
    \E d \in Desks :
        \/ WriteRunStatus(d)
        \/ OpenGate(d)
        \/ StopTask(d)
        \/ ReleaseTask(d)
        \/ \E i \in Items, s \in FeedbackStatus : Answer(d, i, s)
        \/ CountOpenItems(d)
        \/ ChooseRunStatus(d)
        \/ DropCall(d)
=============================================================================
