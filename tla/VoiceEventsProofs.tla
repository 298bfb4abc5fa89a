-------------------------- MODULE VoiceEventsProofs --------------------------
(***************************************************************************)
(* For every set of turns, responses, events and calls: what is delivered  *)
(* amounts to a dialogue of VoiceDialogue, and an answered event has been  *)
(* applied in full.  The inductive invariant says what each call knows at  *)
(* its place in the handler.  It survives the steps of the other calls     *)
(* because the dialogue only grows: that is read off VoiceDialogue, once,  *)
(* after each step has been shown to be one of its steps.                  *)
(***************************************************************************)
EXTENDS VoiceEvents, TLAPS

\* What a call knows of the event it serves, by its place in the handler.
CallOK(c) ==
    LET e  == call[c].event
        pc == call[c].pc
    IN  /\ pc = "record" => e.kind \in {"committed", "completed"}
        /\ pc = "promote" => /\ e.kind = "committed" /\ e.text \in Texts
                             /\ turn[e.about] # "absent"
        /\ pc \in {"list", "sync"} => /\ e.kind = "committed" /\ e.text \in Texts
                                      /\ turn[e.about] = e.text
        /\ pc = "sync" => \A r \in call[c].todo : SourceOf[r] = e.about /\ task[r] # "absent"
        /\ pc \in {"follow", "source", "insert"} => e.kind = "completed" /\ e.about \in reply
        /\ pc = "insert" => call[c].quote \in Dialogue!Quotable(e.about)
        /\ pc = "report" => e.kind = "failed"

CallsOK == \A c \in Calls : CallOK(c)

FollowupsHaveReplies == \A r \in Responses : task[r] # "absent" => r \in reply

EventsInv ==
    /\ EventsTypeOK
    /\ CallsOK
    /\ FollowupsHaveReplies
    /\ AnsweredIsApplied

\* What a dialogue never takes back.
Grown ==
    /\ \A v \in Turns : turn[v] # "absent" => turn'[v] # "absent"
    /\ \A v \in Turns : turn[v] \in Texts => turn'[v] = turn[v]
    /\ reply \subseteq reply'
    /\ failure \subseteq failure'
    /\ \A r \in Responses : task[r] # "absent" => task'[r] # "absent"

-----------------------------------------------------------------------------
LEMMA EventShape ==
  ASSUME NEW e \in Events
  PROVE  /\ e.kind \in {"committed", "completed", "failed"}
         /\ e.kind = "committed" => e.about \in Turns /\ e.text \in Texts \cup {NoText}
         /\ e.kind = "completed" => e.about \in Responses /\ e.text \in Texts \cup {NoText}
         /\ e.kind = "failed" => e.about \in Responses
  BY EventAssumption DEF Event

LEMMA IdleShape == IdleCall \in CallState /\ IdleCall.pc = "idle"
<1>1. (CHOOSE e \in Events : TRUE) \in Events
  BY EventAssumption
<1> QED
  BY <1>1 DEF IdleCall, CallState

LEMMA InitEvents == EventsInit => EventsInv
<1> SUFFICES ASSUME EventsInit PROVE EventsInv
  OBVIOUS
<1>1. EventsTypeOK
  BY IdleShape DEF EventsInit, Dialogue!DialogueInit, EventsTypeOK
<1>2. CallsOK
  BY IdleShape DEF EventsInit, CallsOK, CallOK
<1>3. FollowupsHaveReplies /\ AnsweredIsApplied
  BY DEF EventsInit, Dialogue!DialogueInit, FollowupsHaveReplies, AnsweredIsApplied
<1> QED
  BY <1>1, <1>2, <1>3 DEF EventsInv

\* The steps of the abstract dialogue take nothing back, and a follow-up
\* comes after its response.
LEMMA DialogueGrows ==
  ASSUME EventsTypeOK, FollowupsHaveReplies,
         [Dialogue!DialogueNext]_(Dialogue!dialogue)
  PROVE  Grown /\ FollowupsHaveReplies'
<1> USE DEF EventsTypeOK, FollowupsHaveReplies, Grown
<1>0. Texts \cap {"absent", "pending", "unknown"} = {}
  BY VoiceAssumption
<1>1. ASSUME NEW v \in Turns, NEW s \in {"pending"} \cup Texts, Dialogue!EnterTurn(v, s)
      PROVE  Grown /\ FollowupsHaveReplies'
  BY <1>0, <1>1 DEF Dialogue!EnterTurn
<1>2. ASSUME NEW r \in Responses, Dialogue!EnterReply(r) \/ Dialogue!ReviewFailure(r)
      PROVE  Grown /\ FollowupsHaveReplies'
  BY <1>2 DEF Dialogue!EnterReply, Dialogue!ReviewFailure
<1>3. ASSUME NEW r \in Responses, NEW s \in {"unknown", "pending"} \cup Texts,
             Dialogue!FollowUp(r, s)
      PROVE  Grown /\ FollowupsHaveReplies'
  BY <1>0, <1>3 DEF Dialogue!FollowUp
<1>4. CASE UNCHANGED Dialogue!dialogue
  BY <1>4 DEF Dialogue!dialogue
<1> QED
  BY <1>1, <1>2, <1>3, <1>4 DEF Dialogue!DialogueNext

-----------------------------------------------------------------------------
\* The event has left all its effects behind.
Applied(e) ==
    /\ e.kind = "committed" =>
         /\ turn[e.about] # "absent"
         /\ e.text # NoText => turn[e.about] \in Texts
    /\ e.kind = "completed" /\ e.text # NoText =>
         e.about \in reply /\ task[e.about] # "absent"
    /\ e.kind = "failed" => e.about \in failure

\* A step of a call is one of the dialogue or leaves it alone, what the call
\* knows afterwards is true, and if it answers, the event has been applied.
Kept(c) ==
    /\ EventsTypeOK'
    /\ [Dialogue!DialogueNext]_(Dialogue!dialogue)
    /\ \A d \in Calls : d # c => call'[d] = call[d]
    /\ CallOK(c)'
    /\ \/ answered' = answered
       \/ \E e \in Events : answered' = answered \cup {e} /\ Applied(e)'

LEMMA KeptKeepsInv ==
  ASSUME EventsInv, NEW c \in Calls, Kept(c)
  PROVE  EventsInv'
<1>1. Grown /\ FollowupsHaveReplies'
  BY DialogueGrows DEF EventsInv, Kept
<1>2. \A d \in Calls : call[d].event \in Events
  BY DEF EventsInv, EventsTypeOK, CallState
<1>3. CallsOK'
  <2> SUFFICES ASSUME NEW d \in Calls, d # c PROVE CallOK(d)'
    BY DEF Kept, CallsOK
  <2>1. CallOK(d) /\ call'[d] = call[d] /\ call[d] \in CallState
    BY DEF EventsInv, EventsTypeOK, CallsOK, Kept
  <2>2. /\ call[d].event.kind = "committed" => call[d].event.about \in Turns
        /\ call[d].event.kind = "completed" => call[d].event.about \in Responses
    BY <1>2, EventShape
  <2>3. ASSUME NEW r \in Responses, NEW q \in Dialogue!Quotable(r)
        PROVE  q \in Dialogue!Quotable(r)'
    BY <2>3, <1>1, VoiceAssumption DEF Grown, Dialogue!Quotable
  <2>4. call[d].pc = "insert" => call[d].quote \in Dialogue!Quotable(call[d].event.about)'
    BY <2>1, <2>2, <2>3 DEF CallOK
  <2>5. call[d].pc = "sync" =>
            \A r \in call[d].todo : SourceOf[r] = call[d].event.about /\ task'[r] # "absent"
    BY <2>1, <1>1 DEF CallOK, Grown, CallState
  <2> QED
    BY <2>1, <2>2, <2>4, <2>5, <1>1 DEF CallOK, Grown
<1>4. AnsweredIsApplied'
  <2>1. ASSUME NEW e \in Events, Applied(e) PROVE Applied(e)'
    BY <2>1, <1>1, EventShape DEF Applied, Grown
  <2>2. \A e \in answered : e \in Events /\ Applied(e)
    BY DEF EventsInv, EventsTypeOK, AnsweredIsApplied, Applied
  <2>3. \A e \in answered' : Applied(e)'
    BY <2>1, <2>2 DEF Kept
  <2> QED
    BY <2>3 DEF AnsweredIsApplied, Applied
<1> QED
  BY <1>1, <1>3, <1>4 DEF EventsInv, Kept

\* Answering, losing or passing on a call.
LEMMA CallTypes ==
  ASSUME EventsTypeOK, NEW c \in Calls
  PROVE  /\ call[c] \in CallState
         /\ Of(c) \in Events
         /\ \A s \in CallState : [call EXCEPT ![c] = s] \in [Calls -> CallState]
  BY DEF EventsTypeOK, CallState, Of

LEMMA AwaitShape ==
  ASSUME EventsTypeOK, NEW c \in Calls,
         NEW label \in {"append", "find", "record", "promote", "list", "sync",
                        "follow", "source", "insert", "report"},
         Await(c, label)
  PROVE  /\ call' \in [Calls -> CallState]
         /\ call'[c].pc = label /\ call'[c].event = Of(c)
         /\ call'[c].todo = call[c].todo /\ call'[c].quote = call[c].quote
         /\ \A d \in Calls : d # c => call'[d] = call[d]
  BY DEF EventsTypeOK, CallState, Of, Await

LEMMA AnswerShape ==
  ASSUME EventsTypeOK, NEW c \in Calls, Answer(c)
  PROVE  /\ call' \in [Calls -> CallState]
         /\ answered' = answered \cup {Of(c)} /\ answered' \subseteq Events
         /\ CallOK(c)'
         /\ \A d \in Calls : d # c => call'[d] = call[d]
<1>1. call'[c] = IdleCall
  BY DEF Answer, EventsTypeOK
<1> QED
  BY <1>1, CallTypes, IdleShape DEF Answer, EventsTypeOK, CallOK

\* The part of the type invariant that is not about calls.
DialogueTypeOK ==
    /\ turn \in [Turns -> {"absent", "pending"} \cup Texts]
    /\ reply \subseteq Responses
    /\ task \in [Responses -> {"absent", "unknown", "pending"} \cup Texts]
    /\ failure \subseteq Responses

LEMMA AnswerKept ==
  ASSUME EventsInv, NEW c \in Calls, NEW e \in Events, Of(c) = e,
         Answer(c), Applied(e)', logged' = logged, DialogueTypeOK',
         [Dialogue!DialogueNext]_(Dialogue!dialogue)
  PROVE  Kept(c)
  BY AnswerShape DEF Kept, EventsInv, EventsTypeOK, DialogueTypeOK

LEMMA AwaitKept ==
  ASSUME EventsInv, NEW c \in Calls,
         NEW label \in {"append", "find", "record", "promote", "list", "sync",
                        "follow", "source", "insert", "report"},
         Await(c, label), CallOK(c)',
         UNCHANGED <<logged, answered>>, DialogueTypeOK',
         [Dialogue!DialogueNext]_(Dialogue!dialogue)
  PROVE  Kept(c)
  BY AwaitShape DEF Kept, EventsInv, EventsTypeOK, DialogueTypeOK

LEMMA CallInv ==
  ASSUME EventsInv, NEW c \in Calls
  PROVE  /\ EventsTypeOK /\ DialogueTypeOK /\ CallOK(c)
         /\ call[c] \in CallState /\ Of(c) \in Events
  BY CallTypes DEF EventsInv, EventsTypeOK, CallsOK, DialogueTypeOK

-----------------------------------------------------------------------------
LEMMA DeliverKept ==
  ASSUME EventsInv, NEW c \in Calls, NEW e \in Events, Deliver(c, e)
  PROVE  Kept(c)
<1> DEFINE s == [IdleCall EXCEPT !.pc = IF e \in logged THEN "find" ELSE "append",
                                 !.event = e]
<1>1. s \in CallState /\ s.pc \in {"find", "append"}
  BY IdleShape DEF CallState
<1>2. call' = [call EXCEPT ![c] = s] /\ UNCHANGED <<turn, reply, task, failure, logged, answered>>
  BY DEF Deliver
<1>3. call'[c] = s /\ \A d \in Calls : d # c => call'[d] = call[d]
  BY <1>2 DEF EventsInv, EventsTypeOK
<1> QED
  BY <1>1, <1>2, <1>3 DEF EventsInv, EventsTypeOK, Kept, CallOK, Dialogue!dialogue

LEMMA LoseKept ==
  ASSUME EventsInv, NEW c \in Calls, LoseCall(c)
  PROVE  Kept(c)
<1>1. call'[c] = IdleCall /\ \A d \in Calls : d # c => call'[d] = call[d]
  BY DEF LoseCall, EventsInv, EventsTypeOK
<1> QED
  BY <1>1, CallInv, IdleShape
     DEF LoseCall, EventsTypeOK, Kept, CallOK, Dialogue!dialogue

LEMMA AppendKept ==
  ASSUME EventsInv, NEW c \in Calls, AppendEvent(c)
  PROVE  Kept(c)
<1>1. EventsTypeOK /\ Of(c) \in Events
  BY CallTypes DEF EventsInv
<1>2. ASSUME NEW label \in {"report", "record"}, Await(c, label),
             IF label = "report" THEN Of(c).kind = "failed" ELSE Of(c).kind # "failed"
      PROVE  Kept(c)
  BY <1>1, <1>2, AwaitShape, EventShape
     DEF AppendEvent, EventsTypeOK, Kept, CallOK, Dialogue!dialogue
<1> QED
  BY <1>2 DEF AppendEvent

LEMMA FindKept ==
  ASSUME EventsInv, NEW c \in Calls, FindTurn(c)
  PROVE  Kept(c)
<1> PICK e \in Events : Of(c) = e
  BY CallInv
<1>0. DialogueTypeOK' /\ logged' = logged /\ [Dialogue!DialogueNext]_(Dialogue!dialogue)
  BY CallInv DEF FindTurn, DialogueTypeOK, Dialogue!dialogue
<1>1. CASE e.kind = "committed" /\ Answer(c)
  <2>1. turn[e.about] # "absent" /\ e.text = NoText
    <3>1. call'[c].pc = "idle"
      BY <1>1, CallInv, IdleShape DEF Answer, EventsTypeOK
    <3>2. ~Await(c, "record")
      BY <3>1, CallInv, AwaitShape
    <3> QED
      BY <1>1, <3>2 DEF FindTurn, About
  <2>2. Applied(e)'
    BY <1>1, <2>1 DEF Applied, FindTurn
  <2> QED
    BY <1>0, <1>1, <2>2, AnswerKept
<1>2. ASSUME NEW label \in {"record", "follow", "report"}, Await(c, label), answered' = answered,
             label = "record" => e.kind \in {"committed", "completed"},
             label = "follow" => e.kind = "completed" /\ e.about \in reply,
             label = "report" => e.kind = "failed"
      PROVE  Kept(c)
  <2>1. CallOK(c)'
    BY <1>2, AwaitShape, CallInv DEF CallOK, FindTurn
  <2> QED
    BY <1>0, <1>2, <2>1, AwaitKept
<1> QED
  BY <1>1, <1>2 DEF FindTurn, About

LEMMA RecordTurnKept ==
  ASSUME EventsInv, NEW c \in Calls, RecordUserTurn(c)
  PROVE  Kept(c)
<1> PICK e \in Events : Of(c) = e
  BY CallInv
<1> DEFINE s == IF e.text = NoText THEN "pending" ELSE e.text
<1>0. /\ EventsTypeOK /\ DialogueTypeOK /\ e.kind = "committed"
      /\ e.about \in Turns /\ e.text \in Texts \cup {NoText}
  BY CallInv, EventShape DEF RecordUserTurn
<1>1. CASE turn[e.about] = "absent"
  <2>1. Dialogue!EnterTurn(e.about, s) /\ s \in {"pending"} \cup Texts
    BY <1>0, <1>1 DEF RecordUserTurn, About, Dialogue!EnterTurn
  <2>2. DialogueTypeOK'
    BY <1>0, <2>1 DEF Dialogue!EnterTurn, DialogueTypeOK
  <2>3. Applied(e)'
    BY <1>0, <2>1, VoiceAssumption DEF Applied, Dialogue!EnterTurn, DialogueTypeOK
  <2>4. Dialogue!DialogueNext
    BY <1>0, <2>1 DEF Dialogue!DialogueNext
  <2> QED
    BY <1>1, <2>2, <2>3, <2>4, AnswerKept DEF RecordUserTurn, About
<1>2. CASE turn[e.about] # "absent"
  <2>0. DialogueTypeOK' /\ logged' = logged /\ UNCHANGED Dialogue!dialogue
    BY <1>0, <1>2 DEF RecordUserTurn, About, DialogueTypeOK, Dialogue!dialogue
  <2>1. CASE e.text = NoText
    <3>1. Applied(e)'
      BY <1>0, <1>2, <2>0, <2>1 DEF Applied, Dialogue!dialogue
    <3> QED
      BY <1>2, <2>0, <2>1, <3>1, AnswerKept DEF RecordUserTurn, About
  <2>2. CASE e.text # NoText
    <3>1. Await(c, "promote") /\ UNCHANGED answered
      BY <1>2, <2>2 DEF RecordUserTurn, About
    <3>2. CallOK(c)'
      BY <1>0, <1>2, <2>0, <2>2, <3>1, AwaitShape DEF CallOK, Dialogue!dialogue
    <3> QED
      BY <2>0, <3>1, <3>2, AwaitKept
  <2> QED
    BY <2>1, <2>2
<1> QED
  BY <1>1, <1>2

LEMMA PromoteKept ==
  ASSUME EventsInv, NEW c \in Calls, PromoteTranscript(c)
  PROVE  Kept(c)
<1> PICK e \in Events : Of(c) = e
  BY CallInv
<1>0. /\ EventsTypeOK /\ DialogueTypeOK /\ e.kind = "committed"
      /\ e.about \in Turns /\ e.text \in Texts /\ turn[e.about] # "absent"
  BY CallInv, EventShape DEF PromoteTranscript, CallOK, Of
<1>1. CASE turn[e.about] = "pending" /\ Await(c, "list")
  <2>0. turn' = [turn EXCEPT ![e.about] = e.text] /\ UNCHANGED <<reply, task, failure, logged, answered>>
    BY <1>0, <1>1, VoiceAssumption DEF PromoteTranscript, About
  <2>1. Dialogue!EnterTurn(e.about, e.text)
    BY <1>1, <2>0 DEF Dialogue!EnterTurn
  <2>2. DialogueTypeOK'
    BY <1>0, <2>0 DEF DialogueTypeOK
  <2>3. CallOK(c)'
    BY <1>0, <1>1, <2>0, AwaitShape DEF CallOK, DialogueTypeOK
  <2>4. Dialogue!DialogueNext
    BY <1>0, <2>1 DEF Dialogue!DialogueNext
  <2> QED
    BY <1>1, <2>0, <2>2, <2>3, <2>4, AwaitKept
<1>2. CASE turn[e.about] = e.text /\ Await(c, "list") /\ UNCHANGED <<turn, answered>>
  <2>1. DialogueTypeOK' /\ logged' = logged /\ UNCHANGED Dialogue!dialogue
    BY <1>0, <1>2 DEF PromoteTranscript, DialogueTypeOK, Dialogue!dialogue
  <2>2. CallOK(c)'
    BY <1>0, <1>2, AwaitShape DEF CallOK
  <2> QED
    BY <1>2, <2>1, <2>2, AwaitKept
<1>3. CASE turn[e.about] \notin {"pending", e.text} /\ Answer(c) /\ UNCHANGED turn
  <2>1. DialogueTypeOK' /\ logged' = logged /\ UNCHANGED Dialogue!dialogue
    BY <1>0, <1>3 DEF PromoteTranscript, DialogueTypeOK, Dialogue!dialogue
  <2>2. Applied(e)'
    BY <1>0, <1>3 DEF Applied, DialogueTypeOK
  <2> QED
    BY <1>3, <2>1, <2>2, AnswerKept
<1> QED
  BY <1>1, <1>2, <1>3 DEF PromoteTranscript, About

LEMMA ListKept ==
  ASSUME EventsInv, NEW c \in Calls, ListFollowups(c)
  PROVE  Kept(c)
<1> PICK e \in Events : Of(c) = e
  BY CallInv
<1> DEFINE todo == {r \in Responses : SourceOf[r] = e.about /\ task[r] \notin {"absent", e.text}}
           s == [call[c] EXCEPT !.pc = "sync", !.todo = todo]
<1>1. call' = [call EXCEPT ![c] = s] /\ UNCHANGED <<turn, reply, task, failure, logged, answered>>
  BY DEF ListFollowups, About
<1>2. s \in CallState /\ s.pc = "sync" /\ s.event = e /\ s.todo = todo
  BY CallInv DEF CallState, Of
<1>3. /\ call'[c] = s /\ call' \in [Calls -> CallState]
      /\ \A d \in Calls : d # c => call'[d] = call[d]
  BY <1>1, <1>2, CallInv DEF EventsTypeOK
<1>4. e.kind = "committed" /\ e.text \in Texts /\ turn[e.about] = e.text
  BY CallInv DEF ListFollowups, CallOK, Of
<1>5. CallOK(c)'
  BY <1>1, <1>2, <1>3, <1>4 DEF CallOK
<1> QED
  BY <1>1, <1>3, <1>5, CallInv DEF Kept, EventsTypeOK, Dialogue!dialogue

LEMMA SyncKept ==
  ASSUME EventsInv, NEW c \in Calls, SyncFollowup(c)
  PROVE  Kept(c)
<1> PICK e \in Events : Of(c) = e
  BY CallInv
<1> PICK r \in call[c].todo : /\ task' = [task EXCEPT ![r] = e.text]
                              /\ call' = [call EXCEPT ![c].todo = @ \ {r}]
  BY DEF SyncFollowup
<1> DEFINE s == [call[c] EXCEPT !.todo = @ \ {r}]
<1>1. call' = [call EXCEPT ![c] = s] /\ UNCHANGED <<turn, reply, failure, logged, answered>>
  BY DEF SyncFollowup
<1>2. /\ s \in CallState /\ s.pc = "sync" /\ s.event = e
      /\ s.todo \subseteq call[c].todo /\ r \in Responses /\ call[c].todo \subseteq Responses
  BY CallInv DEF CallState, Of, SyncFollowup
<1>3. /\ call'[c] = s /\ call' \in [Calls -> CallState]
      /\ \A d \in Calls : d # c => call'[d] = call[d]
  BY <1>1, <1>2, CallInv DEF EventsTypeOK
<1>4. /\ e.kind = "committed" /\ e.text \in Texts /\ turn[e.about] = e.text
      /\ \A q \in call[c].todo : SourceOf[q] = e.about /\ task[q] # "absent"
  BY CallInv DEF SyncFollowup, CallOK, Of
<1>5. \A q \in call[c].todo : task'[q] # "absent"
  BY <1>2, <1>4, VoiceAssumption, CallInv DEF DialogueTypeOK
<1>6. CallOK(c)'
  BY <1>1, <1>2, <1>3, <1>4, <1>5 DEF CallOK
<1>7. Dialogue!FollowUp(r, e.text)
  <2>1. e.about \in Turns /\ r \in reply
    BY <1>2, <1>4, EventShape DEF EventsInv, FollowupsHaveReplies
  <2>2. e.text \in Dialogue!Quotable(r) \cap Texts
    BY <1>4, <2>1, VoiceAssumption DEF Dialogue!Quotable
  <2> QED
    BY <1>1, <1>4, <2>1, <2>2 DEF Dialogue!FollowUp
<1>8. Dialogue!DialogueNext
  BY <1>2, <1>4, <1>7 DEF Dialogue!DialogueNext
<1> QED
  BY <1>1, <1>2, <1>3, <1>4, <1>6, <1>8, CallInv DEF Kept, EventsTypeOK, DialogueTypeOK

LEMMA SyncedKept ==
  ASSUME EventsInv, NEW c \in Calls, FollowupsSynced(c)
  PROVE  Kept(c)
<1> PICK e \in Events : Of(c) = e
  BY CallInv
<1>1. e.kind = "committed" /\ e.text \in Texts /\ turn[e.about] = e.text
  BY CallInv DEF FollowupsSynced, CallOK, Of
<1>2. Applied(e)'
  BY <1>1, VoiceAssumption DEF Applied, FollowupsSynced
<1>3. DialogueTypeOK' /\ logged' = logged /\ UNCHANGED Dialogue!dialogue
  BY CallInv DEF FollowupsSynced, DialogueTypeOK, Dialogue!dialogue
<1> QED
  BY <1>2, <1>3, AnswerKept DEF FollowupsSynced

LEMMA ReplyKept ==
  ASSUME EventsInv, NEW c \in Calls, RecordReply(c)
  PROVE  Kept(c)
<1> PICK e \in Events : Of(c) = e
  BY CallInv
<1>0. e.kind = "completed" /\ e.about \in Responses
  BY EventShape DEF RecordReply
<1>1. CASE e.text = NoText
  <2>1. DialogueTypeOK' /\ logged' = logged /\ UNCHANGED Dialogue!dialogue
    BY <1>1, CallInv DEF RecordReply, DialogueTypeOK, Dialogue!dialogue
  <2>2. CASE e.about \in reply
    <3>1. Await(c, "follow") /\ UNCHANGED <<answered, turn, reply, task, failure, logged>>
      BY <1>1, <2>2 DEF RecordReply, About
    <3>2. CallOK(c)'
      BY <1>0, <2>2, <3>1, AwaitShape, CallInv DEF CallOK
    <3> QED
      BY <2>1, <3>1, <3>2, AwaitKept
  <2>3. CASE e.about \notin reply
    <3>1. Answer(c)
      BY <1>1, <2>3 DEF RecordReply, About
    <3>2. Applied(e)'
      BY <1>0, <1>1 DEF Applied
    <3> QED
      BY <2>1, <3>1, <3>2, AnswerKept
  <2> QED
    BY <2>2, <2>3
<1>2. CASE e.text # NoText
  <2>1. /\ reply' = reply \cup {e.about} /\ Await(c, "follow")
        /\ UNCHANGED <<answered, turn, task, failure, logged>>
    BY <1>2 DEF RecordReply, About
  <2>2. DialogueTypeOK' /\ Dialogue!EnterReply(e.about)
    BY <1>0, <2>1, CallInv DEF DialogueTypeOK, Dialogue!EnterReply
  <2>3. Dialogue!DialogueNext
    BY <1>0, <2>2 DEF Dialogue!DialogueNext
  <2>4. CallOK(c)'
    BY <1>0, <2>1, AwaitShape, CallInv DEF CallOK
  <2> QED
    BY <2>1, <2>2, <2>3, <2>4, AwaitKept
<1> QED
  BY <1>1, <1>2

LEMMA FindFollowupKept ==
  ASSUME EventsInv, NEW c \in Calls, FindFollowup(c)
  PROVE  Kept(c)
<1> PICK e \in Events : Of(c) = e
  BY CallInv
<1>0. e.kind = "completed" /\ e.about \in reply
  BY CallInv DEF FindFollowup, CallOK, Of
<1>1. DialogueTypeOK' /\ logged' = logged /\ UNCHANGED Dialogue!dialogue
  BY CallInv DEF FindFollowup, DialogueTypeOK, Dialogue!dialogue
<1>2. CASE task[e.about] # "absent"
  <2>1. Applied(e)'
    BY <1>0, <1>2 DEF Applied, FindFollowup
  <2> QED
    BY <1>1, <1>2, <2>1, AnswerKept DEF FindFollowup, About
<1>3. CASE task[e.about] = "absent"
  <2>1. Await(c, "source") /\ UNCHANGED <<reply, answered>>
    BY <1>3 DEF FindFollowup, About
  <2>2. CallOK(c)'
    BY <1>0, <2>1, AwaitShape, CallInv DEF CallOK
  <2> QED
    BY <1>1, <2>1, <2>2, AwaitKept
<1> QED
  BY <1>2, <1>3

LEMMA SourceKept ==
  ASSUME EventsInv, NEW c \in Calls, ReadSource(c)
  PROVE  Kept(c)
<1> PICK e \in Events : Of(c) = e
  BY CallInv
<1>0. e.kind = "completed" /\ e.about \in reply /\ e.about \in Responses
  BY CallInv, EventShape DEF ReadSource, CallOK, Of
<1> DEFINE v == SourceOf[e.about]
           q == IF v = NoTurn THEN "unknown" ELSE IF turn[v] \in Texts THEN turn[v] ELSE "pending"
           s == [call[c] EXCEPT !.pc = "insert", !.quote = q]
<1>1. call' = [call EXCEPT ![c] = s] /\ UNCHANGED <<turn, reply, task, failure, logged, answered>>
  BY DEF ReadSource, About
<1>2. q \in Dialogue!Quotable(e.about) /\ q \in {"none", "unknown", "pending"} \cup Texts
  BY DEF Dialogue!Quotable
<1> HIDE DEF q
<1>3. s \in CallState /\ s.pc = "insert" /\ s.event = e /\ s.quote = q
  BY <1>2, CallInv DEF CallState, Of
<1>4. /\ call'[c] = s /\ call' \in [Calls -> CallState]
      /\ \A d \in Calls : d # c => call'[d] = call[d]
  BY <1>1, <1>3, CallInv DEF EventsTypeOK
<1>5. Dialogue!Quotable(e.about)' = Dialogue!Quotable(e.about)
  BY <1>1 DEF Dialogue!Quotable
<1>6. CallOK(c)'
  BY <1>0, <1>1, <1>2, <1>3, <1>4, <1>5 DEF CallOK
<1> QED
  BY <1>1, <1>4, <1>6, CallInv DEF Kept, EventsTypeOK, Dialogue!dialogue

LEMMA InsertKept ==
  ASSUME EventsInv, NEW c \in Calls, InsertFollowup(c)
  PROVE  Kept(c)
<1> PICK e \in Events : Of(c) = e
  BY CallInv
<1>0. /\ e.kind = "completed" /\ e.about \in reply /\ e.about \in Responses
      /\ call[c].quote \in Dialogue!Quotable(e.about)
  BY CallInv, EventShape DEF InsertFollowup, CallOK, Of
<1>1. call[c].quote \in {"unknown", "pending"} \cup Texts
  BY <1>0 DEF Dialogue!Quotable
<1>2. /\ task' = [task EXCEPT ![e.about] = IF @ = "absent" THEN call[c].quote ELSE @]
      /\ UNCHANGED <<turn, reply, failure, logged>> /\ Answer(c)
  BY DEF InsertFollowup, About
<1>3. DialogueTypeOK'
  BY <1>0, <1>1, <1>2, CallInv DEF DialogueTypeOK
<1>4. Applied(e)'
  BY <1>0, <1>1, <1>2, CallInv, VoiceAssumption DEF Applied, DialogueTypeOK
<1>5. [Dialogue!DialogueNext]_(Dialogue!dialogue)
  <2>1. CASE task[e.about] = "absent"
    <3>1. Dialogue!FollowUp(e.about, call[c].quote)
      BY <1>0, <1>2, <2>1, CallInv DEF Dialogue!FollowUp, DialogueTypeOK
    <3> QED
      BY <1>0, <1>1, <3>1 DEF Dialogue!DialogueNext
  <2>2. CASE task[e.about] # "absent"
    <3>1. task' = task
      BY <1>0, <1>2, <2>2, CallInv DEF DialogueTypeOK
    <3> QED
      BY <1>2, <3>1 DEF Dialogue!dialogue
  <2> QED
    BY <2>1, <2>2
<1> QED
  BY <1>2, <1>3, <1>4, <1>5, AnswerKept

LEMMA ReportKept ==
  ASSUME EventsInv, NEW c \in Calls, ReportFailure(c)
  PROVE  Kept(c)
<1> PICK e \in Events : Of(c) = e
  BY CallInv
<1>0. e.kind = "failed" /\ e.about \in Responses
  BY CallInv, EventShape DEF ReportFailure, CallOK, Of
<1>1. failure' = failure \cup {e.about} /\ UNCHANGED <<turn, reply, task, logged>> /\ Answer(c)
  BY DEF ReportFailure, About
<1>2. DialogueTypeOK' /\ Dialogue!ReviewFailure(e.about) /\ Applied(e)'
  BY <1>0, <1>1, CallInv DEF DialogueTypeOK, Dialogue!ReviewFailure, Applied
<1>3. Dialogue!DialogueNext
  BY <1>0, <1>2 DEF Dialogue!DialogueNext
<1> QED
  BY <1>1, <1>2, <1>3, AnswerKept

-----------------------------------------------------------------------------
LEMMA EventsStep ==
  ASSUME EventsInv, [EventsNext]_eventVars
  PROVE  EventsInv' /\ [Dialogue!DialogueNext]_(Dialogue!dialogue)
<1>1. ASSUME NEW c \in Calls, Kept(c)
      PROVE  EventsInv' /\ [Dialogue!DialogueNext]_(Dialogue!dialogue)
  BY <1>1, KeptKeepsInv DEF Kept
<1>2. CASE UNCHANGED eventVars
  BY <1>2 DEF eventVars, EventsInv, EventsTypeOK, CallsOK, CallOK, FollowupsHaveReplies,
              AnsweredIsApplied, Dialogue!dialogue, Dialogue!Quotable
<1>3. CASE EventsNext
  BY <1>1, <1>3, DeliverKept, LoseKept, AppendKept, FindKept, RecordTurnKept, PromoteKept,
     ListKept, SyncKept, SyncedKept, ReplyKept, FindFollowupKept, SourceKept, InsertKept,
     ReportKept
     DEF EventsNext
<1> QED
  BY <1>2, <1>3

\* The calls of the endpoint never leave their types, for any number of
\* turns, responses, events and calls.
THEOREM EventTypes == EventsSpec => []EventsTypeOK
<1>1. EventsInv /\ [EventsNext]_eventVars => EventsInv'
  BY EventsStep
<1>2. EventsInv => EventsTypeOK
  BY DEF EventsInv
<1> QED
  BY <1>1, <1>2, InitEvents, PTL DEF EventsSpec

\* An answered event has been applied in full, however its deliveries
\* overlapped and wherever earlier ones died
\* (record_realtime_voice_agent_event).
THEOREM AnsweredApplied == EventsSpec => []AnsweredIsApplied
<1>1. EventsInv /\ [EventsNext]_eventVars => EventsInv'
  BY EventsStep
<1>2. EventsInv => AnsweredIsApplied
  BY DEF EventsInv
<1> QED
  BY <1>1, <1>2, InitEvents, PTL DEF EventsSpec

\* What any deliveries of any events amount to is a dialogue of
\* VoiceDialogue: turns and responses entered once, final transcripts for
\* good, follow-ups after their response and quoting nothing else.
THEOREM EventsAreADialogue == EventsSpec => ImplementsVoiceDialogue
<1>1. EventsInit => Dialogue!DialogueInit
  BY DEF EventsInit
<1>2. EventsInv /\ [EventsNext]_eventVars => EventsInv' /\ [Dialogue!DialogueNext]_(Dialogue!dialogue)
  BY EventsStep
<1> QED
  BY <1>1, <1>2, InitEvents, PTL
     DEF EventsSpec, ImplementsVoiceDialogue, Dialogue!DialogueSpec

-----------------------------------------------------------------------------
(* What any dialogue promises, carried over to the endpoint *)

\* A follow-up that quotes words quotes the final transcript of the turn that
\* its response answers.
QuotesAreFinal ==
    \A r \in Responses :
        task[r] \in Texts => SourceOf[r] # NoTurn /\ task[r] = turn[SourceOf[r]]

\* Words once said or quoted stay as they are, and nobody forgets a reply or
\* a failure.
NothingIsUnsaid ==
    /\ \A v \in Turns : turn[v] \in Texts => turn'[v] = turn[v]
    /\ \A r \in Responses : task[r] \in Texts => task'[r] = task[r]
    /\ reply \subseteq reply' /\ failure \subseteq failure'

LEMMA DialogueQuotes ==
  ASSUME EventsTypeOK, QuotesAreFinal, [Dialogue!DialogueNext]_(Dialogue!dialogue)
  PROVE  QuotesAreFinal' /\ NothingIsUnsaid
<1>1. ASSUME NEW v \in Turns, NEW s \in {"pending"} \cup Texts, Dialogue!EnterTurn(v, s)
      PROVE  QuotesAreFinal' /\ NothingIsUnsaid
  BY <1>1, VoiceAssumption
     DEF Dialogue!EnterTurn, EventsTypeOK, QuotesAreFinal, NothingIsUnsaid
<1>2. ASSUME NEW r \in Responses, Dialogue!EnterReply(r) \/ Dialogue!ReviewFailure(r)
      PROVE  QuotesAreFinal' /\ NothingIsUnsaid
  BY <1>2 DEF Dialogue!EnterReply, Dialogue!ReviewFailure, QuotesAreFinal, NothingIsUnsaid
<1>3. ASSUME NEW r \in Responses, NEW s \in {"unknown", "pending"} \cup Texts,
             Dialogue!FollowUp(r, s)
      PROVE  QuotesAreFinal' /\ NothingIsUnsaid
  BY <1>3, VoiceAssumption
     DEF Dialogue!FollowUp, Dialogue!Quotable, EventsTypeOK, QuotesAreFinal, NothingIsUnsaid
<1>4. CASE UNCHANGED Dialogue!dialogue
  BY <1>4 DEF Dialogue!dialogue, QuotesAreFinal, NothingIsUnsaid
<1> QED
  BY <1>1, <1>2, <1>3, <1>4 DEF Dialogue!DialogueNext

LEMMA DialogueAlways ==
  EventsSpec => []EventsInv /\ [][[Dialogue!DialogueNext]_(Dialogue!dialogue)]_eventVars
<1>1. EventsInv /\ [EventsNext]_eventVars => EventsInv' /\ [Dialogue!DialogueNext]_(Dialogue!dialogue)
  BY EventsStep
<1> QED
  BY <1>1, InitEvents, PTL DEF EventsSpec

LEMMA QuotesAlways == EventsSpec => []QuotesAreFinal
<1>1. EventsInit => QuotesAreFinal
  BY VoiceAssumption DEF EventsInit, Dialogue!DialogueInit, QuotesAreFinal
<1>2. EventsInv /\ QuotesAreFinal /\ [EventsNext]_eventVars => QuotesAreFinal'
  BY EventsStep, DialogueQuotes DEF EventsInv
<1> QED
  BY <1>1, <1>2, DialogueAlways, PTL DEF EventsSpec

\* Whatever the order of events, deliveries and deaths: no follow-up is there
\* before its reply, none quotes as said what is not the final transcript of
\* its turn, though it may call one pending that is final by now
\* (_find_voice_source_user_turn, _create_voice_agent_event_followup_task).
THEOREM FollowupsQuoteTruly == EventsSpec => [](FollowupsHaveReplies /\ QuotesAreFinal)
<1>1. EventsInv => FollowupsHaveReplies
  BY DEF EventsInv
<1> QED
  BY <1>1, DialogueAlways, QuotesAlways, PTL

\* No late, repeated or dying delivery replaces a final transcript or its
\* quotation (_promote_pending_voice_user_transcript,
\* _sync_voice_followup_tasks_for_promoted_source_turn).
THEOREM SaidIsSaid == EventsSpec => [][NothingIsUnsaid]_eventVars
<1>1. EventsInv /\ QuotesAreFinal /\ [EventsNext]_eventVars => [NothingIsUnsaid]_eventVars
  BY EventsStep, DialogueQuotes DEF EventsInv
<1> QED
  BY <1>1, DialogueAlways, QuotesAlways, PTL DEF EventsSpec
=============================================================================
