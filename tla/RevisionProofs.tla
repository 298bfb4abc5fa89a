--------------------------- MODULE RevisionProofs ---------------------------
(***************************************************************************)
(* What the revision loop keeps, for every choice of requests, artifacts,  *)
(* specialists and number of deliveries.                                   *)
(***************************************************************************)
EXTENDS RevisionLoop, FiniteSetTheorems, SequenceTheorems, TLAPS

\* What an item is once its targets are chosen.
WellAimed(f) ==
    /\ f.words \in Words
    /\ f.gated \in BOOLEAN
    /\ f.targets # {} /\ f.targets \subseteq Artifacts
    /\ IsFiniteSet(f.targets)

ItemsAreAimed ==
    /\ \A f \in Range(feedback) : WellAimed(f)
    /\ \A d \in Deliveries : step[d] \in {"record", "write"} => WellAimed(item[d])
    /\ \A d \in Deliveries : step[d] = "write" => item[d] \in Range(feedback)

\* A delivery has left all it has passed in the store.
PassedIsRecorded ==
    \A d \in Deliveries : step[d] = "write" =>
        \A i \in DOMAIN Script(item[d]) :
            i < at[d] /\ Script(item[d])[i].kind # "status" =>
                Script(item[d])[i] \in recorded

StartsAfresh == \A d \in Deliveries : step[d] # "write" => at[d] = 1

\* A running run has a delivery that will put it back, or has failed to.
Unsettled(d) ==
    \/ step[d] \in {"find", "select", "record", "refused", "lost"}
    \/ step[d] = "write" /\ at[d] < Len(Script(item[d]))

RunningHasCause == runStatus = "running" => \E d \in Deliveries : Unsettled(d)

RevisionInv ==
    /\ RevisionTypeOK
    /\ IsFiniteSet(recorded)
    /\ ItemsAreAimed
    /\ PassedIsRecorded
    /\ StartsAfresh
    /\ AnsweredIsRevised
    /\ RunningHasCause

-----------------------------------------------------------------------------
LEMMA MarksAreMany ==
    \E S : Marks \in Seq(S) /\ Len(Marks) \in Nat \ {0}
<1>1. Reviewers \in Seq(Range(Reviewers))
  BY RevisionAssumption
<1>2. DEFINE S == Range(Reviewers) \cup {"revision", "artifact_revised"}
<1>3. Reviewers \in Seq(S)
  BY <1>1
<1>4. <<"revision", "artifact_revised">> \in Seq(S)
  OBVIOUS
<1>5. Marks \in Seq(S) /\ Len(Marks) = 2 + Len(Reviewers) /\ Len(Reviewers) \in Nat
  BY <1>3, <1>4 DEF Marks
<1> QED BY <1>5

\* A script is a sequence, and sets the status of the run last but one.
LEMMA ScriptEnds ==
    ASSUME NEW f, IsFiniteSet(f.targets)
    PROVE  /\ Len(Script(f)) \in Nat
           /\ DOMAIN Script(f) = 1..Len(Script(f))
           /\ Len(Script(f)) - 1 \in DOMAIN Script(f)
           /\ Script(f)[Len(Script(f)) - 1].kind = "status"
<1>1. Len(Recipients) \in Nat
  BY RevisionAssumption
<1>2. Len(Marks) \in Nat
  BY MarksAreMany
<1>3. Cardinality(f.targets) \in Nat
  BY FS_CardinalityType
<1>4. PICK m : m = 2 * Len(Recipients)
  OBVIOUS
<1>5. PICK n : n = Len(Marks) * Cardinality(f.targets)
  OBVIOUS
<1>6. m \in Nat /\ n \in Nat
  BY <1>1, <1>2, <1>3, <1>4, <1>5
<1>18. PICK head : head = <<Write("feedback_recorded", f, NoOne),
                           Write("revision_loop_started", f, NoOne)>>
  OBVIOUS
<1>19. PICK tail : tail = <<Write("status", f, NoOne),
                           Write(IF f.gated THEN "gate_opened" ELSE "loop_completed", f, NoOne)>>
  OBVIOUS
<1> DEFINE T == {TasksOf(f)[i] : i \in 1..m} \cup {RevisionsOf(f)[i] : i \in 1..n}
           S == T \cup {head[1], head[2], tail[1], tail[2]}
<1>7. TasksOf(f) \in Seq(S) /\ Len(TasksOf(f)) = m
  <2>1. DOMAIN TasksOf(f) = 1..m /\ TasksOf(f) = [i \in 1..m |-> TasksOf(f)[i]]
    BY <1>4 DEF TasksOf
  <2>2. \A i \in 1..m : TasksOf(f)[i] \in S
    OBVIOUS
  <2> HIDE DEF S
  <2> QED BY <2>1, <2>2, <1>6
<1>8. RevisionsOf(f) \in Seq(S) /\ Len(RevisionsOf(f)) = n
  <2>1. DOMAIN RevisionsOf(f) = 1..n /\ RevisionsOf(f) = [i \in 1..n |-> RevisionsOf(f)[i]]
    BY <1>5 DEF RevisionsOf
  <2>2. \A i \in 1..n : RevisionsOf(f)[i] \in S
    OBVIOUS
  <2> HIDE DEF S
  <2> QED BY <2>1, <2>2, <1>6
<1>9. head \in Seq(S) /\ tail \in Seq(S) /\ Len(head) = 2 /\ Len(tail) = 2
  BY <1>18, <1>19
<1>10. tail[1].kind = "status"
  BY <1>19 DEF Write
<1>11. Script(f) = ((head \o TasksOf(f)) \o RevisionsOf(f)) \o tail
  BY <1>18, <1>19 DEF Script
<1> HIDE DEF S, T
<1>14. \A s, t \in Seq(S) :
          /\ s \o t \in Seq(S)
          /\ Len(s \o t) = Len(s) + Len(t)
          /\ \A i \in 1..Len(s) + Len(t) :
                (s \o t)[i] = IF i <= Len(s) THEN s[i] ELSE t[i - Len(s)]
  BY ConcatProperties
<1>12. head \o TasksOf(f) \in Seq(S) /\ Len(head \o TasksOf(f)) = 2 + m
  <2>1. head \in Seq(S) /\ TasksOf(f) \in Seq(S)
    BY <1>7, <1>9
  <2>2. head \o TasksOf(f) \in Seq(S)
    BY <2>1, <1>14
  <2>3. Len(head \o TasksOf(f)) = Len(head) + Len(TasksOf(f))
    BY <2>1, <1>14
  <2> QED BY <2>2, <2>3, <1>7, <1>9
<1>13. /\ (head \o TasksOf(f)) \o RevisionsOf(f) \in Seq(S)
       /\ Len((head \o TasksOf(f)) \o RevisionsOf(f)) = 2 + m + n
  BY <1>6, <1>8, <1>12, <1>14
<1>15. PICK most : most = (head \o TasksOf(f)) \o RevisionsOf(f)
  OBVIOUS
<1>16. most \in Seq(S) /\ tail \in Seq(S) /\ Script(f) = most \o tail
  BY <1>9, <1>11, <1>13, <1>15
<1>17. Len(most) = 2 + m + n /\ Len(tail) = 2
  BY <1>9, <1>13, <1>15
<1>20. Script(f) \in Seq(S)
  BY <1>14, <1>16
<1>21. Len(Script(f)) = Len(most) + Len(tail)
  BY <1>14, <1>16
<1>22. Script(f)[3 + m + n] = tail[1]
  <2>1. \A i \in 1..Len(most) + Len(tail) :
            Script(f)[i] = IF i <= Len(most) THEN most[i] ELSE tail[i - Len(most)]
    BY <1>14, <1>16
  <2>2. 3 + m + n \in 1..Len(most) + Len(tail) /\ ~(3 + m + n <= Len(most))
        /\ (3 + m + n) - Len(most) = 1
    BY <1>6, <1>17
  <2> QED BY <2>1, <2>2
<1> QED BY <1>6, <1>10, <1>17, <1>20, <1>21, <1>22

-----------------------------------------------------------------------------
\* What the store has, it keeps: artifacts stay, and so does what they prove.
LEMMA RecordingOnlyAdds ==
    ASSUME recorded \subseteq recorded'
    PROVE  /\ Artifacts \subseteq Artifacts'
           /\ \A f : WellAimed(f) => WellAimed(f)'
<1>1. Artifacts \subseteq Artifacts'
  BY DEF Artifacts
<1> QED BY <1>1 DEF WellAimed

LEMMA ArtifactsAreFinite ==
    ASSUME IsFiniteSet(recorded)
    PROVE  IsFiniteSet(Artifacts)
<1> DEFINE R == {v \in recorded : v.kind = "revision"}
<1>1. IsFiniteSet(R)
  BY FS_Subset
<1>2. IsFiniteSet({Revision(w.item, w.about) : w \in R})
  <2> DEFINE T == {Revision(w.item, w.about) : w \in R}
             g == [w \in R |-> Revision(w.item, w.about)]
  <2>1. g \in Surjection(R, T)
    BY DEF Surjection
  <2> QED BY <1>1, <2>1, FS_Surjection
<1> QED BY <1>2, RevisionAssumption, FS_Union DEF Artifacts

-----------------------------------------------------------------------------
LEMMA AppendedRange ==
    ASSUME NEW s, s \in Seq(Range(s)), NEW x
    PROVE  /\ Append(s, x) \in Seq(Range(Append(s, x)))
           /\ Range(Append(s, x)) = Range(s) \cup {x}
<1>1. s \in Seq(Range(s) \cup {x})
  OBVIOUS
<1>2. /\ Len(s) \in Nat /\ DOMAIN s = 1..Len(s)
      /\ DOMAIN Append(s, x) = 1..(Len(s) + 1)
      /\ \A i \in 1..Len(s) : Append(s, x)[i] = s[i]
      /\ Append(s, x)[Len(s) + 1] = x
  BY <1>1
<1>3. Range(Append(s, x)) = Range(s) \cup {x}
  BY <1>2 DEF Range
<1> QED BY <1>1, <1>3

LEMMA Begun == RevisionInit => RevisionInv
<1> SUFFICES ASSUME RevisionInit PROVE RevisionInv
  OBVIOUS
<1>1. (CHOOSE q \in Requests : TRUE) \in Requests
  BY RevisionAssumption
<1>2. Range(feedback) = {}
  BY DEF RevisionInit, Range
<1>3. RevisionTypeOK
  BY <1>1, <1>2, RevisionAssumption DEF RevisionInit, RevisionTypeOK, Resting, UnderWay
<1>4. IsFiniteSet(recorded)
  BY FS_EmptySet DEF RevisionInit
<1>5. ItemsAreAimed /\ PassedIsRecorded /\ StartsAfresh
  BY <1>2 DEF RevisionInit, ItemsAreAimed, PassedIsRecorded, StartsAfresh
<1>6. AnsweredIsRevised /\ RunningHasCause
  BY DEF RevisionInit, AnsweredIsRevised, RunningHasCause
<1> QED BY <1>3, <1>4, <1>5, <1>6 DEF RevisionInv

LEMMA AskKeeps ==
    ASSUME RevisionInv, NEW d \in Deliveries, NEW q \in Requests,
           Ask(d, q)
    PROVE  RevisionInv'
<1>1. RevisionTypeOK'
  <2>1. q.words \in Words /\ q \in Requests
    BY RevisionAssumption DEF Request
  <2>2. raced' \subseteq Words
    BY <2>1 DEF RevisionInv, RevisionTypeOK, Ask
  <2> QED BY <2>1, <2>2, RevisionAssumption
    DEF RevisionInv, RevisionTypeOK, Ask, Artifacts, Resting, UnderWay
<1>2. IsFiniteSet(recorded)'
  BY DEF RevisionInv, Ask
<1>3. ItemsAreAimed'
  BY DEF RevisionInv, RevisionTypeOK, Ask, Rest, ItemsAreAimed, WellAimed, Artifacts
<1>4. PassedIsRecorded'
  BY DEF RevisionInv, RevisionTypeOK, Ask, Rest, PassedIsRecorded
<1>5. AnsweredIsRevised'
  BY DEF RevisionInv, Ask, Rest, AnsweredIsRevised
<1>6. RunningHasCause'
  BY DEF RevisionInv, RevisionTypeOK, Ask, Rest, RunningHasCause, Unsettled, Resting, UnderWay
<1>7. StartsAfresh'
  BY DEF RevisionInv, RevisionTypeOK, Ask, StartsAfresh, Resting
<1> QED BY <1>1, <1>2, <1>3, <1>4, <1>5, <1>6, <1>7 DEF RevisionInv

LEMMA FindKeeps ==
    ASSUME RevisionInv, NEW d \in Deliveries,
           FindFeedback(d)
    PROVE  RevisionInv'
<1>1. RevisionTypeOK'
  BY DEF RevisionInv, RevisionTypeOK, FindFeedback, Rest, Artifacts, Resting, UnderWay
<1>2. IsFiniteSet(recorded)'
  BY DEF RevisionInv, FindFeedback
<1>3. ItemsAreAimed'
  <2>1. \A i \in DOMAIN feedback : feedback[i] \in Range(feedback)
    BY DEF Range
  <2> QED BY <2>1 DEF RevisionInv, RevisionTypeOK, FindFeedback, ItemsAreAimed, WellAimed, Artifacts
<1>4. PassedIsRecorded'
  <2> SUFFICES ASSUME NEW e \in Deliveries, step'[e] = "write",
                      NEW i \in DOMAIN Script(item'[e]), i < at'[e],
                      Script(item'[e])[i].kind # "status"
               PROVE  Script(item'[e])[i] \in recorded'
    BY DEF PassedIsRecorded
  <2>1. CASE step[e] = "write"
    BY <2>1 DEF RevisionInv, RevisionTypeOK, FindFeedback, PassedIsRecorded
  <2>2. CASE step[e] # "write"
    <3>1. at'[e] = 1
      BY <2>2 DEF RevisionInv, StartsAfresh, FindFeedback
    <3>2. i \in 1..Len(Script(item'[e])) /\ Len(Script(item'[e])) \in Nat
      BY <1>3, ScriptEnds DEF ItemsAreAimed, WellAimed
    <3> QED BY <3>1, <3>2
  <2> QED BY <2>1, <2>2
<1>5. AnsweredIsRevised'
  BY DEF RevisionInv, FindFeedback, Rest, AnsweredIsRevised
<1>6. RunningHasCause'
  <2> SUFFICES ASSUME runStatus' = "running" PROVE \E e \in Deliveries : Unsettled(e)'
    BY DEF RunningHasCause
  <2>1. step'[d] = "select" \/ step'[d] = "write"
    BY DEF RevisionInv, RevisionTypeOK, FindFeedback
  <2>2. CASE step'[d] = "write"
    <3>1. at'[d] = 1
      BY DEF RevisionInv, StartsAfresh, FindFeedback
    <3>2. 1 < Len(Script(item'[d]))
      BY <1>3, <2>2, ScriptEnds DEF ItemsAreAimed, WellAimed
    <3> QED BY <2>2, <3>1, <3>2 DEF Unsettled
  <2> QED BY <2>1, <2>2 DEF Unsettled
<1>7. StartsAfresh'
  BY DEF RevisionInv, RevisionTypeOK, FindFeedback, Rest, StartsAfresh
<1> QED BY <1>1, <1>2, <1>3, <1>4, <1>5, <1>6, <1>7 DEF RevisionInv

LEMMA RefuseKeeps ==
    ASSUME RevisionInv, NEW d \in Deliveries,
           Refuse(d)
    PROVE  RevisionInv'
<1>1. RevisionTypeOK'
  BY DEF RevisionInv, RevisionTypeOK, Refuse, Rest, Artifacts, Resting, UnderWay
<1>2. IsFiniteSet(recorded)'
  BY DEF RevisionInv, Refuse
<1>3. ItemsAreAimed'
  BY DEF RevisionInv, RevisionTypeOK, Refuse, Rest, ItemsAreAimed, WellAimed, Artifacts
<1>4. PassedIsRecorded'
  BY DEF RevisionInv, RevisionTypeOK, Refuse, Rest, PassedIsRecorded
<1>5. AnsweredIsRevised'
  BY DEF RevisionInv, Refuse, Rest, AnsweredIsRevised
<1>6. RunningHasCause'
  BY DEF RevisionInv, RevisionTypeOK, Refuse, Rest, RunningHasCause, Unsettled, Resting, UnderWay
<1>7. StartsAfresh'
  BY DEF RevisionInv, RevisionTypeOK, Refuse, Rest, StartsAfresh
<1> QED BY <1>1, <1>2, <1>3, <1>4, <1>5, <1>6, <1>7 DEF RevisionInv

LEMMA SelectKeeps ==
    ASSUME RevisionInv, NEW d \in Deliveries,
           SelectTargets(d)
    PROVE  RevisionInv'
<1>1. RevisionTypeOK'
  BY DEF RevisionInv, RevisionTypeOK, SelectTargets, Rest, Artifacts, Resting, UnderWay
<1>2. IsFiniteSet(recorded)'
  BY DEF RevisionInv, SelectTargets
<1>3. ItemsAreAimed'
  <2>1. Targets(request[d]) \subseteq Artifacts /\ Targets(request[d]) # {}
    BY DEF Targets, Leaves, SelectTargets
  <2>2. IsFiniteSet(Targets(request[d]))
    BY <2>1, ArtifactsAreFinite, FS_Subset DEF RevisionInv
  <2>3. request[d].words \in Words /\ request[d].gated \in BOOLEAN
    BY RevisionAssumption DEF RevisionInv, RevisionTypeOK, Request
  <2>4. WellAimed([words |-> request[d].words, gated |-> request[d].gated,
                   targets |-> Targets(request[d])])
    BY <2>1, <2>2, <2>3 DEF WellAimed
  <2>5. item'[d] = [words |-> request[d].words, gated |-> request[d].gated,
                    targets |-> Targets(request[d])]
    BY DEF SelectTargets, RevisionInv, RevisionTypeOK
  <2>6. \A e \in Deliveries \ {d} : item'[e] = item[e] /\ step'[e] = step[e]
    BY DEF SelectTargets, RevisionInv, RevisionTypeOK
  <2>7. step'[d] = "record" /\ feedback' = feedback /\ recorded' = recorded
    BY DEF SelectTargets, RevisionInv, RevisionTypeOK
  <2>8. Artifacts' = Artifacts
    BY <2>7 DEF Artifacts
  <2>9. \A f : WellAimed(f) => WellAimed(f)'
    BY <2>8 DEF WellAimed
  <2> QED BY <2>4, <2>5, <2>6, <2>7, <2>9 DEF RevisionInv, ItemsAreAimed
<1>4. PassedIsRecorded'
  BY DEF RevisionInv, RevisionTypeOK, SelectTargets, Rest, PassedIsRecorded
<1>5. AnsweredIsRevised'
  BY DEF RevisionInv, SelectTargets, Rest, AnsweredIsRevised
<1>6. RunningHasCause'
  BY DEF RevisionInv, RevisionTypeOK, SelectTargets, Rest, RunningHasCause, Unsettled, Resting, UnderWay
<1>7. StartsAfresh'
  BY DEF RevisionInv, RevisionTypeOK, SelectTargets, Rest, StartsAfresh
<1> QED BY <1>1, <1>2, <1>3, <1>4, <1>5, <1>6, <1>7 DEF RevisionInv

LEMMA RecordKeeps ==
    ASSUME RevisionInv, NEW d \in Deliveries,
           RecordFeedback(d)
    PROVE  RevisionInv'
<1>1. RevisionTypeOK'
  <2>1. /\ feedback' \in Seq(Range(feedback'))
        /\ Range(feedback') = Range(feedback) \cup {item[d]}
    <3>1. CASE item[d] \in Range(feedback)
      BY <3>1 DEF RecordFeedback, RevisionInv, RevisionTypeOK
    <3>2. CASE item[d] \notin Range(feedback)
      BY <3>2, AppendedRange DEF RecordFeedback, RevisionInv, RevisionTypeOK
    <3> QED BY <3>1, <3>2
  <2>2. WellAimed(item[d])
    BY DEF RevisionInv, ItemsAreAimed, RecordFeedback
  <2> QED BY <2>1, <2>2
    DEF RevisionInv, RevisionTypeOK, RecordFeedback, WellAimed, Artifacts, Resting, UnderWay
<1>2. IsFiniteSet(recorded)'
  BY DEF RevisionInv, RecordFeedback
<1>3. ItemsAreAimed'
  <2>1. /\ feedback' \in Seq(Range(feedback'))
        /\ Range(feedback') = Range(feedback) \cup {item[d]}
    <3>1. CASE item[d] \in Range(feedback)
      BY <3>1 DEF RecordFeedback, RevisionInv, RevisionTypeOK
    <3>2. CASE item[d] \notin Range(feedback)
      BY <3>2, AppendedRange DEF RecordFeedback, RevisionInv, RevisionTypeOK
    <3> QED BY <3>1, <3>2
  <2>2. WellAimed(item[d]) /\ item' = item /\ recorded' = recorded
    BY DEF RevisionInv, ItemsAreAimed, RecordFeedback
  <2>3. Artifacts' = Artifacts
    BY <2>2 DEF Artifacts
  <2>4. \A f : WellAimed(f) => WellAimed(f)'
    BY <2>3 DEF WellAimed
  <2>5. \A e \in Deliveries : step'[e] = IF e = d THEN "write" ELSE step[e]
    BY DEF RevisionInv, RevisionTypeOK, RecordFeedback
  <2>6. \A f \in Range(feedback) : WellAimed(f)'
    BY <2>4 DEF RevisionInv, ItemsAreAimed
  <2>7. \A f \in Range(feedback)' : WellAimed(f)'
    BY <2>1, <2>2, <2>4, <2>6
  <2>8. (\A e \in Deliveries : step[e] \in {"record", "write"} => WellAimed(item[e]))'
    <3>1. \A e \in Deliveries : step'[e] \in {"record", "write"} => WellAimed(item[e])
      BY <2>2, <2>5 DEF RevisionInv, ItemsAreAimed
    <3> QED BY <3>1, <2>2, <2>4
  <2>9. \A e \in Deliveries : step'[e] = "write" => item'[e] \in Range(feedback)'
    BY <2>1, <2>2, <2>5 DEF RevisionInv, ItemsAreAimed
  <2> QED BY <2>7, <2>8, <2>9 DEF ItemsAreAimed
<1>4. PassedIsRecorded'
  <2> SUFFICES ASSUME NEW e \in Deliveries, step'[e] = "write",
                      NEW i \in DOMAIN Script(item'[e]), i < at'[e],
                      Script(item'[e])[i].kind # "status"
               PROVE  Script(item'[e])[i] \in recorded'
    BY DEF PassedIsRecorded
  <2>1. CASE step[e] = "write"
    BY <2>1 DEF RevisionInv, RevisionTypeOK, RecordFeedback, PassedIsRecorded
  <2>2. CASE step[e] # "write"
    <3>1. at'[e] = 1
      BY <2>2 DEF RevisionInv, StartsAfresh, RecordFeedback
    <3>2. i \in 1..Len(Script(item'[e])) /\ Len(Script(item'[e])) \in Nat
      BY <1>3, ScriptEnds DEF ItemsAreAimed, WellAimed
    <3> QED BY <3>1, <3>2
  <2> QED BY <2>1, <2>2
<1>5. AnsweredIsRevised'
  BY DEF RevisionInv, RecordFeedback, Rest, AnsweredIsRevised
<1>6. RunningHasCause'
  <2>1. step'[d] = "write" /\ at'[d] = 1
    BY DEF RevisionInv, RevisionTypeOK, StartsAfresh, RecordFeedback
  <2>2. 1 < Len(Script(item'[d]))
    BY <1>3, <2>1, ScriptEnds DEF ItemsAreAimed, WellAimed
  <2> QED BY <2>1, <2>2 DEF RunningHasCause, Unsettled
<1>7. StartsAfresh'
  BY DEF RevisionInv, RevisionTypeOK, RecordFeedback, Rest, StartsAfresh
<1> QED BY <1>1, <1>2, <1>3, <1>4, <1>5, <1>6, <1>7 DEF RevisionInv

LEMMA TakeStepKeeps ==
    ASSUME RevisionInv, NEW d \in Deliveries,
           TakeStep(d)
    PROVE  RevisionInv'
<1>1. RevisionTypeOK'
  BY DEF RevisionInv, RevisionTypeOK, TakeStep, Rest, Artifacts, Resting, UnderWay
<1>2. IsFiniteSet(recorded)'
  BY FS_AddElement DEF RevisionInv, TakeStep
<1>3. ItemsAreAimed'
  BY DEF RevisionInv, RevisionTypeOK, TakeStep, Rest, ItemsAreAimed, WellAimed, Artifacts
<1>4. PassedIsRecorded'
  BY DEF RevisionInv, RevisionTypeOK, TakeStep, Rest, PassedIsRecorded
<1>5. AnsweredIsRevised'
  BY DEF RevisionInv, TakeStep, Rest, AnsweredIsRevised
<1>6. RunningHasCause'
  <2>1. /\ Len(Script(item[d])) \in Nat /\ at[d] \in Nat
        /\ Script(item[d])[Len(Script(item[d])) - 1].kind = "status"
    BY ScriptEnds DEF RevisionInv, RevisionTypeOK, ItemsAreAimed, WellAimed, TakeStep
  <2> SUFFICES ASSUME runStatus' = "running" PROVE \E e \in Deliveries : Unsettled(e)'
    BY DEF RunningHasCause
  <2>2. Script(item[d])[at[d]].kind # "status" /\ runStatus = "running"
    BY DEF TakeStep
  <2>3. PICK e \in Deliveries : Unsettled(e)
    BY <2>2 DEF RevisionInv, RunningHasCause
  <2>4. item' = item /\ step' = step /\ at' = [at EXCEPT ![d] = @ + 1] /\ step[d] = "write"
    BY DEF TakeStep
  <2>5. CASE e = d
    <3>1. at[d] < Len(Script(item[d])) /\ at[d] # Len(Script(item[d])) - 1
      BY <2>1, <2>2, <2>3, <2>4, <2>5 DEF Unsettled
    <3>2. at'[d] < Len(Script(item'[d]))
      BY <2>1, <2>4, <3>1 DEF RevisionInv, RevisionTypeOK
    <3> QED BY <2>4, <3>2 DEF Unsettled
  <2>6. CASE e # d
    <3>1. at'[e] = at[e]
      BY <2>4, <2>6 DEF RevisionInv, RevisionTypeOK
    <3> QED BY <2>3, <2>4, <3>1 DEF Unsettled
  <2> QED BY <2>5, <2>6
<1>7. StartsAfresh'
  BY DEF RevisionInv, RevisionTypeOK, TakeStep, Rest, StartsAfresh
<1> QED BY <1>1, <1>2, <1>3, <1>4, <1>5, <1>6, <1>7 DEF RevisionInv

LEMMA RespondKeeps ==
    ASSUME RevisionInv, NEW d \in Deliveries,
           RespondRevised(d)
    PROVE  RevisionInv'
<1>1. RevisionTypeOK'
  <2>1. item[d] \in Range(feedback)
    BY DEF RevisionInv, ItemsAreAimed, RespondRevised
  <2> QED BY <2>1, RevisionAssumption
    DEF RevisionInv, RevisionTypeOK, RespondRevised, Rest, Artifacts, Resting, UnderWay
<1>2. IsFiniteSet(recorded)'
  BY DEF RevisionInv, RespondRevised
<1>3. ItemsAreAimed'
  BY DEF RevisionInv, RevisionTypeOK, RespondRevised, Rest, ItemsAreAimed, WellAimed, Artifacts
<1>4. PassedIsRecorded'
  BY DEF RevisionInv, RevisionTypeOK, RespondRevised, Rest, PassedIsRecorded
<1>5. AnsweredIsRevised'
  <2>1. DOMAIN Script(item[d]) = 1..Len(Script(item[d])) /\ at[d] > Len(Script(item[d]))
        /\ Len(Script(item[d])) \in Nat /\ at[d] \in Nat
    BY ScriptEnds DEF RevisionInv, RevisionTypeOK, ItemsAreAimed, WellAimed, RespondRevised
  <2>2. \A i \in DOMAIN Script(item[d]) : i < at[d]
    BY <2>1
  <2>3. \A i \in DOMAIN Script(item[d]) :
            Script(item[d])[i].kind # "status" => Script(item[d])[i] \in recorded
    BY <2>2 DEF RevisionInv, PassedIsRecorded, RespondRevised
  <2> QED BY <2>3 DEF RevisionInv, AnsweredIsRevised, RespondRevised
<1>6. RunningHasCause'
  BY DEF RevisionInv, RevisionTypeOK, RespondRevised, Rest, RunningHasCause, Unsettled, Resting, UnderWay
<1>7. StartsAfresh'
  BY DEF RevisionInv, RevisionTypeOK, RespondRevised, Rest, StartsAfresh
<1> QED BY <1>1, <1>2, <1>3, <1>4, <1>5, <1>6, <1>7 DEF RevisionInv

LEMMA LoseKeeps ==
    ASSUME RevisionInv, NEW d \in Deliveries,
           LoseDelivery(d)
    PROVE  RevisionInv'
<1>1. RevisionTypeOK'
  BY DEF RevisionInv, RevisionTypeOK, LoseDelivery, Rest, Artifacts, Resting, UnderWay
<1>2. IsFiniteSet(recorded)'
  BY DEF RevisionInv, LoseDelivery
<1>3. ItemsAreAimed'
  BY DEF RevisionInv, RevisionTypeOK, LoseDelivery, Rest, ItemsAreAimed, WellAimed, Artifacts
<1>4. PassedIsRecorded'
  BY DEF RevisionInv, RevisionTypeOK, LoseDelivery, Rest, PassedIsRecorded
<1>5. AnsweredIsRevised'
  BY DEF RevisionInv, LoseDelivery, Rest, AnsweredIsRevised
<1>6. RunningHasCause'
  BY DEF RevisionInv, RevisionTypeOK, LoseDelivery, Rest, RunningHasCause, Unsettled, Resting, UnderWay
<1>7. StartsAfresh'
  BY DEF RevisionInv, RevisionTypeOK, LoseDelivery, Rest, StartsAfresh
<1> QED BY <1>1, <1>2, <1>3, <1>4, <1>5, <1>6, <1>7 DEF RevisionInv

-----------------------------------------------------------------------------
LEMMA RevisionStuttering ==
    RevisionInv /\ UNCHANGED revisionVars => RevisionInv'
<1> SUFFICES ASSUME RevisionInv, UNCHANGED revisionVars PROVE RevisionInv'
  OBVIOUS
<1> USE DEF revisionVars
<1>1. RevisionTypeOK'
  BY DEF RevisionInv, RevisionTypeOK, Artifacts
<1>2. IsFiniteSet(recorded)' /\ StartsAfresh'
  BY DEF RevisionInv, StartsAfresh
<1>3. ItemsAreAimed'
  BY DEF RevisionInv, ItemsAreAimed, WellAimed, Artifacts
<1>4. PassedIsRecorded' /\ AnsweredIsRevised'
  BY DEF RevisionInv, PassedIsRecorded, AnsweredIsRevised
<1>5. RunningHasCause'
  BY DEF RevisionInv, RunningHasCause, Unsettled
<1> QED BY <1>1, <1>2, <1>3, <1>4, <1>5 DEF RevisionInv

LEMMA RevisionInductive == RevisionInv /\ [RevisionNext]_revisionVars => RevisionInv'
<1> SUFFICES ASSUME RevisionInv, RevisionNext PROVE RevisionInv'
  BY RevisionStuttering
<1> PICK d \in Deliveries :
        \/ \E q \in Requests : Ask(d, q)
        \/ FindFeedback(d) \/ Refuse(d) \/ SelectTargets(d) \/ RecordFeedback(d)
        \/ TakeStep(d) \/ RespondRevised(d) \/ LoseDelivery(d)
  BY DEF RevisionNext
<1>1. CASE \E q \in Requests : Ask(d, q)
  BY <1>1, AskKeeps
<1>2. CASE FindFeedback(d)
  BY <1>2, FindKeeps
<1>3. CASE Refuse(d)
  BY <1>3, RefuseKeeps
<1>4. CASE SelectTargets(d)
  BY <1>4, SelectKeeps
<1>5. CASE RecordFeedback(d)
  BY <1>5, RecordKeeps
<1>6. CASE TakeStep(d)
  BY <1>6, TakeStepKeeps
<1>7. CASE RespondRevised(d)
  BY <1>7, RespondKeeps
<1>8. CASE LoseDelivery(d)
  BY <1>8, LoseKeeps
<1> QED BY <1>1, <1>2, <1>3, <1>4, <1>5, <1>6, <1>7, <1>8

LEMMA RevisionInvHolds == RevisionSpec => []RevisionInv
BY Begun, RevisionInductive, PTL DEF RevisionSpec

\* Feedback items name artifacts of the run, and at least one; what was
\* answered is an item of the run (_select_revision_targets, _record_feedback).
THEOREM RevisionTypes == RevisionSpec => []RevisionTypeOK
<1>1. RevisionInv => RevisionTypeOK
  BY DEF RevisionInv
<1> QED BY <1>1, RevisionInvHolds, PTL

\* However many deliveries overlap and wherever they die, feedback that was
\* answered has all its tasks, revisions, reviews and events in the store
\* (RevisionWorkflow.run).
THEOREM AnsweredRevised == RevisionSpec => []AnsweredIsRevised
<1>1. RevisionInv => AnsweredIsRevised
  BY DEF RevisionInv
<1> QED BY <1>1, RevisionInvHolds, PTL

\* A run all of whose last deliveries were answered is not left running
\* (_close_or_reopen_gate).
THEOREM AnsweredSettled == RevisionSpec => []AnsweredRunIsSettled
<1>1. RevisionInv => AnsweredRunIsSettled
  BY DEF RevisionInv, RunningHasCause, Unsettled, AnsweredRunIsSettled
<1> QED BY <1>1, RevisionInvHolds, PTL

-----------------------------------------------------------------------------
(* The same words make one item. *)

\* Of two deliveries of the same words under way at once the second has noted
\* that they overlap.
OverlapsAreNoted ==
    \A d, e \in Deliveries :
        /\ d # e
        /\ step[d] \in UnderWay /\ step[e] \in UnderWay
        /\ request[d].words = request[e].words
        => request[d].words \in raced

\* A delivery that found no item for its words is still alone with them, and
\* the item it is about to make is what its request asks for.
NewItemsAreNew ==
    \A d \in Deliveries :
        /\ step[d] \in {"select", "record"} =>
             \/ request[d].words \in raced
             \/ \A f \in Range(feedback) : ~Matches(f, request[d])
        /\ step[d] = "record" =>
             /\ item[d].words = request[d].words /\ item[d].gated = request[d].gated
             /\ request[d].targets # {} => item[d].targets \subseteq request[d].targets

WordsInv == OverlapsAreNoted /\ NewItemsAreNew /\ WordsMakeOneItem

LEMMA WordsBegin == RevisionInit => WordsInv
<1> SUFFICES ASSUME RevisionInit PROVE WordsInv
  OBVIOUS
<1>1. Range(feedback) = {}
  BY DEF RevisionInit, Range
<1>2. \A d \in Deliveries : step[d] = "none"
  BY DEF RevisionInit
<1> QED
  BY <1>1, <1>2 DEF WordsInv, OverlapsAreNoted, NewItemsAreNew, WordsMakeOneItem, UnderWay

\* A delivery that is made notes with whom it overlaps.
LEMMA AskNotes ==
    ASSUME RevisionInv, WordsInv, NEW d \in Deliveries, NEW q \in Requests, Ask(d, q)
    PROVE  WordsInv'
<1>1. /\ step' = [step EXCEPT ![d] = "find"] /\ request' = [request EXCEPT ![d] = q]
      /\ step \in [Deliveries -> Resting \cup UnderWay] /\ request \in [Deliveries -> Requests]
      /\ raced \subseteq raced' /\ feedback' = feedback /\ item' = item
  BY DEF Ask, RevisionInv, RevisionTypeOK
<1>2. /\ step'[d] = "find" /\ request'[d] = q
      /\ \A e \in Deliveries \ {d} : step'[e] = step[e] /\ request'[e] = request[e]
  BY <1>1
<1>3. \A e \in Deliveries \ {d} :
        step[e] \in UnderWay /\ request[e].words = q.words => q.words \in raced'
  BY DEF Ask
<1>4. OverlapsAreNoted'
  BY <1>1, <1>2, <1>3 DEF WordsInv, OverlapsAreNoted
<1>5. NewItemsAreNew'
  BY <1>1, <1>2 DEF WordsInv, NewItemsAreNew, Matches
<1>6. WordsMakeOneItem'
  BY <1>1 DEF WordsInv, WordsMakeOneItem
<1> QED
  BY <1>4, <1>5, <1>6 DEF WordsInv

\* What a delivery may do without touching items that others look for.
LEMMA OthersUndisturbed ==
    ASSUME RevisionInv, WordsInv, NEW d \in Deliveries,
           UNCHANGED <<feedback, raced>>,
           \A e \in Deliveries \ {d} :
              step'[e] = step[e] /\ request'[e] = request[e] /\ item'[e] = item[e],
           step'[d] \in UnderWay => step[d] \in UnderWay /\ request'[d] = request[d],
           step'[d] \in {"select", "record"} =>
              \/ request'[d].words \in raced
              \/ \A f \in Range(feedback) : ~Matches(f, request'[d]),
           step'[d] = "record" =>
             /\ item'[d].words = request'[d].words /\ item'[d].gated = request'[d].gated
             /\ request'[d].targets # {} => item'[d].targets \subseteq request'[d].targets
    PROVE  WordsInv'
<1>1. OverlapsAreNoted'
  BY DEF WordsInv, OverlapsAreNoted
<1>2. NewItemsAreNew'
  BY DEF WordsInv, NewItemsAreNew, Matches
<1>3. WordsMakeOneItem'
  BY DEF WordsInv, WordsMakeOneItem
<1> QED
  BY <1>1, <1>2, <1>3 DEF WordsInv

\* The item that is recorded was not there, or its words were sent twice at once.
LEMMA RecordMakesOne ==
    ASSUME RevisionInv, WordsInv, NEW d \in Deliveries, RecordFeedback(d)
    PROVE  WordsInv'
<1>1. /\ step' = [step EXCEPT ![d] = "write"] /\ step[d] = "record"
      /\ step \in [Deliveries -> Resting \cup UnderWay]
      /\ UNCHANGED <<request, item, raced>>
  BY DEF RecordFeedback, RevisionInv, RevisionTypeOK
<1>2. \A e \in Deliveries : step'[e] = IF e = d THEN "write" ELSE step[e]
  BY <1>1
<1>3. Range(feedback') = Range(feedback) \cup {item[d]}
  <2>1. CASE item[d] \in Range(feedback)
    BY <2>1 DEF RecordFeedback
  <2>2. CASE item[d] \notin Range(feedback)
    BY <2>2, AppendedRange DEF RecordFeedback, RevisionInv, RevisionTypeOK
  <2> QED
    BY <2>1, <2>2
<1>4. /\ item[d].words = request[d].words /\ item[d].gated = request[d].gated
      /\ request[d].targets # {} => item[d].targets \subseteq request[d].targets
      /\ \/ request[d].words \in raced
         \/ \A f \in Range(feedback) : ~Matches(f, request[d])
      /\ request[d] \in Requests
  BY <1>1 DEF WordsInv, NewItemsAreNew, RevisionInv, RevisionTypeOK
<1>5. OverlapsAreNoted'
  BY <1>1, <1>2 DEF WordsInv, OverlapsAreNoted, UnderWay
<1>6. NewItemsAreNew'
  <2> SUFFICES ASSUME NEW e \in Deliveries, step'[e] \in {"select", "record"},
                      request[e].words \notin raced
               PROVE  \A f \in Range(feedback') : ~Matches(f, request[e])
    BY <1>1, <1>2 DEF WordsInv, NewItemsAreNew
  <2>1. e # d /\ step[e] = step'[e]
    BY <1>2
  <2>2. request[d].words # request[e].words
    BY <1>1, <2>1 DEF WordsInv, OverlapsAreNoted, UnderWay
  <2>3. ~Matches(item[d], request[e])
    BY <1>4, <2>2 DEF Matches
  <2> QED
    BY <1>3, <2>1, <2>3 DEF WordsInv, NewItemsAreNew
<1>7. WordsMakeOneItem'
  <2>1. ASSUME NEW g \in Range(feedback), g.words = item[d].words, g.gated = item[d].gated,
               item[d].words \notin raced
        PROVE  item[d].targets \subseteq request[d].targets
    BY <1>4, <2>1 DEF Matches
  <2> QED
    BY <1>1, <1>3, <1>4, <2>1 DEF WordsInv, WordsMakeOneItem
<1> QED
  BY <1>5, <1>6, <1>7 DEF WordsInv

LEMMA WordsKeep == RevisionInv /\ WordsInv /\ [RevisionNext]_revisionVars => WordsInv'
<1> SUFFICES ASSUME RevisionInv, WordsInv, [RevisionNext]_revisionVars PROVE WordsInv'
  OBVIOUS
<1>1. CASE UNCHANGED revisionVars
  BY <1>1 DEF revisionVars, WordsInv, OverlapsAreNoted, NewItemsAreNew, WordsMakeOneItem, Matches
<1> SUFFICES ASSUME NEW d \in Deliveries,
        \/ \E q \in Requests : Ask(d, q)
        \/ FindFeedback(d) \/ Refuse(d) \/ SelectTargets(d) \/ RecordFeedback(d)
        \/ TakeStep(d) \/ RespondRevised(d) \/ LoseDelivery(d)
             PROVE  WordsInv'
  BY <1>1 DEF RevisionNext
<1>2. /\ step \in [Deliveries -> Resting \cup UnderWay] /\ request \in [Deliveries -> Requests]
      /\ item = [e \in Deliveries |-> item[e]]
  BY DEF RevisionInv, RevisionTypeOK
<1>3. CASE \E q \in Requests : Ask(d, q)
  BY <1>3, AskNotes
<1>4. CASE FindFeedback(d)
  <2>1. CASE \A f \in Range(feedback) : ~Matches(f, request[d])
    <3>1. step' = [step EXCEPT ![d] = "select"] /\ UNCHANGED <<feedback, raced, request, item>>
      <4>1. \A i \in DOMAIN feedback : ~Matches(feedback[i], request[d])
        BY <2>1 DEF Range
      <4> QED
        BY <1>4, <4>1 DEF FindFeedback
    <3> QED
      BY <1>2, <1>4, <2>1, <3>1, OthersUndisturbed DEF FindFeedback, UnderWay
  <2>2. CASE ~\A f \in Range(feedback) : ~Matches(f, request[d])
    <3>1. PICK i \in DOMAIN feedback : Matches(feedback[i], request[d])
      BY <2>2 DEF Range
    <3>2. /\ step' = [step EXCEPT ![d] = "write"] /\ UNCHANGED <<feedback, raced, request>>
          /\ \A e \in Deliveries \ {d} : item'[e] = item[e]
      BY <1>2, <1>4, <3>1 DEF FindFeedback
    <3> QED
      BY <1>2, <1>4, <3>2, OthersUndisturbed DEF FindFeedback, UnderWay
  <2> QED
    BY <2>1, <2>2
<1>5. CASE SelectTargets(d)
  <2>1. /\ step[d] = "select" /\ step' = [step EXCEPT ![d] = "record"]
        /\ UNCHANGED <<feedback, raced, request>>
        /\ item'[d] = [words |-> request[d].words, gated |-> request[d].gated,
                       targets |-> Targets(request[d])]
        /\ \A e \in Deliveries \ {d} : item'[e] = item[e]
    BY <1>2, <1>5 DEF SelectTargets
  <2>2. request[d].targets # {} => Targets(request[d]) \subseteq request[d].targets
    BY DEF Targets
  <2>3. \/ request[d].words \in raced
        \/ \A f \in Range(feedback) : ~Matches(f, request[d])
    BY <2>1 DEF WordsInv, NewItemsAreNew
  <2> QED
    BY <1>2, <2>1, <2>2, <2>3, OthersUndisturbed DEF UnderWay
<1>6. CASE RecordFeedback(d)
  BY <1>6, RecordMakesOne
<1>7. CASE TakeStep(d)
  <2>1. step[d] = "write" /\ UNCHANGED <<feedback, raced, request, item, step>>
    BY <1>7 DEF TakeStep
  <2> QED
    BY <2>1, OthersUndisturbed
<1>8. CASE Refuse(d) \/ RespondRevised(d) \/ LoseDelivery(d)
  <2>1. PICK outcome \in Resting :
           /\ step' = [step EXCEPT ![d] = outcome]
           /\ \A e \in Deliveries \ {d} : request'[e] = request[e] /\ item'[e] = item[e]
           /\ UNCHANGED <<feedback, raced>>
    BY <1>2, <1>8 DEF Refuse, RespondRevised, LoseDelivery, Rest, Resting
  <2>2. step'[d] \notin UnderWay \cup {"select", "record"}
    BY <1>2, <2>1 DEF Resting, UnderWay
  <2> QED
    BY <1>2, <2>1, <2>2, OthersUndisturbed DEF UnderWay
<1> QED
  BY <1>3, <1>4, <1>5, <1>6, <1>7, <1>8

\* Words that are sent again, whatever became of the earlier deliveries, find
\* the item they made: a second one comes only of naming other targets or of
\* deliveries that overlapped (_find_existing_revision_feedback).
THEOREM OneItemPerWords == RevisionSpec => []WordsMakeOneItem
<1> DEFINE Inv == RevisionInv /\ WordsInv
<1>1. RevisionInit => Inv
  BY Begun, WordsBegin
<1>2. Inv /\ [RevisionNext]_revisionVars => Inv'
  BY RevisionInductive, WordsKeep
<1>3. Inv => WordsMakeOneItem
  BY DEF WordsInv
<1> QED
  BY <1>1, <1>2, <1>3, PTL DEF RevisionSpec
=============================================================================
