SPECIFICATION Spec
CONSTANTS
  v1 = v1
  r1 = r1
  r2 = r2
  t1 = t1
  t2 = t2
  Turns = {v1}
  NoTurn = NoTurn
  Responses = {r1}
  NoResponse = NoResponse
  Texts = {t1}
  NoText = NoText
  Calls = {c1}
  w1 = w1
  w2 = w2
  draft = draft
  note = note
  doctor = doctor
  editor = editor
  Words = {w1, w2}
  Originals = {draft}
  Named = {draft, note}
  Recipients <- OneSpecialist
  Reviewers <- OneReviewer
  NoOne = NoOne
  NoItem = NoItem
  Deliveries = {d1, d2}
  Requests <- FourRequests
  MaxAsks = 3
  Passers = {p1}
  Checkers = {p1}
  MediaTypes <- OneKind
  Slots = {s1}
  MaxWritten = 0
  Runs = {x1, x2, x3}
  NoRun = NoRun
  Kinds <- AllButRestore
  MaxOps = 1
  MaxVersion = 0
  SourceOf <- FirstAnswersTurn
  Events <- OneAnswer
INVARIANTS
  FollowupsCatchUp
