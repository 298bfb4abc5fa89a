---------------------------- MODULE StudioProofs ----------------------------
(***************************************************************************)
(* The browser page and the autonomous pass it asks for.                   *)
(***************************************************************************)
EXTENDS MCFlows, VoiceEventsProofs, RevisionProofs, FiniteSetTheorems, TLAPS

-----------------------------------------------------------------------------
(***************************************************************************)
(* The page, for any gates, runs and number of handlers.  A control is     *)
(* busy only for a handler of this view that is under way, and no two such *)
(* handlers exclude one another: a new one finds its controls free, and    *)
(* what has left the view no longer touches them.                          *)
(***************************************************************************)

\* The handlers that the page waits for in this view.
Here(o) == Live(o) /\ OfThisView(o)

\* Handlers are born one after the other, and a gate's token counts them and
\* the views that were left.
TokensAreCounted ==
    \E n \in 0..MaxOps :
        /\ \A o \in Ops : op[o] = Unborn <=> o > n
        /\ \A g \in Gates : gate[g].token <= n + version

\* A handler that is not under way is none of any kind.
OnlyLiveHaveKinds ==
    \A o \in Ops :
        /\ op[o].kind # "none" <=> Live(o)
        /\ op[o].cycles => Live(o)
        /\ op[o].at = "cycle" => op[o].cycles
        /\ op[o].kind = "composer" /\ op[o].at = "request" => ~op[o].cycles
        /\ op[o].kind \in {"continue", "followup", "retry", "runPlan"} => op[o].cycles
        /\ op[o].kind \notin {"composer", "voiceRun"} /\ Live(o) => op[o].run # NoRun

\* A handler of this view holds its gate; those of views left behind have
\* lost it for good; and a gate in flight is held.
GatesFollowViews ==
    /\ \A o \in Ops :
         Live(o) =>
             /\ op[o].version <= version
             /\ op[o].kind \in Gates =>
                  IF OfThisView(o)
                  THEN gate[op[o].kind].inFlight /\ op[o].token = gate[op[o].kind].token
                  ELSE op[o].token < gate[op[o].kind].token
    /\ \A g \in Gates :
         gate[g].inFlight =>
             \E o \in Ops : Live(o) /\ op[o].kind = g /\ op[o].token = gate[g].token

\* What the flags say of the handlers, without counting.
FlagsFollowHandlers ==
    /\ \A o, p \in Ops :
         /\ op[o].cycles /\ op[p].cycles => o = p
         /\ op[o].kind = "pulse" /\ op[p].kind = "pulse" => o = p
         /\ op[o].kind = "scheduler" /\ op[p].kind = "scheduler" /\ op[o].run = op[p].run => o = p
    /\ cycle <=> \E o \in Ops : op[o].cycles
    /\ pulse <=> \E o \in Ops : op[o].kind = "pulse"
    /\ \A r \in Runs : r \in scheduled <=> \E o \in Ops : op[o].kind = "scheduler" /\ op[o].run = r

\* An empty view is busy with the one handler that may bring it a run; in
\* another every handler is about the run that the page shows.
HandlersAgreeWithView ==
    IF page.run = NoRun
    THEN \A o \in Ops : Here(o) =>
             /\ op[o].kind \in {"composer", "voiceRun", "restore"}
             /\ page.busy /\ seen.busy
             /\ \A p \in Ops : Here(p) => p = o
    ELSE \A o \in Ops : Here(o) => op[o].run = page.run /\ op[o].kind # "voiceRun"

\* A rendering lags behind the page only from an empty view to its run, while
\* nothing is under way in it and no button is enabled.
RenderingFollows ==
    /\ owner = seen.run
    /\ page.run # seen.run =>
         seen.run = NoRun /\ seen.busy /\ \A o \in Ops : ~Here(o)

PageInv ==
    /\ PageTypeOK
    /\ TokensAreCounted
    /\ OnlyLiveHaveKinds
    /\ GatesFollowViews
    /\ FlagsFollowHandlers
    /\ HandlersAgreeWithView
    /\ RenderingFollows
    /\ MutationsExclude
    /\ BusyHasCause

-----------------------------------------------------------------------------
LEMMA InitPage == PageInit => PageInv
<1> SUFFICES ASSUME PageInit PROVE PageInv
  OBVIOUS
<1> USE PageAssumption
<1>a. /\ owner = NoRun /\ version = 0 /\ seen = page
      /\ gate = [g \in Gates |-> [inFlight |-> FALSE, token |-> 0]]
      /\ cycle = FALSE /\ pulse = FALSE /\ scheduled = {} /\ creating = FALSE
  BY DEF PageInit
<1>b. 0 \in 0..MaxOps /\ 0 \in 0..MaxVersion /\ 0 \in 0..(MaxOps + MaxVersion)
      /\ 1 \in 0..MaxOps /\ 1 \in Ops /\ \A o \in Ops : o > 0 /\ (o # 1 => o > 1)
  BY DEF Ops
<1>1. /\ Unborn.kind = "none" /\ Unborn.at = "unborn" /\ Unborn.run = NoRun
      /\ Unborn.version = 0 /\ Unborn.token = 0 /\ Unborn.cycles = FALSE
      /\ Unborn \in OpState
  BY <1>b DEF Unborn, OpState
<1>2. [inFlight |-> FALSE, token |-> 0] \in GateState
  BY <1>b DEF GateState
<1>3. gate \in [Gates -> GateState] /\ \A g \in Gates : ~gate[g].inFlight /\ gate[g].token = 0
  BY <1>a, <1>2
<1>4. CASE page = [run |-> NoRun, busy |-> FALSE] /\ op = [o \in Ops |-> Unborn] /\ made = {}
  <2>1. page \in View
    BY <1>4 DEF View
  <2>2. op \in [Ops -> OpState] /\ \A o \in Ops : op[o] = Unborn /\ ~Live(o)
    BY <1>1, <1>4 DEF Live
  <2>3. PageTypeOK
    BY <1>a, <1>b, <1>3, <1>4, <2>1, <2>2 DEF PageTypeOK
  <2>4. TokensAreCounted
    <3>1. \A o \in Ops : op[o] = Unborn <=> o > 0
      BY <1>b, <2>2
    <3>2. \A g \in Gates : gate[g].token <= 0 + version
      BY <1>a, <1>3
    <3> QED
      BY <1>b, <3>1, <3>2 DEF TokensAreCounted
  <2>5. OnlyLiveHaveKinds /\ GatesFollowViews /\ FlagsFollowHandlers
    BY <1>a, <1>1, <1>3, <2>2 DEF OnlyLiveHaveKinds, GatesFollowViews, FlagsFollowHandlers
  <2>6. HandlersAgreeWithView /\ RenderingFollows /\ BusyHasCause
    BY <1>a, <1>4, <2>2 DEF HandlersAgreeWithView, RenderingFollows, BusyHasCause, Here
  <2>7. MutationsExclude
    BY <1>1, <2>2 DEF MutationsExclude, Mutations, Gates
  <2> QED
    BY <2>3, <2>4, <2>5, <2>6, <2>7 DEF PageInv
<1>5. ASSUME NEW r \in Runs,
             page = [run |-> NoRun, busy |-> TRUE],
             op = [o \in Ops |-> IF o = 1 THEN [Unborn EXCEPT !.kind = "restore",
                                                             !.at = "read", !.run = r]
                                 ELSE Unborn],
             made = {r}
      PROVE  PageInv
  <2> DEFINE first == [Unborn EXCEPT !.kind = "restore", !.at = "read", !.run = r]
  <2>1. page \in View /\ page.run = NoRun /\ page.busy
    BY <1>5 DEF View
  <2>2. /\ first.kind = "restore" /\ first.at = "read" /\ first.run = r
        /\ first.version = 0 /\ first.token = 0 /\ first.cycles = FALSE
        /\ first \in OpState
    BY <1>b, <1>5 DEF Unborn, OpState
  <2> HIDE DEF first
  <2>4. /\ op \in [Ops -> OpState] /\ op[1] = first
        /\ \A o \in Ops : o # 1 => op[o] = Unborn
    BY <1>b, <1>1, <1>5, <2>2 DEF first
  <2>5. Here(1) /\ Live(1) /\ \A o \in Ops : o # 1 => ~Live(o)
    BY <1>a, <1>1, <2>2, <2>4 DEF Live, Here, OfThisView
  <2>6. PageTypeOK
    BY <1>a, <1>b, <1>3, <1>5, <2>1, <2>4 DEF PageTypeOK
  <2>7. TokensAreCounted
    <3>1. first # Unborn
      BY <1>1, <2>2
    <3>2. \A o \in Ops : op[o] = Unborn <=> o > 1
      BY <1>b, <2>4, <3>1
    <3>3. \A g \in Gates : gate[g].token <= 1 + version
      BY <1>a, <1>3
    <3> QED
      BY <1>b, <3>2, <3>3 DEF TokensAreCounted
  <2>8. OnlyLiveHaveKinds
    BY <1>1, <2>2, <2>4, <2>5 DEF OnlyLiveHaveKinds
  <2>9. GatesFollowViews
    <3>1. \A o \in Ops : Live(o) => o = 1
      BY <2>5
    <3>2. op[1].kind \notin Gates /\ op[1].version <= version
      BY <1>a, <2>2, <2>4 DEF Gates
    <3> QED
      BY <1>3, <3>1, <3>2 DEF GatesFollowViews
  <2>10. FlagsFollowHandlers
    BY <1>a, <1>b, <1>1, <2>2, <2>4 DEF FlagsFollowHandlers
  <2>11. HandlersAgreeWithView
    <3>1. \A o \in Ops : Here(o) => o = 1
      BY <2>5 DEF Here
    <3> QED
      BY <1>a, <2>1, <2>2, <2>4, <3>1 DEF HandlersAgreeWithView
  <2>12. RenderingFollows
    BY <1>a, <2>1 DEF RenderingFollows
  <2>13. BusyHasCause
    BY <1>b, <2>2, <2>4, <2>5 DEF BusyHasCause, Here
  <2>14. MutationsExclude
    BY <1>1, <2>2, <2>4 DEF MutationsExclude, Mutations, Gates
  <2> QED
    BY <2>6, <2>7, <2>8, <2>9, <2>10, <2>11, <2>12, <2>13, <2>14 DEF PageInv
<1> QED
  BY <1>4, <1>5 DEF PageInit

-----------------------------------------------------------------------------
\* A handler that changes the run, in this view, keeps others from starting.
LEMMA MutationsBlock ==
  ASSUME PageInv, NEW p \in Ops, OfThisView(p), op[p].kind \in Mutations
  PROVE  Blocked(page.run)
<1> USE DEF PageInv
<1>1. Live(p) /\ Here(p)
  BY DEF OnlyLiveHaveKinds, Mutations, Gates, Here
<1>2. CASE op[p].kind \in Gates
  BY <1>1, <1>2 DEF GatesFollowViews, Blocked
<1>3. CASE op[p].kind \in {"continue", "followup", "retry"}
  BY <1>3 DEF OnlyLiveHaveKinds, FlagsFollowHandlers, Blocked
<1>4. CASE op[p].kind = "pulse"
  BY <1>4 DEF FlagsFollowHandlers, Blocked
<1>5. CASE op[p].kind = "scheduler"
  <2>1. page.run # NoRun /\ op[p].run = page.run
    BY <1>1, <1>5 DEF HandlersAgreeWithView
  <2>2. page.run \in Runs
    BY <2>1 DEF PageTypeOK, View
  <2> QED
    BY <1>5, <2>1, <2>2 DEF FlagsFollowHandlers, Blocked
<1> QED
  BY <1>2, <1>3, <1>4, <1>5 DEF Mutations

\* A handler starts for the run that the page shows, as of the last rendering
\* and now.
LEMMA StartsForTheView ==
  ASSUME PageInv, NEW k, NEW run, Admits(k, run), k # "voiceRun"
  PROVE  /\ run = page.run /\ run = seen.run
         /\ page.run = NoRun => k = "composer" /\ \A o \in Ops : ~Here(o)
<1> USE DEF PageInv, Admits
<1>1. CASE ByButton(k)
  <2>1. ~seen.busy /\ run = seen.run
    BY <1>1
  <2>2. run = page.run
    BY <2>1 DEF RenderingFollows
  <2>3. page.run = NoRun => \A o \in Ops : ~Here(o)
    BY <2>1 DEF HandlersAgreeWithView
  <2> QED
    BY <2>1, <2>2, <2>3
<1>2. CASE ~ByButton(k)
  <2>1. k \notin {"composer", "voiceRun"}
    BY <1>2 DEF ByButton
  <2> QED
    BY <2>1 DEF RenderingFollows
<1> QED
  BY <1>1, <1>2

\* The handler that is born is the one after those that were.
LEMMA BornInOrder ==
  ASSUME TokensAreCounted, NEW o \in Ops, NextOp(o)
  PROVE  \E n \in 0..(MaxOps - 1) :
            /\ o = n + 1
            /\ \A p \in Ops : op[p] = Unborn <=> p > n
            /\ \A g \in Gates : gate[g].token <= n + version
<1> USE PageAssumption DEF Ops
<1>1. PICK n \in 0..MaxOps :
         /\ \A p \in Ops : op[p] = Unborn <=> p > n
         /\ \A g \in Gates : gate[g].token <= n + version
  BY DEF TokensAreCounted
<1>2. o > n
  BY <1>1 DEF NextOp
<1>3. o - 1 <= n
  <2>1. CASE o = 1
    BY <2>1
  <2>2. CASE o # 1
    <3>1. o - 1 \in Ops /\ o - 1 \in 1..(o - 1)
      BY <2>2
    <3>2. op[o - 1] # Unborn
      BY <3>1 DEF NextOp
    <3> QED
      BY <1>1, <3>1, <3>2
  <2> QED
    BY <2>1, <2>2
<1>4. n \in 0..(MaxOps - 1) /\ o = n + 1
  BY <1>2, <1>3
<1> QED
  BY <1>1, <1>4

-----------------------------------------------------------------------------
\* What the end of a handler does to the label: in its own view it is gone,
\* unless the handler never had it; another is not touched.
EndsWell(o) ==
    IF OfThisView(o)
    THEN /\ page'.run \in {page.run, op[o].run}
         /\ op[o].kind \notin {"update", "silent"} => ~page'.busy
         /\ page'.busy => page.busy
    ELSE page' = page

LEMMA FinishKeeps ==
  ASSUME PageInv, NEW o \in Ops, Live(o), Finish(o), page' \in View, EndsWell(o)
  PROVE  PageInv'
<1> USE DEF PageInv
<1> o \in Ops
  OBVIOUS
<1>1. /\ Over \in OpState /\ Over # Unborn
      /\ Over.kind = "none" /\ Over.at = "over" /\ ~Over.cycles
  <2>1. 0 \in 0..MaxVersion /\ 0 \in 0..(MaxOps + MaxVersion)
    BY PageAssumption
  <2> QED
    BY <2>1 DEF Over, Unborn, OpState
<1>2. /\ op' \in [Ops -> OpState] /\ op'[o] = Over
      /\ \A p \in Ops : p # o => op'[p] = op[p]
  BY <1>1 DEF Finish, PageTypeOK
<1>3. /\ gate' \in [Gates -> GateState]
      /\ \A g \in Gates : /\ gate'[g].token = gate[g].token
                          /\ gate'[g].inFlight <=>
                               gate[g].inFlight /\ ~(g = op[o].kind /\ op[o].token = gate[g].token)
  BY DEF Finish, FinishGate, PageTypeOK, GateState
<1>4. UNCHANGED <<seen, owner, version, made>>
  BY DEF Finish
<1>5. ~Live(o)' /\ \A p \in Ops : p # o => Live(p)' = Live(p) /\ Here(p)' = Here(p)
  BY <1>1, <1>2, <1>4 DEF Live, Here, OfThisView
<1>6. PageTypeOK'
  <2>1. cycle' \in BOOLEAN /\ pulse' \in BOOLEAN /\ creating' \in BOOLEAN
    BY DEF Finish
  <2>2. scheduled' \subseteq Runs
    BY DEF Finish, PageTypeOK
  <2> QED
    BY <1>2, <1>3, <1>4, <2>1, <2>2 DEF PageTypeOK
<1>7. TokensAreCounted'
  <2>1. PICK n \in 0..MaxOps : /\ \A p \in Ops : op[p] = Unborn <=> p > n
                               /\ \A g \in Gates : gate[g].token <= n + version
    BY DEF TokensAreCounted
  <2>2. op[o] # Unborn
    BY DEF Live, Unborn
  <2>3. \A p \in Ops : op'[p] = Unborn <=> p > n
    BY <1>1, <1>2, <2>1, <2>2
  <2>4. \A g \in Gates : gate'[g].token <= n + version'
    BY <1>3, <1>4, <2>1
  <2> QED
    BY <2>3, <2>4 DEF TokensAreCounted
<1>8. OnlyLiveHaveKinds'
  BY <1>1, <1>2, <1>5 DEF OnlyLiveHaveKinds
<1>9. GatesFollowViews'
  <2>1. ASSUME NEW p \in Ops, Live(p)', op'[p].kind \in Gates
        PROVE  IF OfThisView(p)'
               THEN gate'[op'[p].kind].inFlight /\ op'[p].token = gate'[op'[p].kind].token
               ELSE op'[p].token < gate'[op'[p].kind].token
    <3>1. p # o /\ Live(p) /\ op'[p] = op[p] /\ OfThisView(p)' = OfThisView(p)
      BY <1>2, <1>4, <1>5, <2>1 DEF OfThisView
    <3>2. CASE ~OfThisView(p)
      BY <1>3, <2>1, <3>1, <3>2 DEF GatesFollowViews
    <3>3. CASE OfThisView(p)
      <4>1. gate[op[p].kind].inFlight /\ op[p].token = gate[op[p].kind].token
        BY <2>1, <3>1, <3>3 DEF GatesFollowViews
      <4>2. ~(op[p].kind = op[o].kind /\ op[o].token = gate[op[p].kind].token)
        <5>1. SUFFICES ASSUME op[p].kind = op[o].kind, op[o].token = gate[op[o].kind].token
                       PROVE  FALSE
          OBVIOUS
        <5>2. gate[op[o].kind].token \in Nat
          BY <2>1, <3>1, <5>1, PageAssumption DEF PageTypeOK, GateState
        <5>3. OfThisView(o)
          BY <2>1, <3>1, <5>1, <5>2 DEF GatesFollowViews
        <5> QED
          BY <2>1, <3>1, <3>3, <5>1, <5>3 DEF MutationsExclude, Mutations
      <4> QED
        BY <1>3, <2>1, <3>1, <3>3, <4>1, <4>2
    <3> QED
      BY <3>2, <3>3
  <2>2. \A p \in Ops : Live(p)' => op'[p].version <= version'
    BY <1>2, <1>4, <1>5 DEF GatesFollowViews
  <2>3. ASSUME NEW g \in Gates, gate'[g].inFlight
        PROVE  \E p \in Ops : Live(p)' /\ op'[p].kind = g /\ op'[p].token = gate'[g].token
    <3>1. PICK p \in Ops : Live(p) /\ op[p].kind = g /\ op[p].token = gate[g].token
      BY <1>3, <2>3 DEF GatesFollowViews
    <3>2. p # o
      BY <1>3, <2>3, <3>1
    <3> QED
      BY <1>2, <1>3, <1>5, <3>1, <3>2
  <2> QED
    BY <2>1, <2>2, <2>3 DEF GatesFollowViews
<1>10. FlagsFollowHandlers'
  <2>1. \A p, q \in Ops :
         /\ op'[p].cycles /\ op'[q].cycles => p = q
         /\ op'[p].kind = "pulse" /\ op'[q].kind = "pulse" => p = q
         /\ op'[p].kind = "scheduler" /\ op'[q].kind = "scheduler" /\ op'[p].run = op'[q].run => p = q
    BY <1>1, <1>2 DEF FlagsFollowHandlers
  <2>2. cycle' <=> \E p \in Ops : op'[p].cycles
    BY <1>1, <1>2 DEF FlagsFollowHandlers, Finish
  <2>3. pulse' <=> \E p \in Ops : op'[p].kind = "pulse"
    BY <1>1, <1>2 DEF FlagsFollowHandlers, Finish
  <2>4. \A r \in Runs :
          r \in scheduled' <=> \E p \in Ops : op'[p].kind = "scheduler" /\ op'[p].run = r
    BY <1>1, <1>2 DEF FlagsFollowHandlers, Finish
  <2> QED
    BY <2>1, <2>2, <2>3, <2>4 DEF FlagsFollowHandlers
<1>11. HandlersAgreeWithView' /\ RenderingFollows'
  <2>1. CASE ~OfThisView(o)
    <3>1. page' = page
      BY <2>1 DEF EndsWell
    <3> QED
      BY <1>2, <1>4, <1>5, <3>1 DEF HandlersAgreeWithView, RenderingFollows, Here
  <2>2. CASE OfThisView(o) /\ page.run = NoRun
    <3>1. Here(o) /\ \A p \in Ops : ~Here(p)'
      BY <1>5, <2>2 DEF HandlersAgreeWithView, Here
    <3>2. page.busy /\ seen.busy
      BY <2>2, <3>1 DEF HandlersAgreeWithView
    <3> QED
      BY <1>4, <2>2, <3>1, <3>2 DEF HandlersAgreeWithView, RenderingFollows
  <2>3. CASE OfThisView(o) /\ page.run # NoRun
    <3>1. page'.run = page.run
      BY <2>3 DEF EndsWell, HandlersAgreeWithView, Here
    <3>2. HandlersAgreeWithView'
      BY <1>2, <1>4, <1>5, <2>3, <3>1 DEF HandlersAgreeWithView, Here
    <3>3. RenderingFollows'
      BY <1>2, <1>4, <1>5, <3>1 DEF RenderingFollows, Here
    <3> QED
      BY <3>2, <3>3
  <2> QED
    BY <2>1, <2>2, <2>3
<1>12. MutationsExclude'
  BY <1>1, <1>2, <1>4 DEF MutationsExclude, OfThisView, Mutations, Gates
<1>13. BusyHasCause'
  <2> SUFFICES ASSUME page'.busy
               PROVE  \E p \in Ops : Here(p)' /\ op'[p].kind \notin {"update", "silent"}
    BY DEF BusyHasCause, Here
  <2>1. page.busy
    BY DEF EndsWell
  <2>2. PICK p \in Ops : Here(p) /\ op[p].kind \notin {"update", "silent"}
    BY <2>1 DEF BusyHasCause, Here
  <2>3. p # o
    BY <2>2 DEF EndsWell, Here
  <2> QED
    BY <1>2, <1>5, <2>2, <2>3
<1> QED
  BY <1>6, <1>7, <1>8, <1>9, <1>10, <1>11, <1>12, <1>13

-----------------------------------------------------------------------------
\* What a handler that goes on to another await may change: itself, the flag
\* of the agents along with its own, and the label of its own view.
KeepsItself(o, next) ==
    /\ next \in OpState
    /\ next.at \notin {"unborn", "request", "over"}
    /\ next.kind = op[o].kind /\ next.version = op[o].version /\ next.token = op[o].token
    /\ \/ next.run = op[o].run
       \/ /\ op[o].kind \in {"composer", "voiceRun"}
          /\ OfThisView(o) /\ page.run = NoRun
    /\ next.at = "cycle" => next.cycles

KeepsFlag(o, next) ==
    \/ next.cycles = op[o].cycles /\ UNCHANGED cycle
    \/ ~cycle /\ next.cycles /\ cycle'
    \/ op[o].kind = "composer" /\ op[o].cycles /\ ~next.cycles /\ ~cycle'

KeepsLabel(o) ==
    /\ page'.run = page.run
    /\ \/ page'.busy = page.busy
       \/ /\ OfThisView(o)
          /\ IF page'.busy THEN op[o].kind \notin {"update", "silent"} ELSE page.run # NoRun

LEMMA GoesOnKeepsPage ==
  ASSUME PageInv, NEW o \in Ops, Live(o), NEW next, op' = [op EXCEPT ![o] = next],
         KeepsItself(o, next), KeepsFlag(o, next), KeepsLabel(o),
         page' \in View, cycle' \in BOOLEAN, made' \subseteq Runs,
         UNCHANGED <<seen, owner, version, gate, pulse, scheduled, creating>>
  PROVE  PageInv'
<1> USE DEF PageInv
<1>1. /\ next \in OpState /\ next # Unborn
      /\ next.kind = op[o].kind /\ next.version = op[o].version /\ next.token = op[o].token
  BY DEF KeepsItself, Unborn
<1>2. /\ op' \in [Ops -> OpState] /\ op'[o] = next
      /\ \A p \in Ops : p # o => op'[p] = op[p]
  BY <1>1 DEF PageTypeOK
<1>3. \A p \in Ops : /\ op'[p].kind = op[p].kind
                     /\ op'[p].version = op[p].version /\ op'[p].token = op[p].token
  BY <1>1, <1>2
<1>4. \A p \in Ops : Live(p)' = Live(p) /\ OfThisView(p)' = OfThisView(p) /\ Here(p)' = Here(p)
  BY <1>2, <1>3 DEF Live, Here, OfThisView, KeepsItself
<1>5. PageTypeOK'
  BY <1>2 DEF PageTypeOK
<1>6. TokensAreCounted'
  <2>1. op[o] # Unborn
    BY DEF Live, Unborn
  <2>2. \A p \in Ops : op'[p] = Unborn <=> op[p] = Unborn
    BY <1>1, <1>2, <2>1
  <2> QED
    BY <2>2 DEF TokensAreCounted
<1>7. next.kind \in {"composer", "voiceRun"} \/ next.run = op[o].run
  BY <1>1 DEF KeepsItself
<1>8. OnlyLiveHaveKinds'
  <2>1. next.cycles \/ ~op[o].cycles \/ op[o].kind = "composer"
    BY DEF KeepsFlag
  <2>2. /\ next.at = "cycle" => next.cycles
        /\ next.at # "request"
        /\ op[o].kind \in {"continue", "followup", "retry", "runPlan"} => next.cycles
    BY <2>1 DEF KeepsItself, OnlyLiveHaveKinds
  <2>3. /\ op'[o].kind # "none" /\ Live(o)'
        /\ op'[o].kind \notin {"composer", "voiceRun"} => op'[o].run # NoRun
    BY <1>1, <1>2, <1>4, <1>7 DEF OnlyLiveHaveKinds
  <2>4. ASSUME NEW p \in Ops, p # o
        PROVE  /\ op'[p].kind # "none" <=> Live(p)'
               /\ op'[p].cycles => Live(p)'
               /\ op'[p].at = "cycle" => op'[p].cycles
               /\ op'[p].kind = "composer" /\ op'[p].at = "request" => ~op'[p].cycles
               /\ op'[p].kind \in {"continue", "followup", "retry", "runPlan"} => op'[p].cycles
               /\ op'[p].kind \notin {"composer", "voiceRun"} /\ Live(p)' => op'[p].run # NoRun
    BY <1>2, <1>4, <2>4 DEF OnlyLiveHaveKinds
  <2> QED
    BY <1>1, <1>2, <2>2, <2>3, <2>4 DEF OnlyLiveHaveKinds
<1>9. GatesFollowViews'
  BY <1>3, <1>4 DEF GatesFollowViews
<1>10. FlagsFollowHandlers'
  <2>1. \A p, q \in Ops :
         /\ op'[p].kind = "pulse" /\ op'[q].kind = "pulse" => p = q
         /\ op'[p].kind = "scheduler" /\ op'[q].kind = "scheduler" /\ op'[p].run = op'[q].run => p = q
    BY <1>1, <1>2, <1>3, <1>7 DEF FlagsFollowHandlers
  <2>2. pulse' <=> \E p \in Ops : op'[p].kind = "pulse"
    BY <1>3 DEF FlagsFollowHandlers
  <2>3. \A r \in Runs :
          r \in scheduled' <=> \E p \in Ops : op'[p].kind = "scheduler" /\ op'[p].run = r
    BY <1>1, <1>2, <1>7 DEF FlagsFollowHandlers
  <2>4. /\ \A p, q \in Ops : op'[p].cycles /\ op'[q].cycles => p = q
        /\ cycle' <=> \E p \in Ops : op'[p].cycles
    BY <1>2 DEF FlagsFollowHandlers, KeepsFlag
  <2> QED
    BY <2>1, <2>2, <2>3, <2>4 DEF FlagsFollowHandlers
<1>11. HandlersAgreeWithView'
  <2>1. CASE page.run = NoRun
    <3>1. \A p \in Ops : Here(p) => page'.busy
      BY <2>1 DEF HandlersAgreeWithView, KeepsLabel
    <3> QED
      BY <1>3, <1>4, <2>1, <3>1 DEF HandlersAgreeWithView, KeepsLabel
  <2>2. CASE page.run # NoRun
    <3>1. next.run = op[o].run
      BY <2>2 DEF KeepsItself
    <3> QED
      BY <1>2, <1>3, <1>4, <2>2, <3>1 DEF HandlersAgreeWithView, KeepsLabel
  <2> QED
    BY <2>1, <2>2
<1>12. RenderingFollows'
  BY <1>4 DEF RenderingFollows, KeepsLabel
<1>13. MutationsExclude'
  BY <1>3, <1>4 DEF MutationsExclude
<1>14. BusyHasCause'
  <2>1. CASE page'.busy = page.busy
    BY <1>3, <1>4, <2>1 DEF BusyHasCause, Here
  <2>2. CASE page'.busy # page.busy
    BY <1>3, <1>4, <2>2 DEF BusyHasCause, KeepsLabel
  <2> QED
    BY <2>1, <2>2
<1> QED
  BY <1>5, <1>6, <1>8, <1>9, <1>10, <1>11, <1>12, <1>13, <1>14

-----------------------------------------------------------------------------
LEMMA StartKeeps ==
  ASSUME PageInv, NEW k \in Kinds, NEW run \in Runs \cup {NoRun}, StartHandler(k, run)
  PROVE  PageInv'
<1> USE DEF PageInv
<1>1. /\ k # "voiceRun" /\ Admits(k, run)
      /\ UNCHANGED <<owner, version, creating, made>>
      /\ page' = [page EXCEPT !.busy = @ \/ k \notin {"update", "silent"}]
      /\ seen' = [seen EXCEPT !.busy = @ \/ ByButton(k)]
      /\ cycle' = (cycle \/ Cycles(k)) /\ pulse' = (pulse \/ k = "pulse")
      /\ scheduled' = IF k = "scheduler" THEN scheduled \cup {run} ELSE scheduled
      /\ IF k \in Gates THEN Begin(k) ELSE UNCHANGED gate
  BY DEF StartHandler
<1>2. PICK o \in Ops :
         /\ NextOp(o)
         /\ op' = [op EXCEPT ![o] =
                     [kind |-> k, at |-> FirstAwait(k), run |-> run, version |-> version,
                      token |-> IF k \in Gates THEN gate[k].token + 1 ELSE 0,
                      cycles |-> Cycles(k)]]
  BY DEF StartHandler
<1> DEFINE next == [kind |-> k, at |-> FirstAwait(k), run |-> run, version |-> version,
                   token |-> IF k \in Gates THEN gate[k].token + 1 ELSE 0,
                   cycles |-> Cycles(k)]
<1>3. PICK n \in 0..(MaxOps - 1) :
         /\ o = n + 1
         /\ \A p \in Ops : op[p] = Unborn <=> p > n
         /\ \A g \in Gates : gate[g].token <= n + version
  BY <1>2, BornInOrder
<1>4. run = page.run /\ run = seen.run
      /\ (page.run = NoRun => k = "composer" /\ \A p \in Ops : ~Here(p))
  BY <1>1, StartsForTheView
<1>5. k \in Gates \cup Ungated /\ k # "none"
  BY PageAssumption DEF Gates, Ungated
<1>6. /\ next.kind = k /\ next.at = FirstAwait(k) /\ next.run = run /\ next.version = version
      /\ next.token = (IF k \in Gates THEN gate[k].token + 1 ELSE 0)
      /\ next.cycles = Cycles(k)
  OBVIOUS
<1>7. next \in OpState
  <2>1. FirstAwait(k) \in {"cycle", "read", "request"} /\ Cycles(k) \in BOOLEAN
    BY DEF FirstAwait, Cycles
  <2>2. ASSUME k \in Gates PROVE gate[k].token + 1 \in 0..(MaxOps + MaxVersion)
    <3>1. gate[k].token \in Nat /\ version \in 0..MaxVersion
      BY <2>2, PageAssumption DEF PageTypeOK, GateState
    <3>2. gate[k].token <= n + version
      BY <1>3, <2>2
    <3> QED
      BY <3>1, <3>2, PageAssumption
  <2>3. 0 \in 0..(MaxOps + MaxVersion)
    BY PageAssumption
  <2>4. next.token \in 0..(MaxOps + MaxVersion)
    BY <1>6, <2>2, <2>3
  <2>5. version \in 0..MaxVersion
    BY DEF PageTypeOK
  <2> HIDE DEF next
  <2> QED
    BY <1>6, <2>1, <2>4, <2>5 DEF next, OpState
<1> HIDE DEF next
<1>8. /\ op' \in [Ops -> OpState] /\ op'[o] = next
      /\ \A p \in Ops : p # o => op'[p] = op[p]
  BY <1>2, <1>7 DEF PageTypeOK, next
<1>9. op[o] = Unborn /\ ~Live(o)
  BY <1>2 DEF NextOp, Live, Unborn
<1>10. next.at \in {"cycle", "read", "request"} /\ (next.at = "cycle" => next.cycles)
  BY <1>6 DEF FirstAwait, Cycles
<1>11. next # Unborn
  BY <1>10 DEF Unborn
<1>12. /\ Live(o)' /\ Here(o)'
       /\ \A p \in Ops : p # o => /\ Live(p)' = Live(p) /\ Here(p)' = Here(p)
                                  /\ OfThisView(p)' = OfThisView(p)
  BY <1>1, <1>6, <1>8, <1>10 DEF Live, Here, OfThisView
<1>13. /\ page' \in View /\ seen' \in View
       /\ page'.run = page.run /\ seen'.run = seen.run
       /\ page'.busy = (page.busy \/ k \notin {"update", "silent"})
       /\ seen'.busy = (seen.busy \/ ByButton(k))
  BY <1>1 DEF PageTypeOK, View, ByButton
<1>14. /\ gate' \in [Gates -> GateState]
       /\ \A g \in Gates : g # k => gate'[g] = gate[g]
       /\ k \in Gates => gate'[k].inFlight /\ gate'[k].token = gate[k].token + 1
  <2>1. CASE k \in Gates
    <3>1. gate[k].token + 1 \in 0..(MaxOps + MaxVersion)
      BY <1>6, <1>7, <2>1 DEF OpState
    <3> DEFINE b == [inFlight |-> TRUE, token |-> gate[k].token + 1]
    <3>2. b \in GateState /\ b.inFlight /\ b.token = gate[k].token + 1
      BY <3>1 DEF GateState
    <3>3. gate' = [gate EXCEPT ![k] = b]
      BY <1>1, <2>1 DEF Begin
    <3> HIDE DEF b
    <3> QED
      BY <2>1, <3>2, <3>3 DEF PageTypeOK
  <2>2. CASE k \notin Gates
    BY <1>1, <2>2 DEF PageTypeOK
  <2> QED
    BY <2>1, <2>2
<1>15. k = "scheduler" => run \in Runs
  BY <1>1 DEF Admits
<1>16. PageTypeOK'
  <2>1. cycle' \in BOOLEAN /\ pulse' \in BOOLEAN /\ scheduled' \subseteq Runs
    BY <1>1, <1>15 DEF PageTypeOK
  <2> QED
    BY <1>1, <1>8, <1>13, <1>14, <2>1 DEF PageTypeOK
<1>17. TokensAreCounted'
  <2>1. n + 1 \in 0..MaxOps /\ version \in Nat
    BY PageAssumption DEF PageTypeOK
  <2>2. \A p \in Ops : op'[p] = Unborn <=> p > n + 1
    BY <1>3, <1>8, <1>11, PageAssumption DEF Ops
  <2>3. \A g \in Gates : gate[g].token \in Nat
    BY PageAssumption DEF PageTypeOK, GateState
  <2>4. \A g \in Gates : gate'[g].token <= n + 1 + version
    BY <1>3, <1>14, <2>1, <2>3
  <2> QED
    BY <1>1, <2>1, <2>2, <2>4 DEF TokensAreCounted
<1>18. OnlyLiveHaveKinds'
  <2>1. k \in {"continue", "followup", "retry", "runPlan"} => next.cycles
    BY <1>6 DEF Cycles
  <2>2. /\ k \notin {"composer", "voiceRun"} => run # NoRun
        /\ k = "composer" => ~next.cycles
    BY <1>1, <1>6 DEF Admits, Cycles
  <2> QED
    BY <1>5, <1>6, <1>8, <1>10, <1>12, <2>1, <2>2 DEF OnlyLiveHaveKinds
<1>19. GatesFollowViews'
  <2>1. \A g \in Gates : gate[g].token \in Nat /\ gate[g].inFlight \in BOOLEAN
    BY PageAssumption DEF PageTypeOK, GateState
  <2>2. k \in Gates => \A p \in Ops : ~(Here(p) /\ op[p].kind = k)
    <3> SUFFICES ASSUME k \in Gates, NEW p \in Ops, Here(p), op[p].kind = k PROVE FALSE
      OBVIOUS
    <3>1. Blocked(run)
      BY <1>4, MutationsBlock DEF Here, Mutations
    <3>2. k \notin {"voiceRun", "runPlan", "update", "silent"}
      BY DEF Gates
    <3> QED
      BY <1>1, <3>1, <3>2 DEF Admits
  <2>3. ASSUME NEW p \in Ops, Live(p)', op'[p].kind \in Gates
        PROVE  IF OfThisView(p)'
               THEN gate'[op'[p].kind].inFlight /\ op'[p].token = gate'[op'[p].kind].token
               ELSE op'[p].token < gate'[op'[p].kind].token
    <3>1. CASE p = o
      BY <1>6, <1>8, <1>12, <1>14, <2>3, <3>1 DEF Here
    <3>2. CASE p # o
      <4>1. Live(p) /\ op'[p] = op[p] /\ OfThisView(p)' = OfThisView(p)
        BY <1>8, <1>12, <2>3, <3>2
      <4>2. CASE OfThisView(p)
        <5>1. op[p].kind # k
          BY <2>2, <2>3, <4>1, <4>2 DEF Here
        <5> QED
          BY <1>14, <2>3, <4>1, <4>2, <5>1 DEF GatesFollowViews
      <4>3. CASE ~OfThisView(p)
        <5>1. op[p].token < gate[op[p].kind].token /\ op[p].token \in Nat
          BY <2>3, <4>1, <4>3, PageAssumption DEF GatesFollowViews, PageTypeOK, OpState
        <5>2. gate[op[p].kind].token <= gate'[op[p].kind].token /\ gate'[op[p].kind].token \in Nat
          BY <1>14, <2>1, <2>3, <4>1
        <5> QED
          BY <2>1, <2>3, <4>1, <4>3, <5>1, <5>2
      <4> QED
        BY <4>2, <4>3
    <3> QED
      BY <3>1, <3>2
  <2>4. \A p \in Ops : Live(p)' => op'[p].version <= version'
    <3>1. version \in Nat
      BY DEF PageTypeOK
    <3> QED
      BY <1>1, <1>6, <1>8, <1>12, <3>1 DEF GatesFollowViews
  <2>5. ASSUME NEW g \in Gates, gate'[g].inFlight
        PROVE  \E p \in Ops : Live(p)' /\ op'[p].kind = g /\ op'[p].token = gate'[g].token
    <3>1. CASE g = k
      BY <1>6, <1>8, <1>12, <1>14, <3>1
    <3>2. CASE g # k
      <4>1. PICK p \in Ops : Live(p) /\ op[p].kind = g /\ op[p].token = gate[g].token
        BY <1>14, <2>5, <3>2 DEF GatesFollowViews
      <4>2. p # o
        BY <1>9, <4>1
      <4> QED
        BY <1>8, <1>12, <1>14, <3>2, <4>1, <4>2
    <3> QED
      BY <3>1, <3>2
  <2> QED
    BY <2>3, <2>4, <2>5 DEF GatesFollowViews
<1>20. FlagsFollowHandlers'
  <2>1. ~op[o].cycles /\ op[o].kind = "none"
    BY <1>9 DEF Unborn
  <2>2. k \notin {"voiceRun", "runPlan", "update", "silent"} => ~cycle /\ ~pulse /\ run \notin scheduled
    BY <1>1 DEF Admits, Blocked
  <2>3. Cycles(k) => ~cycle
    BY <1>1, <2>2 DEF Cycles, Admits, AgentsFree
  <2>4. /\ \A p, q \in Ops : op'[p].cycles /\ op'[q].cycles => p = q
        /\ cycle' <=> \E p \in Ops : op'[p].cycles
    <3>1. cycle' <=> cycle \/ next.cycles
      BY <1>1, <1>6
    <3>2. next.cycles => ~cycle
      BY <1>6, <2>3
    <3>3. \A p \in Ops : op'[p].cycles <=> IF p = o THEN next.cycles ELSE op[p].cycles
      BY <1>8
    <3>4. cycle <=> \E p \in Ops : op[p].cycles
      BY DEF FlagsFollowHandlers
    <3>5. cycle' <=> \E p \in Ops : op'[p].cycles
      BY <2>1, <3>1, <3>3, <3>4
    <3>6. \A p, q \in Ops : op'[p].cycles /\ op'[q].cycles => p = q
      BY <3>2, <3>3, <3>4 DEF FlagsFollowHandlers
    <3> QED
      BY <3>5, <3>6
  <2>5. /\ \A p, q \in Ops : op'[p].kind = "pulse" /\ op'[q].kind = "pulse" => p = q
        /\ pulse' <=> \E p \in Ops : op'[p].kind = "pulse"
    <3>1. pulse' <=> pulse \/ k = "pulse"
      BY <1>1
    <3>2. \A p \in Ops : op'[p].kind = "pulse" <=> IF p = o THEN k = "pulse" ELSE op[p].kind = "pulse"
      BY <1>6, <1>8
    <3>3. pulse <=> \E p \in Ops : op[p].kind = "pulse"
      BY DEF FlagsFollowHandlers
    <3>4. pulse' <=> \E p \in Ops : op'[p].kind = "pulse"
      BY <2>1, <3>1, <3>2, <3>3
    <3>5. k = "pulse" => ~pulse
      BY <2>2
    <3>6. \A p, q \in Ops : op'[p].kind = "pulse" /\ op'[q].kind = "pulse" => p = q
      BY <3>2, <3>3, <3>5 DEF FlagsFollowHandlers
    <3> QED
      BY <3>4, <3>6
  <2>6. /\ \A p, q \in Ops :
             op'[p].kind = "scheduler" /\ op'[q].kind = "scheduler" /\ op'[p].run = op'[q].run
             => p = q
        /\ \A r \in Runs :
             r \in scheduled' <=> \E p \in Ops : op'[p].kind = "scheduler" /\ op'[p].run = r
    BY <1>1, <1>6, <1>8, <1>15, <2>1, <2>2 DEF FlagsFollowHandlers
  <2> QED
    BY <2>4, <2>5, <2>6 DEF FlagsFollowHandlers
<1>21. HandlersAgreeWithView'
  <2>1. CASE page.run = NoRun
    <3>1. k = "composer" /\ ByButton(k) /\ \A p \in Ops : ~Here(p)
      BY <1>4, <2>1 DEF ByButton
    <3>2. page'.busy /\ seen'.busy /\ \A p \in Ops : Here(p)' => p = o
      BY <1>12, <1>13, <3>1
    <3> QED
      BY <1>6, <1>8, <1>13, <2>1, <3>1, <3>2 DEF HandlersAgreeWithView
  <2>2. CASE page.run # NoRun
    BY <1>1, <1>4, <1>6, <1>8, <1>12, <1>13, <2>2 DEF HandlersAgreeWithView
  <2> QED
    BY <2>1, <2>2
<1>22. RenderingFollows'
  BY <1>1, <1>4, <1>13 DEF RenderingFollows
<1>23. MutationsExclude'
  <2>1. k \in Mutations => k \notin {"voiceRun", "runPlan", "update", "silent"}
    BY DEF Mutations, Gates
  <2>2. k \in Mutations => \A p \in Ops : ~(OfThisView(p) /\ op[p].kind \in Mutations)
    BY <1>1, <1>4, <2>1, MutationsBlock DEF Admits
  <2> QED
    BY <1>6, <1>8, <1>12, <2>2 DEF MutationsExclude
<1>24. BusyHasCause'
  <2>1. CASE k \notin {"update", "silent"}
    BY <1>6, <1>8, <1>12, <2>1 DEF BusyHasCause, Here
  <2>2. CASE k \in {"update", "silent"}
    <3> SUFFICES ASSUME page'.busy
                 PROVE  \E p \in Ops : Here(p)' /\ op'[p].kind \notin {"update", "silent"}
      BY DEF BusyHasCause, Here
    <3>1. PICK p \in Ops : Here(p) /\ op[p].kind \notin {"update", "silent"}
      BY <1>13, <2>2 DEF BusyHasCause, Here
    <3>2. p # o
      BY <1>9, <3>1 DEF Here
    <3> QED
      BY <1>8, <1>12, <3>1, <3>2
  <2> QED
    BY <2>1, <2>2
<1> QED
  BY <1>16, <1>17, <1>18, <1>19, <1>20, <1>21, <1>22, <1>23, <1>24

-----------------------------------------------------------------------------
\* The view is left: whoever was here is so no longer, and every gate has a
\* token of its own.
LEMMA LeavingKeeps ==
  ASSUME PageInv, NEW busy \in BOOLEAN, LeaveView(busy),
         UNCHANGED <<cycle, pulse, scheduled>>
  PROVE  /\ page' \in View /\ page'.run = NoRun /\ page'.busy = busy
         /\ seen' = page' /\ owner' = NoRun
         /\ version' = version + 1 /\ version' \in 0..MaxVersion /\ version \in Nat
         /\ gate' \in [Gates -> GateState]
         /\ \A g \in Gates : ~gate'[g].inFlight /\ gate'[g].token = gate[g].token + 1
         /\ \A g \in Gates : gate[g].token \in Nat
         /\ \E n \in 0..MaxOps : /\ \A o \in Ops : op[o] = Unborn <=> o > n
                                 /\ \A g \in Gates : gate'[g].token <= n + version'
<1> USE PageAssumption DEF PageInv
<1>1. /\ version < MaxVersion /\ version' = version + 1 /\ owner' = NoRun
      /\ page' = [run |-> NoRun, busy |-> busy] /\ seen' = page'
      /\ gate' = [g \in Gates |-> [inFlight |-> FALSE, token |-> gate[g].token + 1]]
  BY DEF LeaveView, InvalidateAll
<1>2. page' \in View /\ page'.run = NoRun /\ page'.busy = busy
  BY <1>1 DEF View
<1>3. version \in Nat /\ version' \in 0..MaxVersion
  BY <1>1 DEF PageTypeOK
<1>4. \A g \in Gates : gate[g].token \in Nat
  BY DEF PageTypeOK, GateState
<1>5. PICK n \in 0..MaxOps : /\ \A o \in Ops : op[o] = Unborn <=> o > n
                             /\ \A g \in Gates : gate[g].token <= n + version
  BY DEF TokensAreCounted
<1>6. \A g \in Gates : gate'[g] = [inFlight |-> FALSE, token |-> gate[g].token + 1]
  BY <1>1
<1>7. \A g \in Gates : /\ ~gate'[g].inFlight /\ gate'[g].token = gate[g].token + 1
                       /\ gate'[g].token <= n + version'
  BY <1>1, <1>3, <1>4, <1>5, <1>6
<1>8. \A g \in Gates : gate'[g] \in GateState
  <2> TAKE g \in Gates
  <2>1. gate[g].token + 1 \in 0..(MaxOps + MaxVersion)
    BY <1>3, <1>4, <1>5, <1>7
  <2>2. FALSE \in BOOLEAN
    OBVIOUS
  <2>3. [inFlight |-> FALSE, token |-> gate[g].token + 1] \in GateState
    BY <2>1, <2>2 DEF GateState
  <2> QED
    BY <1>6, <2>3
<1> QED
  BY <1>1, <1>2, <1>3, <1>4, <1>5, <1>7, <1>8

LEMMA ClearRunKeeps ==
  ASSUME PageInv, ClearRun
  PROVE  PageInv'
<1> USE DEF PageInv
<1>1. LeaveView(FALSE) /\ UNCHANGED <<cycle, pulse, scheduled, creating, op, made>>
  BY DEF ClearRun
<1>2. /\ page' \in View /\ page'.run = NoRun /\ page'.busy = FALSE
      /\ seen' = page' /\ owner' = NoRun
      /\ version' = version + 1 /\ version' \in 0..MaxVersion /\ version \in Nat
      /\ gate' \in [Gates -> GateState]
      /\ \A g \in Gates : ~gate'[g].inFlight /\ gate'[g].token = gate[g].token + 1
      /\ \A g \in Gates : gate[g].token \in Nat
  BY <1>1, LeavingKeeps
<1>3. \A o \in Ops : /\ op'[o] = op[o] /\ Live(o)' = Live(o)
                     /\ ~Here(o)' /\ (Live(o) => op[o].version <= version /\ ~OfThisView(o)')
  <2> TAKE o \in Ops
  <2>1. op[o].version \in Nat
    BY DEF PageTypeOK, OpState
  <2>2. Live(o) => op[o].version <= version
    BY DEF GatesFollowViews
  <2> QED
    BY <1>1, <1>2, <2>1, <2>2 DEF Live, Here, OfThisView
<1>4. PageTypeOK'
  BY <1>1, <1>2 DEF PageTypeOK
<1>5. TokensAreCounted'
  BY <1>1, LeavingKeeps DEF TokensAreCounted
<1>6. OnlyLiveHaveKinds' /\ FlagsFollowHandlers'
  BY <1>1, <1>3 DEF OnlyLiveHaveKinds, FlagsFollowHandlers
<1>7. GatesFollowViews'
  <2>1. ASSUME NEW o \in Ops, Live(o)
        PROVE  /\ op[o].version <= version'
               /\ op[o].kind \in Gates => op[o].token < gate'[op[o].kind].token
    <3>1. op[o].version \in Nat /\ op[o].token \in Nat
      BY DEF PageTypeOK, OpState
    <3>2. op[o].kind \in Gates => op[o].token <= gate[op[o].kind].token
      BY <1>2, <2>1, <3>1 DEF GatesFollowViews
    <3> QED
      BY <1>2, <1>3, <2>1, <3>1, <3>2
  <2> QED
    BY <1>2, <1>3, <2>1 DEF GatesFollowViews
<1>8. HandlersAgreeWithView' /\ RenderingFollows' /\ BusyHasCause'
  BY <1>2, <1>3 DEF HandlersAgreeWithView, RenderingFollows, BusyHasCause
<1>9. MutationsExclude'
  BY <1>3 DEF MutationsExclude, OnlyLiveHaveKinds, Mutations, Gates
<1> QED
  BY <1>4, <1>5, <1>6, <1>7, <1>8, <1>9

LEMMA CreateVoiceRunKeeps ==
  ASSUME PageInv, CreateVoiceRun
  PROVE  PageInv'
<1> USE DEF PageInv
<1>1. LeaveView(TRUE) /\ UNCHANGED <<cycle, pulse, scheduled, made>> /\ creating' = TRUE
      /\ "voiceRun" \in Kinds
  BY DEF CreateVoiceRun
<1>2. /\ page' \in View /\ page'.run = NoRun /\ page'.busy = TRUE
      /\ seen' = page' /\ owner' = NoRun
      /\ version' = version + 1 /\ version' \in 0..MaxVersion /\ version \in Nat
      /\ gate' \in [Gates -> GateState]
      /\ \A g \in Gates : ~gate'[g].inFlight /\ gate'[g].token = gate[g].token + 1
      /\ \A g \in Gates : gate[g].token \in Nat
  BY <1>1, LeavingKeeps
<1> DEFINE next == [Unborn EXCEPT !.kind = "voiceRun", !.at = "request", !.version = version']
<1>3. PICK o \in Ops : NextOp(o) /\ op' = [op EXCEPT ![o] = next]
  BY DEF CreateVoiceRun
<1>4. /\ next \in OpState /\ next # Unborn /\ next.kind = "voiceRun" /\ next.at = "request"
      /\ next.version = version' /\ ~next.cycles
  <2>1. 0 \in 0..(MaxOps + MaxVersion)
    BY PageAssumption
  <2> QED
    BY <1>1, <1>2, <2>1 DEF Unborn, OpState
<1> HIDE DEF next
<1>5. /\ op' \in [Ops -> OpState] /\ op'[o] = next
      /\ \A p \in Ops : p # o => op'[p] = op[p]
  BY <1>3, <1>4 DEF PageTypeOK
<1>6. ~Live(o) /\ op[o].kind = "none" /\ ~op[o].cycles
  BY <1>3 DEF NextOp, Live, Unborn
<1>7. Live(o)' /\ Here(o)' /\ OfThisView(o)'
  BY <1>4, <1>5 DEF Live, Here, OfThisView
<1>8. \A p \in Ops : p # o =>
        /\ Live(p)' = Live(p) /\ ~Here(p)'
        /\ (Live(p) => op[p].version <= version /\ ~OfThisView(p)')
  <2> TAKE p \in Ops
  <2>1. op[p].version \in Nat
    BY DEF PageTypeOK, OpState
  <2>2. Live(p) => op[p].version <= version
    BY DEF GatesFollowViews
  <2> QED
    BY <1>2, <1>5, <2>1, <2>2 DEF Live, Here, OfThisView
<1>9. PageTypeOK'
  BY <1>1, <1>2, <1>5 DEF PageTypeOK
<1>10. TokensAreCounted'
  <2>1. PICK n \in 0..(MaxOps - 1) :
           /\ o = n + 1
           /\ \A p \in Ops : op[p] = Unborn <=> p > n
           /\ \A g \in Gates : gate[g].token <= n + version
    BY <1>3, BornInOrder
  <2>2. n + 1 \in 0..MaxOps
    BY PageAssumption
  <2>3. \A p \in Ops : op'[p] = Unborn <=> p > n + 1
    BY <1>4, <1>5, <2>1, PageAssumption DEF Ops
  <2>4. \A g \in Gates : gate'[g].token <= n + 1 + version'
    BY <1>2, <2>1, <2>2
  <2> QED
    BY <2>2, <2>3, <2>4 DEF TokensAreCounted
<1>11. OnlyLiveHaveKinds'
  BY <1>4, <1>5, <1>7, <1>8 DEF OnlyLiveHaveKinds
<1>12. FlagsFollowHandlers'
  BY <1>1, <1>4, <1>5, <1>6 DEF FlagsFollowHandlers
<1>13. GatesFollowViews'
  <2>1. ASSUME NEW p \in Ops, p # o, Live(p)
        PROVE  /\ op[p].version <= version'
               /\ op[p].kind \in Gates => op[p].token < gate'[op[p].kind].token
    <3>1. op[p].version \in Nat /\ op[p].token \in Nat
      BY DEF PageTypeOK, OpState
    <3>2. op[p].kind \in Gates => op[p].token <= gate[op[p].kind].token
      BY <1>2, <2>1, <3>1 DEF GatesFollowViews
    <3> QED
      BY <1>2, <1>8, <2>1, <3>1, <3>2
  <2>2. op'[o].kind \notin Gates /\ op'[o].version <= version'
    BY <1>2, <1>4, <1>5 DEF Gates
  <2>3. \A p \in Ops : Live(p)' =>
          /\ op'[p].version <= version'
          /\ op'[p].kind \in Gates => ~OfThisView(p)' /\ op'[p].token < gate'[op'[p].kind].token
    BY <1>5, <1>8, <2>1, <2>2
  <2> QED
    BY <1>2, <2>3 DEF GatesFollowViews
<1>14. HandlersAgreeWithView' /\ RenderingFollows'
  BY <1>2, <1>4, <1>5, <1>8 DEF HandlersAgreeWithView, RenderingFollows
<1>15. BusyHasCause'
  BY <1>4, <1>5, <1>7 DEF BusyHasCause
<1>16. MutationsExclude'
  <2>1. \A p \in Ops : OfThisView(p)' => op'[p].kind \notin Mutations
    BY <1>4, <1>5, <1>8 DEF OnlyLiveHaveKinds, Mutations, Gates
  <2> QED
    BY <2>1 DEF MutationsExclude
<1> QED
  BY <1>9, <1>10, <1>11, <1>12, <1>13, <1>14, <1>15, <1>16

LEMMA RenderKeeps ==
  ASSUME PageInv, Render
  PROVE  PageInv'
<1> USE DEF PageInv, Render
<1>1. \A o \in Ops : Live(o)' = Live(o) /\ Here(o)' = Here(o) /\ OfThisView(o)' = OfThisView(o)
  BY DEF Live, Here, OfThisView
<1>2. PageTypeOK'
  BY DEF PageTypeOK, View
<1>3. TokensAreCounted' /\ OnlyLiveHaveKinds' /\ FlagsFollowHandlers'
  BY <1>1 DEF TokensAreCounted, OnlyLiveHaveKinds, FlagsFollowHandlers
<1>4. GatesFollowViews' /\ MutationsExclude' /\ BusyHasCause'
  BY <1>1 DEF GatesFollowViews, MutationsExclude, BusyHasCause
<1>5. HandlersAgreeWithView'
  BY <1>1 DEF HandlersAgreeWithView
<1>6. RenderingFollows'
  BY DEF RenderingFollows
<1> QED
  BY <1>2, <1>3, <1>4, <1>5, <1>6

-----------------------------------------------------------------------------
\* A handler of this view is current: the comparisons of tokens and runs tell
\* it nothing that the view's version does not.
LEMMA HereAreCurrent ==
  ASSUME PageInv, NEW o \in Ops, Here(o)
  PROVE  /\ Current(o)
         /\ page.run # NoRun => op[o].run = page.run
         /\ op[o].kind \notin {"composer", "voiceRun", "restore"} => page.run # NoRun
<1> USE DEF PageInv
<1>1. page.run # NoRun => op[o].run = page.run /\ owner = page.run
  BY DEF HandlersAgreeWithView, RenderingFollows
<1>2. page.run = NoRun => op[o].kind \in {"composer", "voiceRun", "restore"}
  BY DEF HandlersAgreeWithView
<1>3. op[o].kind \in Gates => op[o].token = gate[op[o].kind].token
  BY DEF GatesFollowViews, Here
<1>4. op[o].kind \in Gates \ {"composer"} => op[o].run = owner
  BY <1>1, <1>2 DEF Gates
<1> QED
  BY <1>1, <1>2, <1>3, <1>4 DEF Current, Here

\* A handler of another view gives up.
LEMMA GiveUpKeeps ==
  ASSUME PageInv, NEW o \in Ops, Live(o), ~Current(o) \/ ~OfThisView(o), GiveUp(o)
  PROVE  PageInv'
<1>1. ~OfThisView(o)
  BY HereAreCurrent DEF Here
<1>2. page' = page
  BY <1>1 DEF GiveUp, ClearBusy
<1> QED
  BY <1>1, <1>2, FinishKeeps DEF GiveUp, EndsWell, PageInv, PageTypeOK

LEMMA FailsKeeps ==
  ASSUME PageInv, NEW o \in Ops, Fails(o)
  PROVE  PageInv'
<1>1. Live(o) /\ Finish(o) /\ page \in View
  BY DEF Fails, PageInv, PageTypeOK
<1>2. CASE op[o].kind \in {"update", "silent"}
  BY <1>1, <1>2, FinishKeeps DEF Fails, EndsWell
<1>3. CASE op[o].kind \notin {"update", "silent"} /\ OfThisView(o)
  <2>1. Current(o)
    BY <1>1, <1>3, HereAreCurrent DEF Here
  <2>2. page' \in View /\ page'.run = page.run /\ ~page'.busy
    BY <1>1, <1>3, <2>1 DEF Fails, Busy, View
  <2>3. EndsWell(o)
    BY <1>3, <2>2 DEF EndsWell
  <2> QED
    BY <1>1, <2>2, <2>3, FinishKeeps
<1>4. CASE op[o].kind \notin {"update", "silent"} /\ ~OfThisView(o)
  BY <1>1, <1>4, GiveUpKeeps DEF Fails, GiveUp, Current
<1> QED
  BY <1>2, <1>3, <1>4

LEMMA VoiceMutationEndsKeeps ==
  ASSUME PageInv, NEW o \in Ops, VoiceMutationEnds(o)
  PROVE  PageInv'
<1>1. /\ Live(o) /\ Finish(o) /\ page \in View
      /\ op[o].kind \in {"voiceSession", "voiceProof"}
  BY DEF VoiceMutationEnds, Live, PageInv, PageTypeOK
<1>2. CASE OfThisView(o)
  <2>1. Current(o) /\ page.run = op[o].run
    BY <1>1, <1>2, HereAreCurrent DEF Here
  <2>2. page' \in View /\ page'.run = page.run /\ ~page'.busy
    BY <1>1, <1>2, <2>1 DEF VoiceMutationEnds, ClearBusy, View
  <2>3. EndsWell(o)
    BY <1>2, <2>2 DEF EndsWell
  <2> QED
    BY <1>1, <2>2, <2>3, FinishKeeps
<1>3. CASE ~OfThisView(o)
  <2>1. page' = page
    BY <1>3 DEF VoiceMutationEnds, Current
  <2> QED
    BY <1>1, <1>3, <2>1, FinishKeeps DEF EndsWell
<1> QED
  BY <1>2, <1>3

\* A handler that only waits for something else, and perhaps sets the label.
LEMMA AwaitKeeps ==
  ASSUME PageInv, NEW o \in Ops, Live(o),
         NEW place \in {"cycle", "read", "replan", "reread"},
         place = "cycle" => op[o].cycles,
         AwaitAt(o, place), KeepFlags, UNCHANGED made, page' \in View, KeepsLabel(o)
  PROVE  PageInv'
<1> DEFINE next == [op[o] EXCEPT !.at = place]
<1>1. op[o] \in OpState
  BY DEF PageInv, PageTypeOK
<1>2. /\ next \in OpState /\ next.at = place /\ next.kind = op[o].kind /\ next.run = op[o].run
      /\ next.version = op[o].version /\ next.token = op[o].token /\ next.cycles = op[o].cycles
  BY <1>1 DEF OpState
<1>3. op' = [op EXCEPT ![o] = next]
  BY DEF AwaitAt
<1> HIDE DEF next
<1>4. KeepsItself(o, next) /\ KeepsFlag(o, next)
  BY <1>2 DEF KeepsItself, KeepsFlag, KeepFlags
<1>5. cycle' \in BOOLEAN /\ made' \subseteq Runs
  BY DEF KeepFlags, PageInv, PageTypeOK
<1> QED
  BY <1>3, <1>4, <1>5, GoesOnKeepsPage DEF KeepFlags

LEMMA RoutedKeeps ==
  ASSUME PageInv, NEW o \in Ops, Routed(o)
  PROVE  PageInv'
<1> USE DEF PageInv
<1>1. op[o].kind = "composer" /\ op[o].at = "request" /\ Current(o)
  BY DEF Routed
<1>2. Live(o) /\ Here(o) /\ ~op[o].cycles /\ op[o] \in OpState
  BY <1>1 DEF Live, Here, Current, OnlyLiveHaveKinds, PageTypeOK
<1>3. PICK run \in IF op[o].run = NoRun THEN Runs \ made ELSE {op[o].run} :
        /\ made' = made \cup {run}
        /\ \/ /\ op' = [op EXCEPT ![o].run = run, ![o].at = "read"]
              /\ UNCHANGED <<page, cycle>>
           \/ /\ Busy(TRUE)
              /\ op' = [op EXCEPT ![o].run = run, ![o].cycles = AgentsFree,
                                  ![o].at = IF AgentsFree THEN "cycle" ELSE "read"]
              /\ cycle' = (cycle \/ AgentsFree)
        /\ UNCHANGED <<seen, owner, version, gate, pulse, scheduled, creating>>
  BY DEF Routed
<1>4. /\ run \in Runs
      /\ run = op[o].run \/ page.run = NoRun
  BY <1>2, <1>3, HereAreCurrent DEF OpState
<1>5. made' \subseteq Runs
  BY <1>3, <1>4 DEF PageTypeOK
<1>6. CASE op' = [op EXCEPT ![o].run = run, ![o].at = "read"] /\ UNCHANGED <<page, cycle>>
  <2> DEFINE next == [op[o] EXCEPT !.run = run, !.at = "read"]
  <2>1. /\ next \in OpState /\ next.at = "read" /\ next.kind = op[o].kind /\ next.run = run
        /\ next.version = op[o].version /\ next.token = op[o].token /\ next.cycles = op[o].cycles
    BY <1>2, <1>4 DEF OpState
  <2>2. op' = [op EXCEPT ![o] = next]
    BY <1>6
  <2> HIDE DEF next
  <2>3. KeepsItself(o, next) /\ KeepsFlag(o, next) /\ KeepsLabel(o)
    BY <1>1, <1>2, <1>4, <1>6, <2>1 DEF KeepsItself, KeepsFlag, KeepsLabel, Here
  <2>4. page' \in View /\ cycle' \in BOOLEAN
    BY <1>6 DEF PageTypeOK
  <2> QED
    BY <1>2, <1>3, <1>5, <2>2, <2>3, <2>4, GoesOnKeepsPage
<1>7. CASE /\ Busy(TRUE)
           /\ op' = [op EXCEPT ![o].run = run, ![o].cycles = AgentsFree,
                               ![o].at = IF AgentsFree THEN "cycle" ELSE "read"]
           /\ cycle' = (cycle \/ AgentsFree)
  <2> DEFINE next == [op[o] EXCEPT !.run = run, !.cycles = AgentsFree,
                                  !.at = IF AgentsFree THEN "cycle" ELSE "read"]
  <2>0. AgentsFree \in BOOLEAN /\ op[o].cycles = FALSE
    BY <1>2 DEF AgentsFree, OpState
  <2>1. /\ next \in OpState /\ next.at = (IF AgentsFree THEN "cycle" ELSE "read")
        /\ next.kind = op[o].kind /\ next.run = run
        /\ next.version = op[o].version /\ next.token = op[o].token /\ next.cycles = AgentsFree
    BY <1>2, <1>4, <2>0 DEF OpState
  <2>2. op' = [op EXCEPT ![o] = next]
    BY <1>7
  <2> HIDE DEF next
  <2>3. KeepsItself(o, next)
    BY <1>1, <1>2, <1>4, <2>1 DEF KeepsItself, Here
  <2>4. KeepsFlag(o, next)
    <3>1. CASE AgentsFree
      BY <1>7, <2>1, <3>1 DEF KeepsFlag, AgentsFree
    <3>2. CASE ~AgentsFree
      <4>1. next.cycles = op[o].cycles
        BY <2>0, <2>1, <3>2
      <4>2. cycle' = cycle
        BY <1>7, <3>2 DEF PageTypeOK
      <4> QED
        BY <4>1, <4>2 DEF KeepsFlag
    <3> QED
      BY <3>1, <3>2
  <2>5. page' \in View /\ page'.run = page.run /\ page'.busy
    BY <1>7 DEF PageTypeOK, Busy, View
  <2>6. KeepsLabel(o)
    BY <1>1, <1>2, <2>5 DEF KeepsLabel, Here
  <2>7. cycle' \in BOOLEAN
    BY <1>7
  <2> QED
    BY <1>2, <1>3, <1>5, <2>2, <2>3, <2>4, <2>5, <2>6, <2>7, GoesOnKeepsPage
<1> QED
  BY <1>3, <1>6, <1>7

LEMMA ComposerCycleFailsKeeps ==
  ASSUME PageInv, NEW o \in Ops, ComposerCycleFails(o)
  PROVE  PageInv'
<1> USE DEF PageInv
<1>1. /\ op[o].kind = "composer" /\ op[o].at = "cycle"
      /\ op' = [op EXCEPT ![o].at = "read", ![o].cycles = FALSE]
      /\ cycle' = FALSE
      /\ UNCHANGED <<page, seen, owner, version, gate, pulse, scheduled, creating, made>>
  BY DEF ComposerCycleFails
<1>2. Live(o) /\ op[o].cycles /\ op[o] \in OpState
  BY <1>1 DEF Live, OnlyLiveHaveKinds, PageTypeOK
<1> DEFINE next == [op[o] EXCEPT !.at = "read", !.cycles = FALSE]
<1>3. /\ next \in OpState /\ next.at = "read" /\ next.kind = op[o].kind /\ next.run = op[o].run
      /\ next.version = op[o].version /\ next.token = op[o].token /\ ~next.cycles
  BY <1>2 DEF OpState
<1>4. op' = [op EXCEPT ![o] = next]
  BY <1>1
<1> HIDE DEF next
<1>5. KeepsItself(o, next) /\ KeepsFlag(o, next) /\ KeepsLabel(o)
  BY <1>1, <1>2, <1>3 DEF KeepsItself, KeepsFlag, KeepsLabel
<1>6. page' \in View /\ made' \subseteq Runs
  BY <1>1 DEF PageTypeOK
<1> QED
  BY <1>1, <1>2, <1>4, <1>5, <1>6, GoesOnKeepsPage

LEMMA VoiceRunCreatedKeeps ==
  ASSUME PageInv, NEW o \in Ops, VoiceRunCreated(o)
  PROVE  PageInv'
<1> USE DEF PageInv
<1>1. /\ op[o].kind = "voiceRun" /\ op[o].at = "request" /\ OfThisView(o)
      /\ UNCHANGED page /\ KeepFlags
  BY DEF VoiceRunCreated
<1>2. PICK run \in Runs \ made :
        /\ made' = made \cup {run}
        /\ op' = [op EXCEPT ![o].run = run, ![o].at = "read"]
  BY DEF VoiceRunCreated
<1>3. Live(o) /\ Here(o) /\ op[o] \in OpState
  BY <1>1 DEF Live, Here, PageTypeOK
<1>4. page.run = NoRun
  BY <1>1, <1>3 DEF HandlersAgreeWithView
<1> DEFINE next == [op[o] EXCEPT !.run = run, !.at = "read"]
<1>5. /\ next \in OpState /\ next.at = "read" /\ next.kind = op[o].kind /\ next.run = run
      /\ next.version = op[o].version /\ next.token = op[o].token /\ next.cycles = op[o].cycles
  BY <1>2, <1>3 DEF OpState
<1>6. op' = [op EXCEPT ![o] = next]
  BY <1>2
<1> HIDE DEF next
<1>7. KeepsItself(o, next) /\ KeepsFlag(o, next) /\ KeepsLabel(o)
  BY <1>1, <1>4, <1>5 DEF KeepsItself, KeepsFlag, KeepsLabel, KeepFlags
<1>8. page' \in View /\ made' \subseteq Runs /\ cycle' \in BOOLEAN
  BY <1>1, <1>2 DEF PageTypeOK, KeepFlags
<1> QED
  BY <1>1, <1>3, <1>6, <1>7, <1>8, GoesOnKeepsPage DEF KeepFlags

LEMMA RequestedKeeps ==
  ASSUME PageInv, NEW o \in Ops, Requested(o)
  PROVE  PageInv'
<1>1. Live(o) /\ op[o].at = "request" /\ page \in View
  BY DEF Requested, Live, PageInv, PageTypeOK
<1>2. CASE ~Current(o) /\ GiveUp(o)
  BY <1>1, <1>2, GiveUpKeeps
<1>3. CASE /\ Current(o) \/ op[o].kind = "production"
           /\ op[o].kind \notin {"composer", "voiceRun"}
           /\ IF op[o].kind \in {"runPlan", "retry"} THEN AwaitAt(o, "cycle") ELSE AwaitAt(o, "read")
           /\ IF op[o].kind \in {"runPlan", "localScheduler"} THEN Busy(op[o].kind = "runPlan")
              ELSE UNCHANGED page
           /\ UNCHANGED made
           /\ KeepFlags
  <2> DEFINE place == IF op[o].kind \in {"runPlan", "retry"} THEN "cycle" ELSE "read"
  <2>1. AwaitAt(o, place) /\ place \in {"cycle", "read", "replan", "reread"}
    BY <1>3
  <2>2. place = "cycle" => op[o].cycles
    BY DEF PageInv, OnlyLiveHaveKinds
  <2> HIDE DEF place
  <2>3. CASE op[o].kind \in {"runPlan", "localScheduler"}
    <3>1. OfThisView(o) /\ page.run # NoRun
      BY <1>1, <1>3, <2>3, HereAreCurrent DEF Here, Current
    <3>2. page' \in View /\ page'.run = page.run /\ page'.busy = (op[o].kind = "runPlan")
      BY <1>1, <1>3, <2>3 DEF Busy, View
    <3>3. KeepsLabel(o)
      BY <2>3, <3>1, <3>2 DEF KeepsLabel
    <3> QED
      BY <1>1, <1>3, <2>1, <2>2, <3>2, <3>3, AwaitKeeps
  <2>4. CASE op[o].kind \notin {"runPlan", "localScheduler"}
    <3>1. page' = page
      BY <1>3, <2>4
    <3> QED
      BY <1>1, <1>3, <2>1, <2>2, <3>1, AwaitKeeps DEF KeepsLabel
  <2> QED
    BY <2>3, <2>4
<1> QED
  BY <1>2, <1>3 DEF Requested

LEMMA CycledKeeps ==
  ASSUME PageInv, NEW o \in Ops, Cycled(o) \/ Replanned(o)
  PROVE  PageInv'
<1>1. Live(o) /\ page \in View
  BY DEF Cycled, Replanned, Live, PageInv, PageTypeOK
<1>2. CASE ~OfThisView(o) /\ GiveUp(o)
  BY <1>1, <1>2, GiveUpKeeps
<1>3. ASSUME NEW place \in {"read", "reread"}, AwaitAt(o, place), UNCHANGED <<page, made>>, KeepFlags
      PROVE  PageInv'
  BY <1>1, <1>3, AwaitKeeps DEF KeepsLabel
<1> QED
  BY <1>2, <1>3 DEF Cycled, Replanned

LEMMA ReadDoneKeeps ==
  ASSUME PageInv, NEW o \in Ops, ReadDone(o)
  PROVE  PageInv'
<1>1. Live(o) /\ page \in View /\ op[o] \in OpState
  BY DEF ReadDone, Live, PageInv, PageTypeOK
<1>2. CASE ~OfThisView(o) /\ GiveUp(o)
  BY <1>1, <1>2, GiveUpKeeps
<1>3. CASE OfThisView(o) /\ page' = Shows(o) /\ Finish(o)
  <2>1. /\ page' \in View /\ page'.run = op[o].run
        /\ page'.busy = (op[o].kind = "silent" /\ page.busy)
    BY <1>1, <1>3 DEF Shows, View, OpState
  <2>2. EndsWell(o)
    BY <1>3, <2>1 DEF EndsWell
  <2> QED
    BY <1>1, <1>3, <2>1, <2>2, FinishKeeps
<1>4. CASE /\ OfThisView(o)
           /\ op[o].kind = "runPlan"
           /\ page' = [Shows(o) EXCEPT !.busy = TRUE]
           /\ AwaitAt(o, "replan")
           /\ UNCHANGED made
           /\ KeepFlags
  <2>1. page' \in View /\ page'.run = op[o].run /\ page'.busy
    BY <1>1, <1>4 DEF Shows, View, OpState
  <2>2. op[o].run = page.run
    BY <1>1, <1>4, HereAreCurrent DEF Here
  <2>3. KeepsLabel(o)
    BY <1>4, <2>1, <2>2 DEF KeepsLabel
  <2> QED
    BY <1>1, <1>4, <2>1, <2>3, AwaitKeeps
<1> QED
  BY <1>2, <1>3, <1>4 DEF ReadDone

LEMMA PageKeeps == PageInv /\ [PageNext]_pageVars => PageInv'
<1> SUFFICES ASSUME PageInv, [PageNext]_pageVars PROVE PageInv'
  OBVIOUS
<1>1. CASE UNCHANGED pageVars
  BY <1>1 DEF pageVars, PageInv, PageTypeOK, TokensAreCounted, OnlyLiveHaveKinds,
              GatesFollowViews, FlagsFollowHandlers, HandlersAgreeWithView,
              RenderingFollows, MutationsExclude, BusyHasCause, Here, Live, OfThisView
<1>2. CASE \E k \in Kinds, run \in Runs \cup {NoRun} : StartHandler(k, run)
  BY <1>2, StartKeeps
<1>3. CASE CreateVoiceRun \/ ClearRun \/ Render
  BY <1>3, CreateVoiceRunKeeps, ClearRunKeeps, RenderKeeps
<1>4. ASSUME NEW o \in Ops,
             \/ Routed(o) \/ ComposerCycleFails(o) \/ VoiceRunCreated(o)
             \/ VoiceMutationEnds(o) \/ Requested(o) \/ Cycled(o)
             \/ ReadDone(o) \/ Replanned(o) \/ Fails(o)
      PROVE  PageInv'
  BY <1>4, RoutedKeeps, ComposerCycleFailsKeeps, VoiceRunCreatedKeeps, VoiceMutationEndsKeeps,
     RequestedKeeps, CycledKeeps, ReadDoneKeeps, FailsKeeps
<1> QED
  BY <1>1, <1>2, <1>3, <1>4 DEF PageNext

LEMMA PageAlways == PageSpec => []PageInv
  BY InitPage, PageKeeps, PTL DEF PageSpec

-----------------------------------------------------------------------------
\* A set with one element, or none, counts as its flag says.
LEMMA OneOrNone ==
  ASSUME NEW S, NEW flag, \A x, y \in S : x = y, flag <=> S # {}
  PROVE  Cardinality(S) = IF flag THEN 1 ELSE 0
<1>1. CASE S = {}
  BY <1>1, FS_EmptySet
<1>2. CASE S # {}
  <2>1. PICK x : S = {x}
    BY <1>2
  <2> QED
    BY <1>2, <2>1, FS_Singleton
<1> QED
  BY <1>1, <1>2

LEMMA InvGivesHolders == PageInv => ControlsHaveHolders
<1> SUFFICES ASSUME PageInv PROVE ControlsHaveHolders
  OBVIOUS
<1> USE DEF PageInv
<1>1. GatesHaveHolders
  <2> SUFFICES ASSUME NEW g \in Gates
               PROVE  Cardinality({o \in Ops : Live(o) /\ op[o].kind = g /\ op[o].token = gate[g].token})
                        = IF gate[g].inFlight THEN 1 ELSE 0
    BY DEF GatesHaveHolders
  <2> DEFINE S == {o \in Ops : Live(o) /\ op[o].kind = g /\ op[o].token = gate[g].token}
  <2>1. \A o \in S : OfThisView(o) /\ gate[g].inFlight
    <3> TAKE o \in S
    <3>1. gate[g].token \in Nat
      BY PageAssumption DEF PageTypeOK, GateState
    <3> QED
      BY <3>1 DEF GatesFollowViews
  <2>2. \A o, p \in S : o = p
    BY <2>1 DEF MutationsExclude, Mutations
  <2>3. gate[g].inFlight <=> S # {}
    BY <2>1 DEF GatesFollowViews
  <2> HIDE DEF S
  <2>4. Cardinality(S) = IF gate[g].inFlight THEN 1 ELSE 0
    BY <2>2, <2>3, OneOrNone
  <2> QED
    BY <2>4 DEF S
<1>2. FlagsHaveHolders
  <2> DEFINE C == {o \in Ops : op[o].cycles}
             P == {o \in Ops : op[o].kind = "pulse"}
             Q(r) == {o \in Ops : op[o].kind = "scheduler" /\ op[o].run = r}
  <2>1. (\A o, p \in C : o = p) /\ (cycle <=> C # {})
    BY DEF FlagsFollowHandlers
  <2>2. (\A o, p \in P : o = p) /\ (pulse <=> P # {})
    BY DEF FlagsFollowHandlers
  <2>3. \A r \in Runs : (\A o, p \in Q(r) : o = p) /\ (r \in scheduled <=> Q(r) # {})
    BY DEF FlagsFollowHandlers
  <2> HIDE DEF C, P, Q
  <2>4. Cardinality(C) = IF cycle THEN 1 ELSE 0
    BY <2>1, OneOrNone
  <2>5. Cardinality(P) = IF pulse THEN 1 ELSE 0
    BY <2>2, OneOrNone
  <2>6. \A r \in Runs : Cardinality(Q(r)) = IF r \in scheduled THEN 1 ELSE 0
    BY <2>3, OneOrNone
  <2> QED
    BY <2>4, <2>5, <2>6 DEF FlagsHaveHolders, C, P, Q
<1> QED
  BY <1>1, <1>2 DEF ControlsHaveHolders

\* What a handler of another view does.
LEMMA OthersAreSilent ==
  ASSUME PageInv, [PageNext]_pageVars, NEW o \in Ops,
         op[o].version # version, Live(o), op'[o] # op[o]
  PROVE  UNCHANGED <<page, gate, owner>>
<1> USE DEF PageInv
<1>1. ~OfThisView(o) /\ ~Current(o)
  BY DEF OfThisView, Current
<1>2. op \in [Ops -> OpState] /\ op[o] # Unborn
  BY DEF PageTypeOK, Live, Unborn
<1>3. ASSUME Finish(o) PROVE UNCHANGED <<gate, owner>>
  <2>1. gate \in [Gates -> GateState]
    BY DEF PageTypeOK
  <2>2. \A g \in Gates : ~(g = op[o].kind /\ op[o].token = gate[g].token)
    <3> SUFFICES ASSUME NEW g \in Gates, g = op[o].kind, op[o].token = gate[g].token PROVE FALSE
      OBVIOUS
    <3>1. op[o].token < gate[g].token /\ gate[g].token \in Nat
      BY <1>1, <2>1, PageAssumption DEF GatesFollowViews, GateState
    <3> QED
      BY <3>1
  <2>3. gate' = [g \in Gates |-> gate[g]]
    BY <1>3, <2>2 DEF Finish, FinishGate
  <2> QED
    BY <1>3, <2>1, <2>3 DEF Finish
<1>4. ASSUME GiveUp(o) PROVE UNCHANGED <<page, gate, owner>>
  BY <1>1, <1>3, <1>4 DEF GiveUp, ClearBusy
<1>5. CASE UNCHANGED pageVars \/ ClearRun \/ Render
  BY <1>5 DEF pageVars, ClearRun, Render
<1>6. CASE CreateVoiceRun \/ \E k \in Kinds, run \in Runs \cup {NoRun} : StartHandler(k, run)
  <2>1. PICK q \in Ops : NextOp(q) /\ \E next : op' = [op EXCEPT ![q] = next]
    BY <1>6 DEF CreateVoiceRun, StartHandler
  <2>2. q # o
    BY <1>2, <2>1 DEF NextOp
  <2> QED
    BY <1>2, <2>1, <2>2
<1>7. ASSUME NEW p \in Ops,
             \/ Routed(p) \/ ComposerCycleFails(p) \/ VoiceRunCreated(p)
             \/ VoiceMutationEnds(p) \/ Requested(p) \/ Cycled(p)
             \/ ReadDone(p) \/ Replanned(p) \/ Fails(p)
      PROVE  UNCHANGED <<page, gate, owner>>
  <2>1. p = o
    <3> SUFFICES ASSUME p # o PROVE op'[o] = op[o]
      OBVIOUS
    <3>1. CASE Routed(p) \/ ComposerCycleFails(p) \/ VoiceRunCreated(p)
      BY <1>2, <3>1 DEF Routed, ComposerCycleFails, VoiceRunCreated
    <3>2. ASSUME Finish(p) PROVE op'[o] = op[o]
      BY <1>2, <3>2 DEF Finish
    <3>3. ASSUME NEW place, AwaitAt(p, place) PROVE op'[o] = op[o]
      BY <1>2, <3>3 DEF AwaitAt
    <3>4. CASE VoiceMutationEnds(p) \/ Fails(p)
      BY <3>2, <3>4 DEF VoiceMutationEnds, Fails
    <3>5. CASE Requested(p)
      BY <3>2, <3>3, <3>5 DEF Requested, GiveUp
    <3>6. CASE Cycled(p) \/ ReadDone(p) \/ Replanned(p)
      BY <3>2, <3>3, <3>6 DEF Cycled, ReadDone, Replanned, GiveUp
    <3> QED
      BY <1>7, <3>1, <3>4, <3>5, <3>6
  <2>2. CASE Routed(p) \/ VoiceRunCreated(p)
    BY <1>1, <2>1, <2>2 DEF Routed, VoiceRunCreated
  <2>3. CASE ComposerCycleFails(p)
    BY <2>3 DEF ComposerCycleFails
  <2>4. CASE VoiceMutationEnds(p)
    BY <1>1, <1>3, <2>1, <2>4 DEF VoiceMutationEnds
  <2>5. CASE Requested(p)
    BY <1>1, <1>4, <2>1, <2>5 DEF Requested, KeepFlags
  <2>6. CASE Cycled(p) \/ Replanned(p) \/ ReadDone(p)
    BY <1>1, <1>4, <2>1, <2>6 DEF Cycled, Replanned, ReadDone
  <2>7. CASE Fails(p)
    BY <1>1, <1>3, <2>1, <2>7 DEF Fails, ClearBusy
  <2> QED
    BY <1>7, <2>2, <2>3, <2>4, <2>5, <2>6, <2>7
<1> QED
  BY <1>5, <1>6, <1>7 DEF PageNext

\* How the page may come to another run.
LEMMA RunsComeFromEmptyViews ==
  ASSUME PageInv, [PageNext]_pageVars, page'.run # page.run
  PROVE  NoRun \in {page.run, page'.run}
<1> SUFFICES ASSUME page.run # NoRun PROVE page'.run = NoRun
  OBVIOUS
<1> USE DEF PageInv
<1>0. page \in View
  BY DEF PageTypeOK
<1>1. CASE UNCHANGED pageVars \/ Render
  BY <1>1 DEF pageVars, Render
<1>2. CASE CreateVoiceRun \/ ClearRun
  BY <1>2, LeavingKeeps DEF CreateVoiceRun, ClearRun, LeaveView
<1>3. CASE \E k \in Kinds, run \in Runs \cup {NoRun} : StartHandler(k, run)
  BY <1>0, <1>3 DEF StartHandler, View
<1>4. ASSUME NEW o \in Ops,
             \/ Routed(o) \/ ComposerCycleFails(o) \/ VoiceRunCreated(o)
             \/ VoiceMutationEnds(o) \/ Requested(o) \/ Cycled(o)
             \/ ReadDone(o) \/ Replanned(o) \/ Fails(o)
      PROVE  page'.run = page.run
  <2>1. ASSUME NEW b, Busy(b) PROVE page'.run = page.run
    BY <1>0, <2>1 DEF Busy, View
  <2>2. ASSUME ClearBusy(o) PROVE page'.run = page.run
    BY <1>0, <2>2 DEF ClearBusy, View
  <2>3. CASE ReadDone(o)
    <3>1. CASE GiveUp(o)
      BY <2>2, <3>1 DEF GiveUp
    <3>2. CASE OfThisView(o) /\ page' \in {Shows(o), [Shows(o) EXCEPT !.busy = TRUE]}
      <4>1. op[o].run = page.run
        BY <2>3, <3>2, HereAreCurrent DEF Here, Live, ReadDone
      <4> QED
        BY <3>2, <4>1 DEF Shows
    <3> QED
      BY <2>3, <3>1, <3>2 DEF ReadDone
  <2>4. CASE Requested(o)
    BY <2>1, <2>2, <2>4 DEF Requested, GiveUp
  <2>5. CASE Routed(o) \/ ComposerCycleFails(o) \/ VoiceRunCreated(o)
    BY <2>1, <2>5 DEF Routed, ComposerCycleFails, VoiceRunCreated
  <2>6. CASE VoiceMutationEnds(o) \/ Fails(o) \/ Cycled(o) \/ Replanned(o)
    BY <2>1, <2>2, <2>6 DEF VoiceMutationEnds, Fails, Cycled, Replanned, GiveUp
  <2> QED
    BY <1>4, <2>3, <2>4, <2>5, <2>6
<1> QED
  BY <1>1, <1>2, <1>3, <1>4 DEF PageNext

-----------------------------------------------------------------------------
\* For any runs, number of handlers and views left: in one view two handlers
\* that change the run are never under way at once
\* (blockSameRunMutationIfBusy).
THEOREM OneMutationPerView == PageSpec => []MutationsExclude
<1>1. PageInv => MutationsExclude
  BY DEF PageInv
<1> QED
  BY <1>1, PageAlways, PTL

\* Every gate in flight, every flag and the busy label has a handler under way
\* that will let go of it, and gates and flags have no second one
\* (beginRunAction, finishRunAction, invalidateRunAction, clearBusyForRun).
THEOREM ControlsAreHeld == PageSpec => []ControlsHaveHolders
<1>1. PageInv => ControlsHaveHolders
  BY InvGivesHolders
<1> QED
  BY <1>1, PageAlways, PTL

\* What arrives for a view that was left changes neither what the page shows
\* nor a gate (isRunVersionCurrent, isRunVersionedActionCurrent).
THEOREM LeftViewsAreSilent == PageSpec => StaleStepsAreSilent
<1>1. PageInv /\ [PageNext]_pageVars
        => [\A o \in Ops : op[o].version # version /\ Live(o) /\ op'[o] # op[o]
              => UNCHANGED <<page, gate, owner>>]_pageVars
  BY OthersAreSilent
<1> QED
  BY <1>1, PageAlways, PTL DEF PageSpec, StaleStepsAreSilent

\* No answer takes the page from one run to another (refreshRun).
THEOREM ViewStays == PageSpec => ViewIsNotTakenOver
<1>1. PageInv /\ [PageNext]_pageVars
        => [page'.run # page.run => NoRun \in {page.run, page'.run}]_pageVars
  BY RunsComeFromEmptyViews
<1> QED
  BY <1>1, PageAlways, PTL DEF PageSpec, ViewIsNotTakenOver

\* A handler under way passes isRunVersionedActionCurrent exactly if it passes
\* isRunVersionCurrent: what else the page compares decides nothing.
THEOREM VersionsSuffice == PageSpec => [](\A o \in Ops : Live(o) => (Current(o) <=> OfThisView(o)))
<1>1. PageInv => \A o \in Ops : Live(o) => (Current(o) <=> OfThisView(o))
  BY HereAreCurrent DEF Here, Current
<1> QED
  BY <1>1, PageAlways, PTL

-----------------------------------------------------------------------------
(***************************************************************************)
(* The pass and its checks, for any callers, media types and number of     *)
(* artifacts.  What was wrong all through a check was wrong at each of its *)
(* reads, and each read has kept what it saw of it.                        *)
(***************************************************************************)

\* An audit goes through what it has listed.
AuditsInTurn ==
    \A c \in Callers : caller[c].at \in {"claims", "auditing"} => caller[c].todo \in 1..caller[c].seen

\* What each of the three reads of a check has found out about what was wrong
\* all the time: claims, artifacts, audits.
ReadsAreKept ==
    \A c \in Callers :
        /\ caller[c].at \in Checking => standing[c] \subseteq Faults
        /\ caller[c].at \in Checking \ {"readiness"} /\ caller[c].claims =>
             [kind |-> "claims", of |-> 0] \notin standing[c]
        /\ caller[c].at \in {"audits", "decide"} =>
             \A a \in DOMAIN artifacts : [kind |-> "artifact", of |-> a] \in standing[c] => a <= caller[c].seen
        /\ caller[c].at = "decide" =>
             \A a \in DOMAIN artifacts :
                 /\ [kind |-> "artifact", of |-> a] \in standing[c]
                 /\ artifacts[a].linked /\ artifacts[a].expert
                 => a \notin caller[c].audits

PassInv ==
    /\ PassTypeOK
    /\ AuditsInTurn
    /\ ReadsAreKept

-----------------------------------------------------------------------------
\* The artifacts stay, or one more is made, of those there are.
GrowsBy(x) ==
    /\ artifacts' = Append(artifacts, x)
    /\ x \in Artifact
    /\ x.parent <= Len(artifacts) /\ x.from \subseteq 1..Len(artifacts)

LEMMA GrownArtifacts ==
  ASSUME artifacts \in Seq(Artifact), NEW x, GrowsBy(x)
  PROVE  /\ artifacts' \in Seq(Artifact) /\ Len(artifacts') = Len(artifacts) + 1
         /\ \A a \in 1..Len(artifacts) : artifacts'[a] = artifacts[a]
         /\ artifacts'[Len(artifacts) + 1] = x
  BY DEF GrowsBy

LEMMA IdleType == IdleCaller \in CallerState
  BY DEF IdleCaller, CallerState

LEMMA DraftsAreListed ==
  ASSUME NEW n \in Nat, NEW types
  PROVE  LeavesAmong(types, n) \subseteq 1..n
  BY DEF LeavesAmong

\* What a plan is made of.
LEMMA PlanType ==
  ASSUME PassTypeOK, NEW t \in Media \cup {"package"}, NEW n \in 0..Len(artifacts)
  PROVE  LET x == Plan(t, Drafts(n))
         IN /\ x \in Artifact /\ x.parent <= Len(artifacts) /\ x.from \subseteq 1..Len(artifacts)
            /\ x.type = t /\ x.from = Drafts(n)
<1> DEFINE x == Plan(t, Drafts(n))
<1>1. Drafts(n) \subseteq 1..n /\ Len(artifacts) \in Nat
  BY DraftsAreListed DEF Drafts, PassTypeOK
<1>2. Linked(Drafts(n)) \in BOOLEAN
  BY DEF Linked
<1>3. Drafts(n) \in SUBSET Nat /\ 0 \in Nat /\ t \in Media \cup {"draft", "package"}
  BY <1>1
<1>4. x = [type |-> t, from |-> Drafts(n), parent |-> 0, linked |-> Linked(Drafts(n)),
           expert |-> t # "package"]
  BY DEF Plan
<1>5. x \in Artifact
  BY <1>2, <1>3, <1>4 DEF Artifact
<1> QED
  BY <1>1, <1>4, <1>5

\* No step takes an artifact away or changes it.
LEMMA OnlyGrows ==
  ASSUME PassTypeOK, PassNext
  PROVE  UNCHANGED artifacts \/ \E x : GrowsBy(x)
<1> Len(artifacts) \in Nat /\ artifacts \in Seq(Artifact)
  BY DEF PassTypeOK
<1>1. CASE \E c \in Passers : MakeMedia(c)
  <2>1. PICK c \in Passers, i \in DOMAIN MediaTypes :
           artifacts' = Append(artifacts, Plan(MediaTypes[i], Drafts(caller[c].seen)))
    BY <1>1 DEF MakeMedia
  <2>2. MediaTypes[i] \in Media /\ caller[c].seen \in 0..Len(artifacts)
    BY DEF Media, PassTypeOK, Callers
  <2> QED
    BY <2>1, <2>2, PlanType DEF GrowsBy
<1>2. CASE \E c \in Passers : Bundle(c)
  <2>1. PICK c \in Passers : artifacts' = Append(artifacts, Plan("package", Drafts(caller[c].seen)))
    BY <1>2 DEF Bundle
  <2>2. caller[c].seen \in 0..Len(artifacts)
    BY DEF PassTypeOK, Callers
  <2> QED
    BY <2>1, <2>2, PlanType DEF GrowsBy
<1>3. CASE Draft
  <2>1. PICK parent \in {0} \cup Drafts(Len(artifacts)) :
           artifacts' = Append(artifacts, [type |-> "draft", from |-> {}, parent |-> parent,
                                           linked |-> TRUE, expert |-> TRUE])
    BY <1>3 DEF Draft
  <2>2. parent \in 0..Len(artifacts)
    BY DraftsAreListed DEF Drafts
  <2> DEFINE x == [type |-> "draft", from |-> {}, parent |-> parent, linked |-> TRUE, expert |-> TRUE]
  <2>3. x \in Artifact /\ x.parent = parent /\ x.from = {}
    BY <2>2 DEF Artifact
  <2> QED
    BY <2>1, <2>2, <2>3 DEF GrowsBy
<1>4. CASE Revise
  <2>1. PICK a \in Publishable(Len(artifacts)), byModel \in BOOLEAN :
           artifacts' = Append(artifacts,
             [type |-> artifacts[a].type, from |-> {}, parent |-> a,
              linked |-> artifacts[a].linked /\ ~byModel /\ artifacts[a].type \notin Media,
              expert |-> byModel \/ artifacts[a].type \in Media])
    BY <1>4 DEF Revise
  <2>2. a \in 1..Len(artifacts)
    BY DraftsAreListed DEF Publishable
  <2>3. artifacts[a] \in Artifact
    BY <2>2
  <2> DEFINE l == artifacts[a].linked /\ ~byModel /\ artifacts[a].type \notin Media
             e == byModel \/ artifacts[a].type \in Media
             x == [type |-> artifacts[a].type, from |-> {}, parent |-> a, linked |-> l, expert |-> e]
  <2>4. l \in BOOLEAN /\ e \in BOOLEAN /\ a \in Nat
    BY <2>2
  <2>5. artifacts' = Append(artifacts, x)
    BY <2>1
  <2> HIDE DEF l, e
  <2>6. x \in Artifact /\ x.parent = a /\ x.from = {}
    BY <2>3, <2>4 DEF Artifact
  <2> QED
    BY <2>2, <2>5, <2>6 DEF GrowsBy
<1> QED
  BY <1>1, <1>2, <1>3, <1>4
  DEF PassNext, PassStep, CheckStep, BeginPass, ReadOpenFeedback, CheckEvidence, SelectMedia,
      SelectPackage, CallAudit, CallReadiness, ListAuditable, ReadClaims, RecordAudit, ReadSupport,
      ListPublishable, ReadAudits, Decide, OpenReadinessGate, Die, VerifyClaims, AnswerFeedback

\* What was listed before is still what it was.
LEMMA ListedStays ==
  ASSUME PassTypeOK, PassNext, NEW n \in 0..Len(artifacts)
  PROVE  /\ artifacts' \in Seq(Artifact) /\ Len(artifacts) <= Len(artifacts')
         /\ n \in 0..Len(artifacts')
         /\ \A a \in 1..Len(artifacts) : artifacts'[a] = artifacts[a]
         /\ \A types : LeavesAmong(types, n)' = LeavesAmong(types, n)
<1>1. /\ artifacts' \in Seq(Artifact) /\ Len(artifacts) <= Len(artifacts')
      /\ \A a \in 1..Len(artifacts) : artifacts'[a] = artifacts[a]
  BY OnlyGrows, GrownArtifacts DEF PassTypeOK
<1>2. Len(artifacts) \in Nat /\ Len(artifacts') \in Nat
  BY <1>1 DEF PassTypeOK
<1>3. \A a \in 1..n : artifacts'[a] = artifacts[a]
  BY <1>1, <1>2
<1>4. \A types : LeavesAmong(types, n)' = LeavesAmong(types, n)
  BY <1>3 DEF LeavesAmong
<1> QED
  BY <1>1, <1>2, <1>4

-----------------------------------------------------------------------------
\* Where a step takes a caller, and by which steps it comes to what it has read
\* or is about to make.
MovesTo(c, s) ==
    /\ caller' = [caller EXCEPT ![c] = s]
    /\ s \in CallerState
    /\ s.seen \in 0..Len(artifacts) /\ s.audits \subseteq DOMAIN artifacts
    /\ s.at \in {"claims", "auditing"} => s.todo \in 1..s.seen
    /\ s.at \in {"listing", "audits", "decide"} =>
         ReadSupport(c) \/ ListPublishable(c) \/ ReadAudits(c)
    /\ s.at \in Passing => c \in Passers
    /\ s.at = "make" => SelectMedia(c) \/ MakeMedia(c)
    /\ s.at = "bundle" => SelectPackage(c)

\* A caller that stays what it is but for its label.
LEMMA GotoMoves ==
  ASSUME PassTypeOK, NEW c \in Callers, NEW label \in {"audit", "package", "media"}, Goto(c, label),
         label \in Passing => c \in Passers
  PROVE  \E s : MovesTo(c, s)
<1> DEFINE s == [caller[c] EXCEPT !.at = label]
<1>1. caller[c] \in CallerState /\ caller[c].seen \in 0..Len(artifacts)
      /\ caller[c].audits \subseteq DOMAIN artifacts
  BY DEF PassTypeOK
<1>2. s \in CallerState /\ s.at = label /\ s.seen = caller[c].seen /\ s.audits = caller[c].audits
  BY <1>1 DEF CallerState, Passing
<1>3. caller' = [caller EXCEPT ![c] = s]
  BY DEF Goto
<1> HIDE DEF s
<1>4. MovesTo(c, s)
  BY <1>1, <1>2, <1>3 DEF MovesTo
<1> QED
  BY <1>4

\* A caller that begins anew at some label, or is done.
Anew(label, job) == [IdleCaller EXCEPT !.at = label, !.job = job]

LEMMA AnewType ==
  ASSUME NEW label \in {"idle", "feedback", "package", "audit", "readiness", "gate"},
         NEW job \in {"none", "pass", "audit", "readiness"}
  PROVE  /\ Anew(label, job) \in CallerState /\ Anew(label, job).at = label
         /\ Anew(label, job).seen = 0 /\ Anew(label, job).audits = {}
  BY DEF Anew, CallerState, IdleCaller, Passing, Checking

LEMMA IdleIsAnew == IdleCaller = Anew("idle", "none")
<1> DEFINE x == [IdleCaller EXCEPT !.at = "idle"]
<1>1. x = IdleCaller
  BY DEF IdleCaller
<1>2. [x EXCEPT !.job = "none"] = x
  BY <1>1 DEF IdleCaller
<1>3. Anew("idle", "none") = [x EXCEPT !.job = "none"]
  BY DEF Anew
<1> QED
  BY <1>1, <1>2, <1>3

LEMMA AnewMoves ==
  ASSUME PassTypeOK, NEW c \in Callers,
         NEW label \in {"idle", "feedback", "package", "audit", "readiness", "gate"},
         NEW job \in {"none", "pass", "audit", "readiness"},
         caller' = [caller EXCEPT ![c] = Anew(label, job)],
         label \in Passing => c \in Passers
  PROVE  \E s : MovesTo(c, s)
<1> DEFINE s == Anew(label, job)
<1>1. s \in CallerState /\ s.at = label /\ s.seen = 0 /\ s.audits = {}
  BY AnewType
<1>2. Len(artifacts) \in Nat
  BY DEF PassTypeOK
<1>3. caller' = [caller EXCEPT ![c] = s]
  OBVIOUS
<1> HIDE DEF s
<1>4. s.seen \in 0..Len(artifacts) /\ s.audits \subseteq DOMAIN artifacts
  BY <1>1, <1>2
<1>5. s.at \notin {"claims", "auditing", "listing", "audits", "decide", "make", "bundle"}
  BY <1>1
<1>6. MovesTo(c, s)
  BY <1>1, <1>3, <1>4, <1>5 DEF MovesTo
<1> QED
  BY <1>6

LEMMA PassStepMoves ==
  ASSUME PassTypeOK, NEW c \in Passers, PassStep(c)
  PROVE  \E s : MovesTo(c, s)
<1> c \in Callers
  BY DEF Callers
<1>1. caller[c] \in CallerState /\ caller[c].seen \in 0..Len(artifacts)
      /\ caller[c].audits \subseteq DOMAIN artifacts /\ Len(artifacts) \in Nat
  BY DEF PassTypeOK
<1>2. IdleCaller = Anew("idle", "none")
  BY IdleIsAnew
<1>3. CASE BeginPass(c)
  BY <1>3, AnewMoves DEF BeginPass, Anew
<1>4. CASE ReadOpenFeedback(c)
  <2>1. CASE \E s \in Slots : items[s] = "open"
    BY <1>2, <1>4, <2>1, AnewMoves DEF ReadOpenFeedback, Passing
  <2>2. CASE ~\E s \in Slots : items[s] = "open"
    <3> DEFINE s == [caller[c] EXCEPT !.at = "evidence"]
    <3>1. s \in CallerState /\ s.at = "evidence" /\ s.seen = caller[c].seen
          /\ s.audits = caller[c].audits
      BY <1>1 DEF CallerState, Passing
    <3>2. caller' = [caller EXCEPT ![c] = s]
      BY <1>4, <2>2 DEF ReadOpenFeedback
    <3> HIDE DEF s
    <3>3. MovesTo(c, s)
      BY <1>1, <3>1, <3>2 DEF MovesTo
    <3> QED
      BY <3>3
  <2> QED
    BY <2>1, <2>2
<1>5. CASE CheckEvidence(c)
  BY <1>2, <1>5, AnewMoves, GotoMoves DEF CheckEvidence, Passing
<1>6. CASE SelectMedia(c)
  <2>1. CASE Goto(c, "package")
    BY <2>1, GotoMoves
  <2>2. CASE caller' = [caller EXCEPT ![c].at = "make", ![c].seen = Len(artifacts),
                                      ![c].plans = MissingMedia(Len(artifacts))]
    <3> DEFINE s == [caller[c] EXCEPT !.at = "make", !.seen = Len(artifacts),
                                      !.plans = MissingMedia(Len(artifacts))]
    <3>1. MissingMedia(Len(artifacts)) \subseteq Media
      BY DEF MissingMedia
    <3>2. s \in CallerState /\ s.at = "make" /\ s.seen = Len(artifacts)
          /\ s.audits = caller[c].audits
      BY <1>1, <3>1 DEF CallerState, Passing
    <3>3. caller' = [caller EXCEPT ![c] = s]
      BY <2>2
    <3> HIDE DEF s
    <3>4. MovesTo(c, s)
      BY <1>1, <1>6, <3>2, <3>3 DEF MovesTo
    <3> QED
      BY <3>4
  <2> QED
    BY <1>6, <2>1, <2>2 DEF SelectMedia
<1>7. CASE MakeMedia(c)
  <2>1. PICK i \in DOMAIN MediaTypes :
          caller' = [caller EXCEPT ![c] =
                       IF caller[c].plans \ {MediaTypes[i]} = {}
                       THEN [IdleCaller EXCEPT !.at = "package", !.job = "pass"]
                       ELSE [caller[c] EXCEPT !.plans = caller[c].plans \ {MediaTypes[i]}]]
    BY <1>7 DEF MakeMedia
  <2> DEFINE left == caller[c].plans \ {MediaTypes[i]}
             s == [caller[c] EXCEPT !.plans = left]
  <2>2. CASE left = {}
    BY <2>1, <2>2, AnewMoves DEF Anew
  <2>3. CASE left # {}
    <3>1. s \in CallerState /\ s.at = "make" /\ s.seen = caller[c].seen
          /\ s.audits = caller[c].audits
      BY <1>1, <1>7 DEF CallerState, MakeMedia
    <3>2. caller' = [caller EXCEPT ![c] = s]
      BY <2>1, <2>3
    <3> HIDE DEF s
    <3>3. MovesTo(c, s)
      BY <1>1, <1>7, <3>1, <3>2 DEF MovesTo
    <3> QED
      BY <3>3
  <2> QED
    BY <2>2, <2>3
<1>8. CASE SelectPackage(c)
  <2>1. CASE Goto(c, "audit")
    BY <2>1, GotoMoves DEF Passing
  <2>2. CASE caller' = [caller EXCEPT ![c].at = "bundle", ![c].seen = Len(artifacts)]
    <3> DEFINE s == [caller[c] EXCEPT !.at = "bundle", !.seen = Len(artifacts)]
    <3>1. s \in CallerState /\ s.at = "bundle" /\ s.seen = Len(artifacts)
          /\ s.audits = caller[c].audits
      BY <1>1 DEF CallerState, Passing
    <3>2. caller' = [caller EXCEPT ![c] = s]
      BY <2>2
    <3> HIDE DEF s
    <3>3. MovesTo(c, s)
      BY <1>1, <1>8, <3>1, <3>2 DEF MovesTo
    <3> QED
      BY <3>3
  <2> QED
    BY <1>8, <2>1, <2>2 DEF SelectPackage
<1>9. CASE Bundle(c)
  <2> DEFINE s == [caller[c] EXCEPT !.at = "audit", !.seen = 0]
  <2>1. s \in CallerState /\ s.at = "audit" /\ s.seen = 0 /\ s.audits = caller[c].audits
    BY <1>1 DEF CallerState
  <2>2. caller' = [caller EXCEPT ![c] = s]
    BY <1>9 DEF Bundle
  <2> HIDE DEF s
  <2>3. MovesTo(c, s)
    BY <1>1, <2>1, <2>2 DEF MovesTo, Passing
  <2> QED
    BY <2>3
<1> QED
  BY <1>3, <1>4, <1>5, <1>6, <1>7, <1>8, <1>9 DEF PassStep

LEMMA AfterAuditMoves ==
  ASSUME PassTypeOK, NEW c \in Callers, caller' = [caller EXCEPT ![c] = AfterAudit(c)]
  PROVE  \E s : MovesTo(c, s)
<1> DEFINE label == IF caller[c].job = "pass" THEN "readiness" ELSE "idle"
           job == IF caller[c].job = "pass" THEN "pass" ELSE "none"
<1>1. AfterAudit(c) = Anew(label, job)
  BY DEF AfterAudit, Anew
<1>2. label \in {"readiness", "idle"} /\ job \in {"pass", "none"}
  OBVIOUS
<1> HIDE DEF label, job
<1> QED
  BY <1>1, <1>2, AnewMoves DEF Passing

LEMMA CheckStepMoves ==
  ASSUME PassTypeOK, AuditsInTurn, NEW c \in Callers,
         CheckStep(c) \/ CallAudit(c) \/ CallReadiness(c)
  PROVE  \E s : MovesTo(c, s)
<1>1. caller[c] \in CallerState /\ caller[c].seen \in 0..Len(artifacts)
      /\ caller[c].audits \subseteq DOMAIN artifacts
      /\ Len(artifacts) \in Nat /\ artifacts \in Seq(Artifact)
  BY DEF PassTypeOK
<1>2. IdleCaller = Anew("idle", "none")
  BY IdleIsAnew
<1>3. CASE CallAudit(c) \/ CallReadiness(c)
  <2>1. PICK label \in {"audit", "readiness"} :
           caller' = [caller EXCEPT ![c].at = label, ![c].job = label]
    BY <1>3 DEF CallAudit, CallReadiness
  <2> DEFINE s == [caller[c] EXCEPT !.at = label, !.job = label]
  <2>2. s \in CallerState /\ s.at = label /\ s.seen = caller[c].seen /\ s.audits = caller[c].audits
    BY <1>1 DEF CallerState, Checking
  <2>3. caller' = [caller EXCEPT ![c] = s]
    BY <2>1
  <2> HIDE DEF s
  <2>4. MovesTo(c, s)
    BY <1>1, <2>2, <2>3 DEF MovesTo, Passing
  <2> QED
    BY <2>4
<1>4. CASE ListAuditable(c)
  <2>1. CASE artifacts = <<>>
    BY <1>4, <2>1, AfterAuditMoves DEF ListAuditable
  <2>2. CASE artifacts # <<>>
    <3> DEFINE s == [caller[c] EXCEPT !.at = "claims", !.seen = Len(artifacts), !.todo = 1]
    <3>1. Len(artifacts) >= 1
      BY <1>1, <2>2
    <3>2. s \in CallerState /\ s.at = "claims" /\ s.seen = Len(artifacts) /\ s.todo = 1
          /\ s.audits = caller[c].audits
      BY <1>1 DEF CallerState
    <3>3. caller' = [caller EXCEPT ![c] = s]
      BY <1>4, <2>2 DEF ListAuditable
    <3> HIDE DEF s
    <3>4. MovesTo(c, s)
      BY <1>1, <3>1, <3>2, <3>3 DEF MovesTo, Passing
    <3> QED
      BY <3>4
  <2> QED
    BY <2>1, <2>2
<1>5. CASE ReadClaims(c)
  <2> DEFINE s == [caller[c] EXCEPT !.at = "auditing", !.claims = supported]
  <2>1. s \in CallerState /\ s.at = "auditing" /\ s.seen = caller[c].seen
        /\ s.todo = caller[c].todo /\ s.audits = caller[c].audits
    BY <1>1 DEF CallerState, PassTypeOK
  <2>2. caller' = [caller EXCEPT ![c] = s]
    BY <1>5 DEF ReadClaims
  <2>3. caller[c].todo \in 1..caller[c].seen
    BY <1>5 DEF ReadClaims, AuditsInTurn
  <2> HIDE DEF s
  <2>4. MovesTo(c, s)
    BY <1>1, <2>1, <2>2, <2>3 DEF MovesTo, Passing
  <2> QED
    BY <2>4
<1>6. CASE RecordAudit(c)
  <2>1. CASE caller[c].todo = caller[c].seen
    BY <1>6, <2>1, AfterAuditMoves DEF RecordAudit
  <2>2. CASE caller[c].todo # caller[c].seen
    <3> DEFINE s == [caller[c] EXCEPT !.todo = caller[c].todo + 1]
    <3>1. caller[c].todo \in 1..caller[c].seen
      BY <1>6 DEF RecordAudit, AuditsInTurn
    <3>2. s \in CallerState /\ s.at = "auditing" /\ s.seen = caller[c].seen
          /\ s.todo = caller[c].todo + 1 /\ s.audits = caller[c].audits
      BY <1>1, <1>6 DEF CallerState, RecordAudit
    <3>3. caller' = [caller EXCEPT ![c] = s]
      BY <1>6, <2>2 DEF RecordAudit
    <3>4. caller[c].todo + 1 \in 1..caller[c].seen
      BY <1>1, <2>2, <3>1
    <3> HIDE DEF s
    <3>5. MovesTo(c, s)
      BY <1>1, <3>2, <3>3, <3>4 DEF MovesTo, Passing
    <3> QED
      BY <3>5
  <2> QED
    BY <2>1, <2>2
<1>7. CASE ReadSupport(c)
  <2> DEFINE s == [caller[c] EXCEPT !.at = "listing", !.claims = supported]
  <2>1. s \in CallerState /\ s.at = "listing" /\ s.seen = caller[c].seen /\ s.audits = caller[c].audits
    BY <1>1 DEF CallerState, PassTypeOK, Checking
  <2>2. caller' = [caller EXCEPT ![c] = s]
    BY <1>7 DEF ReadSupport
  <2> HIDE DEF s
  <2>3. MovesTo(c, s)
    BY <1>1, <1>7, <2>1, <2>2 DEF MovesTo, Passing
  <2> QED
    BY <2>3
<1>8. CASE ListPublishable(c)
  <2> DEFINE s == [caller[c] EXCEPT !.at = "audits", !.seen = Len(artifacts)]
  <2>1. s \in CallerState /\ s.at = "audits" /\ s.seen = Len(artifacts) /\ s.audits = caller[c].audits
    BY <1>1 DEF CallerState, Checking
  <2>2. caller' = [caller EXCEPT ![c] = s]
    BY <1>8 DEF ListPublishable
  <2> HIDE DEF s
  <2>3. MovesTo(c, s)
    BY <1>1, <1>8, <2>1, <2>2 DEF MovesTo, Passing
  <2> QED
    BY <2>3
<1>9. CASE ReadAudits(c)
  <2> DEFINE s == [caller[c] EXCEPT !.at = "decide", !.audits = approved]
  <2>0. approved \subseteq DOMAIN artifacts /\ approved \in SUBSET Nat
    BY <1>1 DEF PassTypeOK
  <2>1. s \in CallerState /\ s.at = "decide" /\ s.seen = caller[c].seen /\ s.audits = approved
    BY <1>1, <2>0 DEF CallerState, Checking
  <2>2. caller' = [caller EXCEPT ![c] = s]
    BY <1>9 DEF ReadAudits
  <2> HIDE DEF s
  <2>3. MovesTo(c, s)
    BY <1>1, <1>9, <2>0, <2>1, <2>2 DEF MovesTo, Passing
  <2> QED
    BY <2>3
<1>10. CASE Decide(c)
  <2>1. caller[c].job \in {"none", "pass", "audit", "readiness"}
    BY <1>1 DEF CallerState
  <2> QED
    BY <1>2, <1>10, <2>1, AnewMoves DEF Decide, Passing, Anew
<1>11. CASE OpenReadinessGate(c) \/ Die(c)
  BY <1>2, <1>11, AnewMoves DEF OpenReadinessGate, Die, Passing
<1> QED
  BY <1>3, <1>4, <1>5, <1>6, <1>7, <1>8, <1>9, <1>10, <1>11 DEF CheckStep

LEMMA CallersMove ==
  ASSUME PassTypeOK, AuditsInTurn, PassNext
  PROVE  UNCHANGED caller \/ \E c \in Callers : \E s : MovesTo(c, s)
<1>1. ASSUME NEW c \in Passers, PassStep(c) PROVE \E d \in Callers : \E s : MovesTo(d, s)
  BY <1>1, PassStepMoves DEF Callers
<1>2. ASSUME NEW c \in Checkers, CallAudit(c) \/ CallReadiness(c)
      PROVE  \E d \in Callers : \E s : MovesTo(d, s)
  BY <1>2, CheckStepMoves DEF Callers
<1>3. ASSUME NEW c \in Callers, CheckStep(c) PROVE \E d \in Callers : \E s : MovesTo(d, s)
  BY <1>3, CheckStepMoves
<1> QED
  BY <1>1, <1>2, <1>3 DEF PassNext, Draft, Revise, VerifyClaims, AnswerFeedback

-----------------------------------------------------------------------------
LEMMA InitPass == PassInit => PassInv
<1> SUFFICES ASSUME PassInit PROVE PassInv
  OBVIOUS
<1>1. /\ artifacts = <<>> /\ approved = {} /\ supported \in BOOLEAN
      /\ items = [s \in Slots |-> "none"]
  BY DEF PassInit
<1>2. caller \in [Callers -> CallerState] /\ \A c \in Callers : caller[c] = IdleCaller
  BY IdleType DEF PassInit
<1>3. IdleCaller.at = "idle" /\ IdleCaller.seen = 0 /\ IdleCaller.audits = {}
  BY DEF IdleCaller
<1>4. artifacts \in Seq(Artifact) /\ Len(artifacts) = 0 /\ DOMAIN artifacts = {}
  BY <1>1
<1>5. PassTypeOK
  BY <1>1, <1>2, <1>3, <1>4 DEF PassTypeOK
<1>6. AuditsInTurn /\ ReadsAreKept
  BY <1>2, <1>3 DEF AuditsInTurn, ReadsAreKept, Checking
<1> QED
  BY <1>5, <1>6 DEF PassInv

LEMMA CallersKeep ==
  ASSUME PassTypeOK, AuditsInTurn, PassNext
  PROVE  /\ caller' \in [Callers -> CallerState]
         /\ \A c \in Callers : /\ caller'[c].seen \in 0..Len(artifacts')
                               /\ caller'[c].audits \subseteq DOMAIN artifacts'
         /\ AuditsInTurn'
<1>1. /\ artifacts' \in Seq(Artifact) /\ Len(artifacts) <= Len(artifacts')
      /\ Len(artifacts) \in Nat /\ Len(artifacts') \in Nat /\ artifacts \in Seq(Artifact)
  <2>1. 0 \in 0..Len(artifacts) /\ Len(artifacts) \in Nat /\ artifacts \in Seq(Artifact)
    BY DEF PassTypeOK
  <2> QED
    BY <2>1, ListedStays
<1>2. 0..Len(artifacts) \subseteq 0..Len(artifacts') /\ DOMAIN artifacts \subseteq DOMAIN artifacts'
  BY <1>1
<1>3. CASE UNCHANGED caller
  BY <1>2, <1>3 DEF PassTypeOK, AuditsInTurn
<1>4. ASSUME NEW c \in Callers, NEW s, MovesTo(c, s)
      PROVE  /\ caller' \in [Callers -> CallerState]
             /\ \A d \in Callers : /\ caller'[d].seen \in 0..Len(artifacts')
                                   /\ caller'[d].audits \subseteq DOMAIN artifacts'
             /\ AuditsInTurn'
  <2>1. /\ caller' \in [Callers -> CallerState] /\ caller'[c] = s
        /\ \A d \in Callers : d # c => caller'[d] = caller[d]
    BY <1>4 DEF MovesTo, PassTypeOK
  <2> QED
    BY <1>2, <1>4, <2>1 DEF MovesTo, PassTypeOK, AuditsInTurn
<1> QED
  BY <1>3, <1>4, CallersMove

LEMMA PassTypeKeeps ==
  ASSUME PassTypeOK, AuditsInTurn, PassNext
  PROVE  PassTypeOK' /\ AuditsInTurn'
<1>1. Len(artifacts) \in Nat /\ artifacts \in Seq(Artifact) /\ 0 \in 0..Len(artifacts)
  BY DEF PassTypeOK
<1>2. /\ artifacts' \in Seq(Artifact) /\ Len(artifacts) <= Len(artifacts')
      /\ \A a \in 1..Len(artifacts) : artifacts'[a] = artifacts[a]
  BY <1>1, ListedStays
<1>3. DOMAIN artifacts \subseteq DOMAIN artifacts'
  BY <1>1, <1>2
<1>4. \A a \in DOMAIN artifacts' :
        artifacts'[a].parent < a /\ artifacts'[a].from \subseteq 1..(a - 1)
  <2>1. CASE UNCHANGED artifacts
    BY <2>1 DEF PassTypeOK
  <2>2. ASSUME NEW x, GrowsBy(x)
        PROVE  \A a \in DOMAIN artifacts' :
                 artifacts'[a].parent < a /\ artifacts'[a].from \subseteq 1..(a - 1)
    <3> TAKE a \in DOMAIN artifacts'
    <3>1. Len(artifacts') = Len(artifacts) + 1 /\ artifacts'[Len(artifacts) + 1] = x
          /\ x.parent \in Nat
      BY <1>1, <2>2, GrownArtifacts DEF GrowsBy, Artifact
    <3>2. CASE a = Len(artifacts) + 1
      BY <1>1, <2>2, <3>1, <3>2 DEF GrowsBy
    <3>3. CASE a # Len(artifacts) + 1
      <4>1. a \in 1..Len(artifacts) /\ a \in DOMAIN artifacts
        BY <1>1, <1>2, <3>1, <3>3
      <4> QED
        BY <1>2, <4>1 DEF PassTypeOK
    <3> QED
      BY <3>2, <3>3
  <2> QED
    BY <2>1, <2>2, OnlyGrows
<1>5. approved' \subseteq DOMAIN artifacts'
  <2>1. CASE \E c \in Callers : RecordAudit(c)
    <3>1. PICK c \in Callers : RecordAudit(c)
      BY <2>1
    <3>2. caller[c].todo \in 1..caller[c].seen /\ caller[c].seen \in 0..Len(artifacts)
      BY <3>1 DEF RecordAudit, AuditsInTurn, PassTypeOK
    <3>3. caller[c].todo \in DOMAIN artifacts
      BY <1>1, <3>2
    <3> QED
      BY <1>3, <3>1, <3>3 DEF RecordAudit, PassTypeOK
  <2>2. CASE UNCHANGED approved
    BY <1>3, <2>2 DEF PassTypeOK
  <2> QED
    BY <2>1, <2>2
    DEF PassNext, PassStep, CheckStep, BeginPass, ReadOpenFeedback, CheckEvidence, SelectMedia,
        MakeMedia, SelectPackage, Bundle, CallAudit, CallReadiness, ListAuditable, ReadClaims,
        ReadSupport, ListPublishable, ReadAudits, Decide, OpenReadinessGate, Die,
        Draft, Revise, VerifyClaims, AnswerFeedback
<1>6. supported' \in BOOLEAN
  BY DEF PassTypeOK, PassNext, PassStep, CheckStep, BeginPass, ReadOpenFeedback, CheckEvidence,
     SelectMedia, MakeMedia, SelectPackage, Bundle, CallAudit, CallReadiness, ListAuditable,
     ReadClaims, RecordAudit, ReadSupport, ListPublishable, ReadAudits, Decide,
     OpenReadinessGate, Die, Draft, Revise, VerifyClaims, AnswerFeedback
<1>7. items' \in [Slots -> {"none", "open", "routed"}]
  BY DEF PassTypeOK, PassNext, PassStep, CheckStep, BeginPass, ReadOpenFeedback, CheckEvidence,
     SelectMedia, MakeMedia, SelectPackage, Bundle, CallAudit, CallReadiness, ListAuditable,
     ReadClaims, RecordAudit, ReadSupport, ListPublishable, ReadAudits, Decide,
     OpenReadinessGate, Die, Draft, Revise, VerifyClaims, AnswerFeedback
<1> QED
  BY <1>2, <1>4, <1>5, <1>6, <1>7, CallersKeep DEF PassTypeOK

-----------------------------------------------------------------------------
\* What is watched is wrong now, and was wrong before unless the check has only
\* begun.
LEMMA WatchedAreFaults ==
  ASSUME WatchFaults, NEW c \in Callers, caller'[c].at \in Checking
  PROVE  /\ standing'[c] \subseteq Faults'
         /\ caller[c].at \in Checking => standing'[c] \subseteq standing[c]
  BY DEF WatchFaults

\* What is wrong with an artifact.
LEMMA FaultyArtifacts ==
  ASSUME PassTypeOK, NEW a, [kind |-> "artifact", of |-> a] \in Faults
  PROVE  /\ a \in DOMAIN artifacts /\ a \in 1..Len(artifacts)
         /\ a \in Publishable(Len(artifacts))
         /\ ~(artifacts[a].linked /\ artifacts[a].expert /\ a \in approved)
<1>1. a \in {b \in Publishable(Len(artifacts)) :
                ~(artifacts[b].linked /\ artifacts[b].expert /\ b \in approved)}
  <2>1. [kind |-> "artifact", of |-> a].kind = "artifact"
    OBVIOUS
  <2>2. \A s : [kind |-> "item", of |-> s].kind = "item"
    OBVIOUS
  <2>3. [kind |-> "claims", of |-> 0].kind = "claims"
    OBVIOUS
  <2>4. \E b \in {b \in Publishable(Len(artifacts)) :
                ~(artifacts[b].linked /\ artifacts[b].expert /\ b \in approved)} :
          [kind |-> "artifact", of |-> a] = [kind |-> "artifact", of |-> b]
    BY <2>1, <2>2, <2>3 DEF Faults
  <2> QED
    BY <2>4
<1>2. Len(artifacts) \in Nat
  BY DEF PassTypeOK
<1>3. a \in 1..Len(artifacts)
  BY <1>1, <1>2, DraftsAreListed DEF Publishable
<1> QED
  BY <1>1, <1>3 DEF PassTypeOK

LEMMA FaultyClaims == [kind |-> "claims", of |-> 0] \in Faults => ~supported
<1>1. \A s : [kind |-> "item", of |-> s].kind = "item"
  OBVIOUS
<1>2. \A a : [kind |-> "artifact", of |-> a].kind = "artifact"
  OBVIOUS
<1>3. [kind |-> "claims", of |-> 0].kind = "claims"
  OBVIOUS
<1> QED
  BY <1>1, <1>2, <1>3 DEF Faults

\* The same of the next state.
LEMMA FaultyNext ==
  ASSUME PassTypeOK'
  PROVE  /\ [kind |-> "claims", of |-> 0] \in Faults' => ~supported'
         /\ \A a : [kind |-> "artifact", of |-> a] \in Faults' =>
              ~(artifacts'[a].linked /\ artifacts'[a].expert /\ a \in approved')
<1>1. \A s : [kind |-> "item", of |-> s].kind = "item"
  OBVIOUS
<1>2. \A a : [kind |-> "artifact", of |-> a].kind = "artifact"
  OBVIOUS
<1>3. [kind |-> "claims", of |-> 0].kind = "claims"
  OBVIOUS
<1>4. [kind |-> "claims", of |-> 0] \in Faults' => ~supported'
  BY <1>1, <1>2, <1>3 DEF Faults
<1>5. ASSUME NEW a, [kind |-> "artifact", of |-> a] \in Faults'
      PROVE  ~(artifacts'[a].linked /\ artifacts'[a].expert /\ a \in approved')
  <2>1. \E b \in {b \in Publishable(Len(artifacts))' :
                ~(artifacts'[b].linked /\ artifacts'[b].expert /\ b \in approved')} :
          [kind |-> "artifact", of |-> a] = [kind |-> "artifact", of |-> b]
    BY <1>1, <1>2, <1>3, <1>5 DEF Faults
  <2> QED
    BY <2>1
<1> QED
  BY <1>4, <1>5

LEMMA ReadsKeep ==
  ASSUME PassInv, PassNext
  PROVE  ReadsAreKept'
<1> USE DEF PassInv
<1>1. PassTypeOK' /\ WatchFaults
  BY PassTypeKeeps DEF PassNext
<1>2. Len(artifacts) \in Nat /\ artifacts \in Seq(Artifact) /\ 0 \in 0..Len(artifacts)
  BY DEF PassTypeOK
<1>3. \A a \in 1..Len(artifacts) : artifacts'[a] = artifacts[a]
  BY <1>2, ListedStays
<1> DEFINE A(a) == [kind |-> "artifact", of |-> a]
           K == [kind |-> "claims", of |-> 0]
<1> SUFFICES ASSUME NEW c \in Callers, caller'[c].at \in Checking
             PROVE  /\ standing'[c] \subseteq Faults'
                    /\ caller'[c].at \in Checking \ {"readiness"} /\ caller'[c].claims =>
                         K \notin standing'[c]
                    /\ caller'[c].at \in {"audits", "decide"} =>
                         \A a \in DOMAIN artifacts' : A(a) \in standing'[c] => a <= caller'[c].seen
                    /\ caller'[c].at = "decide" =>
                         \A a \in DOMAIN artifacts' :
                             /\ A(a) \in standing'[c]
                             /\ artifacts'[a].linked /\ artifacts'[a].expert
                             => a \notin caller'[c].audits
  BY DEF ReadsAreKept, Checking
<1>4. /\ standing'[c] \subseteq Faults'
      /\ caller[c].at \in Checking => standing'[c] \subseteq standing[c]
  BY <1>1, WatchedAreFaults
<1>5. ASSUME caller[c].at \in Checking, NEW a, A(a) \in standing'[c]
      PROVE  a \in DOMAIN artifacts /\ artifacts'[a] = artifacts[a]
  <2>1. A(a) \in Faults
    BY <1>4, <1>5 DEF ReadsAreKept
  <2> HIDE DEF A
  <2>2. a \in DOMAIN artifacts /\ a \in 1..Len(artifacts)
    BY <2>1, FaultyArtifacts DEF A
  <2> QED
    BY <1>3, <2>2
<1>6. CASE caller'[c] = caller[c]
  <2> HIDE DEF A, K
  <2>1. caller[c].at \in Checking
    BY <1>6
  <2>2. \A a : A(a) \in standing'[c] =>
          A(a) \in standing[c] /\ a \in DOMAIN artifacts /\ artifacts'[a] = artifacts[a]
    BY <1>4, <1>5, <2>1
  <2> QED
    BY <1>4, <1>6, <2>1, <2>2 DEF ReadsAreKept, A, K
<1>7. CASE caller'[c].at = "readiness"
  BY <1>4, <1>7
<1>8. CASE ReadSupport(c)
  <2>1. caller'[c].at = "listing" /\ caller'[c].claims = supported /\ UNCHANGED supported
    BY <1>8 DEF ReadSupport, PassTypeOK, CallerState
  <2> HIDE DEF A, K
  <2>2. caller'[c].claims => K \notin Faults'
    <3>1. K \in Faults' => ~supported'
      BY <1>1, FaultyNext DEF K
    <3> QED
      BY <2>1, <3>1
  <2> QED
    BY <1>4, <2>1, <2>2
<1>9. CASE ListPublishable(c)
  <2>1. /\ caller[c].at = "listing" /\ caller'[c].at = "audits"
        /\ caller'[c].claims = caller[c].claims
        /\ caller'[c].seen = Len(artifacts) /\ UNCHANGED artifacts
    BY <1>9 DEF ListPublishable, PassTypeOK, CallerState
  <2> HIDE DEF A, K
  <2>2. K \in standing'[c] => ~caller[c].claims
    BY <1>4, <2>1 DEF ReadsAreKept, Checking, K
  <2>3. \A a \in DOMAIN artifacts' : a <= Len(artifacts)
    BY <1>2, <2>1
  <2> QED
    BY <1>4, <2>1, <2>2, <2>3
<1>10. CASE ReadAudits(c)
  <2>1. /\ caller[c].at = "audits" /\ caller'[c].at = "decide"
        /\ caller'[c].claims = caller[c].claims /\ caller'[c].seen = caller[c].seen
        /\ caller'[c].audits = approved /\ UNCHANGED <<artifacts, approved>>
    BY <1>10 DEF ReadAudits, PassTypeOK, CallerState
  <2> HIDE DEF A, K
  <2>2. K \in standing'[c] => ~caller[c].claims
    BY <1>4, <2>1 DEF ReadsAreKept, Checking, K
  <2>3. \A a \in DOMAIN artifacts' : A(a) \in standing'[c] => a <= caller'[c].seen
    BY <1>4, <2>1 DEF ReadsAreKept, Checking, A
  <2>4. \A a : A(a) \in standing'[c] =>
           ~(artifacts'[a].linked /\ artifacts'[a].expert /\ a \in approved')
    <3> TAKE a
    <3>1. A(a) \in Faults' => ~(artifacts'[a].linked /\ artifacts'[a].expert /\ a \in approved')
      BY <1>1, FaultyNext DEF A
    <3> QED
      BY <1>4, <3>1
  <2> QED
    BY <1>4, <2>1, <2>2, <2>3, <2>4
<1>11. \/ caller'[c] = caller[c]
       \/ caller'[c].at = "readiness"
       \/ ReadSupport(c) \/ ListPublishable(c) \/ ReadAudits(c)
  <2>1. CASE UNCHANGED caller
    BY <2>1
  <2>2. ASSUME NEW d \in Callers, NEW s, MovesTo(d, s)
        PROVE  \/ caller'[c] = caller[c]
               \/ caller'[c].at = "readiness"
               \/ ReadSupport(c) \/ ListPublishable(c) \/ ReadAudits(c)
    <3>1. CASE d = c
      <4>1. caller'[c] = s
        BY <2>2, <3>1 DEF MovesTo, PassTypeOK
      <4> QED
        BY <2>2, <3>1, <4>1 DEF MovesTo, Checking
    <3>2. CASE d # c
      BY <2>2, <3>2 DEF MovesTo, PassTypeOK
    <3> QED
      BY <3>1, <3>2
  <2> QED
    BY <2>1, <2>2, CallersMove
<1> HIDE DEF A, K
<1> QED
  BY <1>6, <1>7, <1>8, <1>9, <1>10, <1>11

LEMMA PassKeeps == PassInv /\ [PassNext]_passVars => PassInv'
<1> SUFFICES ASSUME PassInv, [PassNext]_passVars PROVE PassInv'
  OBVIOUS
<1>1. CASE UNCHANGED passVars
  <2> USE DEF PassInv
  <2>1. UNCHANGED <<artifacts, approved, supported, items, caller, standing>>
    BY <1>1 DEF passVars
  <2>2. Faults' = Faults
    BY <2>1 DEF Faults, Publishable, LeavesAmong
  <2>3. PassTypeOK'
    BY <2>1 DEF PassTypeOK
  <2>4. AuditsInTurn'
    BY <2>1 DEF AuditsInTurn
  <2>5. ReadsAreKept'
    BY <2>1, <2>2 DEF ReadsAreKept
  <2> QED
    BY <2>3, <2>4, <2>5
<1>2. CASE PassNext
  BY <1>2, PassTypeKeeps, ReadsKeep DEF PassInv
<1> QED
  BY <1>1, <1>2

LEMMA ReadyIsReady == PassInv => ReadyOverlooksNothing
<1> SUFFICES ASSUME PassInv, NEW c \in Callers, caller[c].at = "decide", CallsItReady(c),
                    NEW f \in standing[c]
             PROVE  FALSE
  BY DEF ReadyOverlooksNothing
<1> USE DEF PassInv
<1>1. f \in Faults
  BY DEF ReadsAreKept, Checking
<1>2. /\ caller[c].claims
      /\ \A a \in Publishable(caller[c].seen) :
           artifacts[a].linked /\ artifacts[a].expert /\ a \in caller[c].audits
      /\ \A s \in Slots : items[s] = "none"
  BY DEF CallsItReady, Ready, Unresolved, PassTypeOK
<1>3. f # [kind |-> "claims", of |-> 0]
  BY <1>2 DEF ReadsAreKept, Checking
<1>4. PICK a \in Publishable(Len(artifacts)) : f = [kind |-> "artifact", of |-> a]
  BY <1>1, <1>2, <1>3 DEF Faults
<1>5. a \in DOMAIN artifacts /\ a \in 1..Len(artifacts)
  BY <1>1, <1>4, FaultyArtifacts
<1>6. a <= caller[c].seen /\ caller[c].seen \in 0..Len(artifacts) /\ Len(artifacts) \in Nat
  BY <1>4, <1>5 DEF ReadsAreKept, PassTypeOK
<1>7. a \in Publishable(caller[c].seen)
  BY <1>4, <1>5, <1>6 DEF Publishable, LeavesAmong
<1>8. artifacts[a].linked /\ artifacts[a].expert /\ a \in caller[c].audits
  BY <1>2, <1>7
<1> QED
  BY <1>4, <1>5, <1>8 DEF ReadsAreKept

-----------------------------------------------------------------------------
LEMMA PassAlways == PassSpec => []PassInv
<1>1. PassInit => PassInv
  BY InitPass
<1> QED
  BY <1>1, PassKeeps, PTL DEF PassSpec

\* However the reads of a check interleave with drafts, revisions, audits,
\* feedback and claims, a run is called ready only if nothing was wrong with it
\* from the beginning of the check to its end.
THEOREM NothingIsOverlooked == PassSpec => []ReadyOverlooksNothing
  BY PassAlways, ReadyIsReady, PTL

-----------------------------------------------------------------------------
\* The artifact a pass makes is one it has found missing, for the drafts it saw.
Makes(c, x) ==
    /\ x.from = Drafts(caller[c].seen)
    /\ \/ /\ caller[c].at = "make"
          /\ x.type \in caller[c].plans
          /\ caller'[c].at = "make" => /\ caller'[c].seen = caller[c].seen
                                       /\ caller'[c].plans = caller[c].plans \ {x.type}
          /\ caller'[c].at # "bundle"
       \/ /\ caller[c].at = "bundle"
          /\ x.type = "package"
          /\ caller'[c].at = "audit"

LEMMA MakingMakes ==
  ASSUME PassTypeOK, NEW c \in Passers, MakeMedia(c) \/ Bundle(c)
  PROVE  \E x : GrowsBy(x) /\ Makes(c, x)
<1>1. /\ c \in Callers /\ caller[c] \in CallerState /\ caller[c].seen \in 0..Len(artifacts)
      /\ caller \in [Callers -> CallerState]
  BY DEF PassTypeOK, Callers
<1>2. ASSUME NEW t \in Media \cup {"package"},
             artifacts' = Append(artifacts, Plan(t, Drafts(caller[c].seen)))
      PROVE  \E x : GrowsBy(x) /\ x.type = t /\ x.from = Drafts(caller[c].seen)
  <2> DEFINE x == Plan(t, Drafts(caller[c].seen))
  <2>1. /\ x \in Artifact /\ x.parent <= Len(artifacts) /\ x.from \subseteq 1..Len(artifacts)
        /\ x.type = t /\ x.from = Drafts(caller[c].seen)
    BY <1>1, PlanType
  <2>2. artifacts' = Append(artifacts, x)
    BY <1>2
  <2> HIDE DEF x
  <2> QED
    BY <2>1, <2>2 DEF GrowsBy
<1>3. CASE MakeMedia(c)
  <2>1. PICK i \in DOMAIN MediaTypes :
          /\ MediaTypes[i] \in caller[c].plans
          /\ artifacts' = Append(artifacts, Plan(MediaTypes[i], Drafts(caller[c].seen)))
          /\ caller' = [caller EXCEPT ![c] =
                       IF caller[c].plans \ {MediaTypes[i]} = {}
                       THEN [IdleCaller EXCEPT !.at = "package", !.job = "pass"]
                       ELSE [caller[c] EXCEPT !.plans = caller[c].plans \ {MediaTypes[i]}]]
    BY <1>3 DEF MakeMedia
  <2>2. caller[c].at = "make"
    BY <1>3 DEF MakeMedia
  <2>3. PICK x : GrowsBy(x) /\ x.type = MediaTypes[i] /\ x.from = Drafts(caller[c].seen)
    BY <1>2, <2>1 DEF Media
  <2>4. /\ caller'[c].at = "make" => /\ caller'[c].seen = caller[c].seen
                                     /\ caller'[c].plans = caller[c].plans \ {x.type}
        /\ caller'[c].at # "bundle"
    <3>1. CASE caller[c].plans \ {MediaTypes[i]} = {}
      <4>1. caller'[c] = Anew("package", "pass")
        BY <1>1, <2>1, <3>1 DEF Anew
      <4> QED
        BY <4>1, AnewType
    <3>2. CASE caller[c].plans \ {MediaTypes[i]} # {}
      <4>1. caller'[c] = [caller[c] EXCEPT !.plans = caller[c].plans \ {MediaTypes[i]}]
        BY <1>1, <2>1, <3>2
      <4> QED
        BY <1>1, <2>2, <2>3, <4>1 DEF CallerState
    <3> QED
      BY <3>1, <3>2
  <2> QED
    BY <2>1, <2>2, <2>3, <2>4 DEF Makes
<1>4. CASE Bundle(c)
  <2>1. caller[c].at = "bundle" /\ caller'[c].at = "audit"
    BY <1>1, <1>4 DEF Bundle, CallerState
  <2>2. PICK x : GrowsBy(x) /\ x.type = "package" /\ x.from = Drafts(caller[c].seen)
    BY <1>2, <1>4 DEF Bundle
  <2> QED
    BY <2>1, <2>2 DEF Makes
<1> QED
  BY <1>3, <1>4

\* Everything else that is made is made from no drafts.
LEMMA PlansAreMade ==
  ASSUME PassTypeOK, PassNext
  PROVE  \/ UNCHANGED artifacts
         \/ \E x : GrowsBy(x) /\ x.from = {}
         \/ \E c \in Passers : \E x : GrowsBy(x) /\ Makes(c, x)
<1>1. CASE \E c \in Passers : MakeMedia(c) \/ Bundle(c)
  BY <1>1, MakingMakes
<1>2. CASE Draft \/ Revise
  <2> Len(artifacts) \in Nat /\ artifacts \in Seq(Artifact)
    BY DEF PassTypeOK
  <2>1. PICK y : artifacts' = Append(artifacts, y) /\ y.from = {}
    <3>1. CASE Draft
      <4>1. PICK parent \in {0} \cup Drafts(Len(artifacts)) :
              artifacts' = Append(artifacts, [type |-> "draft", from |-> {}, parent |-> parent,
                                              linked |-> TRUE, expert |-> TRUE])
        BY <3>1 DEF Draft
      <4> QED
        BY <4>1
    <3>2. CASE Revise
      <4>1. PICK a \in Publishable(Len(artifacts)), byModel \in BOOLEAN :
              artifacts' = Append(artifacts,
                [type |-> artifacts[a].type, from |-> {}, parent |-> a,
                 linked |-> artifacts[a].linked /\ ~byModel /\ artifacts[a].type \notin Media,
                 expert |-> byModel \/ artifacts[a].type \in Media])
        BY <3>2 DEF Revise
      <4> DEFINE y == [type |-> artifacts[a].type, from |-> {}, parent |-> a,
                 linked |-> artifacts[a].linked /\ ~byModel /\ artifacts[a].type \notin Media,
                 expert |-> byModel \/ artifacts[a].type \in Media]
      <4>2. y.from = {}
        OBVIOUS
      <4> HIDE DEF y
      <4>3. artifacts' = Append(artifacts, y)
        BY <4>1 DEF y
      <4> QED
        BY <4>2, <4>3
    <3> QED
      BY <1>2, <3>1, <3>2
  <2>2. Len(artifacts') = Len(artifacts) + 1 /\ artifacts'[Len(artifacts) + 1] = y
    BY <2>1
  <2>3. PICK x : GrowsBy(x)
    BY <2>2, OnlyGrows
  <2>4. x = y
    BY <2>2, <2>3, GrownArtifacts
  <2> QED
    BY <2>1, <2>3, <2>4
<1> QED
  BY <1>1, <1>2
  DEF PassNext, PassStep, CheckStep, BeginPass, ReadOpenFeedback, CheckEvidence, SelectMedia,
      SelectPackage, CallAudit, CallReadiness, ListAuditable, ReadClaims, RecordAudit, ReadSupport,
      ListPublishable, ReadAudits, Decide, OpenReadinessGate, Die, VerifyClaims, AnswerFeedback

\* What there is a plan for.
LEMMA GrownPlans ==
  ASSUME PassTypeOK, NEW x, GrowsBy(x), NEW t, NEW d
  PROVE  PlannedFor(t, d, Len(artifacts))' <=>
           PlannedFor(t, d, Len(artifacts)) \/ (x.type = t /\ x.from = d)
<1>1. Len(artifacts) \in Nat /\ artifacts \in Seq(Artifact)
  BY DEF PassTypeOK
<1>2. /\ Len(artifacts') = Len(artifacts) + 1
      /\ \A a \in 1..Len(artifacts) : artifacts'[a] = artifacts[a]
      /\ artifacts'[Len(artifacts) + 1] = x
  BY <1>1, GrownArtifacts
<1>3. 1..Len(artifacts') = 1..Len(artifacts) \cup {Len(artifacts) + 1}
  BY <1>1, <1>2
<1> QED
  BY <1>2, <1>3 DEF PlannedFor

\* A pass is about to make a plan of kind t, or a package, for the drafts F.
AtPlan(c, t, F) ==
    /\ Drafts(caller[c].seen) = F
    /\ \/ caller[c].at = "make" /\ t \in caller[c].plans
       \/ caller[c].at = "bundle" /\ t = "package"

Planning(t, F) == {c \in Passers : AtPlan(c, t, F)}

Copies(t, F) == {a \in DOMAIN artifacts : artifacts[a].type = t /\ artifacts[a].from = F}

\* Whoever makes a plan was about to, and no longer is.
LEMMA MakersAreDone ==
  ASSUME PassTypeOK, NEW c \in Passers, NEW x, Makes(c, x)
  PROVE  AtPlan(c, x.type, x.from) /\ ~AtPlan(c, x.type, x.from)'
  BY DEF Makes, AtPlan

\* A pass is about to make only what it has found missing, in one read.
LEMMA PlannersFoundNone ==
  ASSUME PassInv, PassNext, NEW c \in Passers, NEW t, NEW F, AtPlan(c, t, F)', ~AtPlan(c, t, F)
  PROVE  UNCHANGED artifacts /\ ~PlannedFor(t, F, Len(artifacts))
<1> USE DEF PassInv
<1>1. /\ Len(artifacts) \in Nat /\ caller \in [Callers -> CallerState] /\ c \in Callers
      /\ caller[c].seen \in 0..Len(artifacts)
  BY DEF PassTypeOK, Callers
<1>2. \A n \in 0..Len(artifacts) : Drafts(n)' = Drafts(n)
  BY ListedStays DEF Drafts
<1>3. caller'[c].at \in {"make", "bundle"}
  BY DEF AtPlan
<1>4. ~(/\ caller'[c].at = caller[c].at /\ caller'[c].seen = caller[c].seen
        /\ caller'[c].plans \subseteq caller[c].plans)
  <2> SUFFICES ASSUME caller'[c].at = caller[c].at, caller'[c].seen = caller[c].seen,
                      caller'[c].plans \subseteq caller[c].plans
               PROVE  FALSE
    OBVIOUS
  <2>1. Drafts(caller[c].seen)' = Drafts(caller[c].seen)
    BY <1>1, <1>2
  <2> QED
    BY <2>1 DEF AtPlan
<1>5. PICK s : MovesTo(c, s)
  BY <1>1, <1>4, CallersMove DEF MovesTo
<1>6. caller'[c] = s
  BY <1>1, <1>5 DEF MovesTo
<1>7. CASE MakeMedia(c)
  <2>1. caller[c].at = "make"
    BY <1>7 DEF MakeMedia
  <2> QED
    BY <1>3, <1>4, <1>7, <2>1, MakingMakes DEF Makes
<1>8. CASE SelectMedia(c)
  <2>1. UNCHANGED artifacts
    BY <1>8 DEF SelectMedia
  <2>2. /\ caller'[c].at = "make" /\ caller'[c].seen = Len(artifacts)
        /\ caller'[c].plans = MissingMedia(Len(artifacts))
    <3>1. caller[c] \in CallerState
      BY <1>1
    <3> QED
      BY <1>1, <1>3, <1>8, <3>1 DEF SelectMedia, Goto, CallerState
  <2>3. Drafts(caller[c].seen)' = Drafts(Len(artifacts))
    BY <2>1, <2>2 DEF Drafts, LeavesAmong
  <2> QED
    BY <2>1, <2>2, <2>3 DEF AtPlan, MissingMedia
<1>9. CASE SelectPackage(c)
  <2>1. UNCHANGED artifacts
    BY <1>9 DEF SelectPackage
  <2>2. /\ caller'[c].at = "bundle" /\ caller'[c].seen = Len(artifacts)
        /\ ~PlannedFor("package", Drafts(Len(artifacts)), Len(artifacts))
    <3>1. caller[c] \in CallerState
      BY <1>1
    <3> QED
      BY <1>1, <1>3, <1>9, <3>1 DEF SelectPackage, Goto, CallerState
  <2>3. Drafts(caller[c].seen)' = Drafts(Len(artifacts))
    BY <2>1, <2>2 DEF Drafts, LeavesAmong
  <2> QED
    BY <2>1, <2>2, <2>3 DEF AtPlan
<1> QED
  BY <1>3, <1>5, <1>6, <1>7, <1>8, <1>9 DEF MovesTo

\* For the same drafts, plans of a kind and passes about to make one are at most
\* as many as there are passes.
PlansAreCounted(t, F) == Cardinality(Copies(t, F)) + Cardinality(Planning(t, F)) <= Cardinality(Passers)

LEMMA CopiesAreFinite ==
  ASSUME PassTypeOK, NEW t, NEW F
  PROVE  IsFiniteSet(Copies(t, F)) /\ Cardinality(Copies(t, F)) \in Nat
<1>1. IsFiniteSet(1..Len(artifacts))
  BY FS_Interval DEF PassTypeOK
<1>2. Copies(t, F) \in SUBSET (1..Len(artifacts))
  BY DEF Copies, PassTypeOK
<1> QED
  BY <1>1, <1>2, FS_Subset, FS_CardinalityType

LEMMA PlanningIsFinite ==
  ASSUME IsFiniteSet(Passers), NEW S \in SUBSET Passers
  PROVE  /\ IsFiniteSet(S)
         /\ Cardinality(S) \in Nat /\ Cardinality(Passers) \in Nat
         /\ Cardinality(S) <= Cardinality(Passers)
  BY FS_Subset, FS_CardinalityType

LEMMA CountKeeps ==
  ASSUME IsFiniteSet(Passers), PassInv, PassNext, NEW t, NEW F, F # {}, PlansAreCounted(t, F)
  PROVE  PlansAreCounted(t, F)'
<1> USE DEF PassInv
<1>1. PassTypeOK' /\ Len(artifacts) \in Nat /\ artifacts \in Seq(Artifact)
  BY PassTypeKeeps DEF PassTypeOK
<1>2. /\ IsFiniteSet(Copies(t, F)) /\ Cardinality(Copies(t, F)) \in Nat
      /\ Planning(t, F) \in SUBSET Passers /\ Planning(t, F)' \in SUBSET Passers
  BY CopiesAreFinite DEF Planning
<1> DEFINE C == Copies(t, F)
           P == Planning(t, F)
           Q == Planning(t, F)'
<1>3. /\ IsFiniteSet(P) /\ Cardinality(P) \in Nat /\ Cardinality(Passers) \in Nat
      /\ IsFiniteSet(Q) /\ Cardinality(Q) \in Nat /\ Cardinality(Q) <= Cardinality(Passers)
  BY <1>2, PlanningIsFinite
\* A pass that begins to plan has found none, so there are only the passes to count.
<1>4. CASE ~(Q \subseteq P)
  <2>1. PICK c \in Passers : AtPlan(c, t, F)' /\ ~AtPlan(c, t, F)
    BY <1>4 DEF Planning
  <2>2. UNCHANGED artifacts /\ ~PlannedFor(t, F, Len(artifacts))
    BY <2>1, PlannersFoundNone
  <2>3. Copies(t, F)' = {}
    BY <1>1, <2>2 DEF Copies, PlannedFor
  <2>4. Cardinality(Copies(t, F))' = 0
    BY <2>3, FS_EmptySet
  <2> QED
    BY <1>3, <2>4 DEF PlansAreCounted
<1>5. CASE Q \subseteq P /\ Copies(t, F)' = C
  <2>1. Cardinality(Q) <= Cardinality(P)
    BY <1>3, <1>5, FS_Subset
  <2> QED
    BY <1>2, <1>3, <1>5, <2>1 DEF PlansAreCounted
\* Who makes one is no longer about to.
<1>6. ASSUME Q \subseteq P, NEW x, GrowsBy(x), x.type = t, x.from = F
      PROVE  PlansAreCounted(t, F)'
  <2>1. PICK c \in Passers : Makes(c, x)
    <3>1. ASSUME NEW y, GrowsBy(y) PROVE y = x
      BY <1>1, <1>6, <3>1, GrownArtifacts
    <3> QED
      BY <1>1, <1>6, <3>1, PlansAreMade, GrownArtifacts
  <2>2. c \in P /\ c \notin Q
    BY <1>6, <2>1, MakersAreDone DEF Planning
  <2>3. Q \subseteq P \ {c}
    BY <1>6, <2>2
  <2>4. IsFiniteSet(P \ {c}) /\ Cardinality(P \ {c}) = Cardinality(P) - 1
    BY <1>3, <2>2, FS_RemoveElement
  <2>5. Cardinality(Q) <= Cardinality(P) - 1
    BY <2>3, <2>4, FS_Subset
  <2>6. Copies(t, F)' = C \cup {Len(artifacts) + 1}
    <3>1. /\ artifacts' \in Seq(Artifact) /\ Len(artifacts') = Len(artifacts) + 1
          /\ \A a \in 1..Len(artifacts) : artifacts'[a] = artifacts[a]
          /\ artifacts'[Len(artifacts) + 1] = x
      BY <1>1, <1>6, GrownArtifacts
    <3>2. DOMAIN artifacts' = 1..Len(artifacts) \cup {Len(artifacts) + 1} /\ DOMAIN artifacts = 1..Len(artifacts)
      BY <1>1, <3>1
    <3> QED
      BY <1>6, <3>1, <3>2 DEF Copies
  <2>7. Len(artifacts) + 1 \notin C
    BY <1>1 DEF Copies
  <2>8. Cardinality(Copies(t, F))' = Cardinality(C) + 1
    BY <1>2, <2>6, <2>7, FS_AddElement
  <2> QED
    BY <1>2, <1>3, <2>5, <2>8 DEF PlansAreCounted
<1>7. \/ Copies(t, F)' = C
      \/ \E x : GrowsBy(x) /\ x.type = t /\ x.from = F
  <2>1. CASE UNCHANGED artifacts
    BY <2>1 DEF Copies
  <2>2. ASSUME NEW x, GrowsBy(x), ~(x.type = t /\ x.from = F)
        PROVE  Copies(t, F)' = C
    <3>1. /\ artifacts' \in Seq(Artifact) /\ Len(artifacts') = Len(artifacts) + 1
          /\ \A a \in 1..Len(artifacts) : artifacts'[a] = artifacts[a]
          /\ artifacts'[Len(artifacts) + 1] = x
      BY <1>1, <2>2, GrownArtifacts
    <3>2. DOMAIN artifacts' = 1..Len(artifacts) \cup {Len(artifacts) + 1} /\ DOMAIN artifacts = 1..Len(artifacts)
      BY <1>1, <3>1
    <3> QED
      BY <2>2, <3>1, <3>2 DEF Copies
  <2> QED
    BY <2>1, <2>2, OnlyGrows
<1> QED
  BY <1>4, <1>5, <1>6, <1>7

LEMMA InitCount ==
  ASSUME IsFiniteSet(Passers), PassInit, NEW t, NEW F
  PROVE  PlansAreCounted(t, F)
<1>1. Copies(t, F) = {}
  BY DEF PassInit, Copies
<1>2. Planning(t, F) = {}
  BY DEF PassInit, Planning, AtPlan, IdleCaller, Callers
<1> QED
  BY <1>1, <1>2, FS_EmptySet, FS_CardinalityType DEF PlansAreCounted

\* For the same drafts there are never more plans of a kind, or packages, than
\* there are callers of the pass, however often each of them calls, wherever its
\* earlier passes died, and whatever is drafted, revised and audited meanwhile:
\* what a pass finds missing it makes once, and after that it is found.
THEOREM PlansAreBounded ==
  ASSUME IsFiniteSet(Passers)
  PROVE  PassSpec => [](\A t, F : F # {} => Cardinality(Copies(t, F)) <= Cardinality(Passers))
<1> DEFINE Counted == \A t, F : F # {} => PlansAreCounted(t, F)
           Bounded == \A t, F : F # {} => Cardinality(Copies(t, F)) <= Cardinality(Passers)
<1>1. PassInit => Counted
  BY InitCount
<1>2. PassInv /\ Counted /\ [PassNext]_passVars => Counted'
  <2> SUFFICES ASSUME PassInv, Counted, [PassNext]_passVars, NEW t, NEW F, F # {}
               PROVE  PlansAreCounted(t, F)'
    OBVIOUS
  <2>1. CASE PassNext
    BY <2>1, CountKeeps
  <2>2. CASE UNCHANGED passVars
    <3>1. UNCHANGED <<artifacts, caller>> /\ PlansAreCounted(t, F)
      BY <2>2 DEF passVars
    <3> QED
      BY <3>1 DEF PlansAreCounted, Copies, Planning, AtPlan, Drafts, LeavesAmong
  <2> QED
    BY <2>1, <2>2
<1>3. PassInv /\ Counted => Bounded
  <2> SUFFICES ASSUME PassInv, Counted, NEW t, NEW F, F # {}
               PROVE  Cardinality(Copies(t, F)) <= Cardinality(Passers)
    OBVIOUS
  <2>1. Cardinality(Copies(t, F)) \in Nat
    BY CopiesAreFinite DEF PassInv
  <2>2. Planning(t, F) \in SUBSET Passers
    BY DEF Planning
  <2>3. Cardinality(Planning(t, F)) \in Nat /\ Cardinality(Passers) \in Nat
    BY <2>2, PlanningIsFinite
  <2> QED
    BY <2>1, <2>3 DEF PlansAreCounted
<1> QED
  BY <1>1, <1>2, <1>3, PassAlways, PTL DEF PassSpec

\* A run is passed over by one caller at a time.  The code does not see to it:
\* two passes at once find the same plan missing and both make it.
OnePasser == \A p, q \in Passers : p = q

LEMMA OneIsFinite == OnePasser => IsFiniteSet(Passers) /\ Cardinality(Passers) <= 1
<1>1. CASE Passers = {}
  BY <1>1, FS_EmptySet
<1>2. ASSUME OnePasser, NEW p \in Passers
      PROVE  IsFiniteSet(Passers) /\ Cardinality(Passers) <= 1
  <2>1. Passers = {p}
    BY <1>2 DEF OnePasser
  <2>2. IsFiniteSet({p}) /\ Cardinality({p}) = 1
    BY FS_Singleton
  <2>3. Cardinality(Passers) = 1
    BY <2>1, <2>2, Zenon
  <2> QED
    BY <2>1, <2>2, <2>3
<1> QED
  BY <1>1, <1>2

\* A single pass after the other, each of which may die wherever it is, makes one
\* plan of a kind and one package for the same drafts.
THEOREM NoPlansTwice ==
  ASSUME OnePasser
  PROVE  PassSpec => []PassesDoNotPileUp
<1> DEFINE Bounded == \A t, F : F # {} => Cardinality(Copies(t, F)) <= Cardinality(Passers)
<1>1. PassInv /\ Bounded => PassesDoNotPileUp
  <2> SUFFICES ASSUME PassInv, Bounded, NEW a \in DOMAIN artifacts, NEW b \in DOMAIN artifacts,
                      artifacts[a].from # {}, artifacts[a].type = artifacts[b].type,
                      artifacts[a].from = artifacts[b].from
               PROVE  a = b
    BY DEF PassesDoNotPileUp
  <2> DEFINE C == Copies(artifacts[a].type, artifacts[a].from)
  <2>1. a \in C /\ b \in C
    BY DEF Copies
  <2>2. IsFiniteSet(C) /\ Cardinality(C) \in Nat
    BY CopiesAreFinite DEF PassInv
  <2>3. Cardinality(C) <= 1
    <3>1. Cardinality(Passers) \in Nat /\ Cardinality(Passers) <= 1
      BY OneIsFinite, FS_CardinalityType
    <3>2. Cardinality(C) <= Cardinality(Passers)
      OBVIOUS
    <3> QED
      BY <2>2, <3>1, <3>2
  <2> HIDE DEF C
  <2>4. Cardinality({a, b}) <= Cardinality(C)
    BY <2>1, <2>2, FS_Subset
  <2>5. CASE a # b
    <3>1. IsFiniteSet({a}) /\ Cardinality({a}) = 1
      BY FS_Singleton
    <3>2. b \notin {a}
      BY <2>5
    <3>3. Cardinality({a} \cup {b}) = Cardinality({a}) + 1
      BY <3>1, <3>2, FS_AddElement, Zenon
    <3>4. {a, b} = {a} \cup {b}
      OBVIOUS
    <3>5. Cardinality({a, b}) = 2
      BY <3>1, <3>3, <3>4
    <3> QED
      BY <2>2, <2>3, <2>4, <3>5
  <2> QED
    BY <2>5
<1> QED
  BY <1>1, OneIsFinite, PassAlways, PlansAreBounded, PTL

-----------------------------------------------------------------------------
(***************************************************************************)
(* The composition: what voice events, revisions, passes and the page      *)
(* promise alone they promise beside one another.                          *)
(***************************************************************************)
\* A behaviour of the composition is one of each of its parts.
THEOREM FlowsAreTheirParts == Spec => EventsSpec /\ RevisionSpec /\ PassSpec /\ PageSpec
<1>1. Init => EventsInit /\ RevisionInit /\ PassInit /\ PageInit
  BY DEF Init
<1>2. [Next]_allVars => /\ [EventsNext]_eventVars
                        /\ [RevisionNext]_revisionVars
                        /\ [PassNext]_passVars
                        /\ [PageNext]_pageVars
  BY DEF Next, allVars, RevisionsOver, PageRests
<1> QED
  BY <1>1, <1>2, PTL DEF Spec, EventsSpec, RevisionSpec, PassSpec, PageSpec

LEMMA PassTypes == PassSpec => []PassTypeOK
<1>1. PassInv => PassTypeOK
  BY DEF PassInv
<1> QED
  BY <1>1, PassAlways, PTL

LEMMA PageTypes == PageSpec => []PageTypeOK
<1>1. PageInv => PageTypeOK
  BY DEF PageInv
<1> QED
  BY <1>1, PageAlways, PTL

\* Events, revisions, passes and the page keep their types together.
THEOREM FlowsTypes == Spec => []TypeOK
<1>1. EventsTypeOK /\ RevisionTypeOK /\ PassTypeOK /\ PageTypeOK => TypeOK
  BY DEF TypeOK
<1> QED
  BY <1>1, FlowsAreTheirParts, EventTypes, RevisionTypes, PassTypes, PageTypes, PTL
=============================================================================
