---------------------------- MODULE BoardProofs ----------------------------
(***************************************************************************)
(* An orderly deployment in which events do not fail implements the task   *)
(* board.  BoardInv adds to OrderlyInv what a worker's copies of waiting   *)
(* rows and a repair's list of remaining ids have to do with the ledger:   *)
(* a write-back only restores ids that repairs took away from an open      *)
(* task, and a repair only takes ids away.                                 *)
(* What is left of it when events fail and repairs overlap comes last:     *)
(* completed tasks and attempts.                                           *)
(***************************************************************************)
EXTENDS A2AStudioProofs, A2ARefinement

\* The listed messages whose rows may still be written back.
RememberedIn(state) ==
    IF state.pc \in {"target", "snapshot"} THEN state.inbox ELSE state.waiting

\* A copy may be written over its row.
Restores(copy, t, row) ==
    /\ copy.status = "accepted"
    /\ copy.attempts = row.attempts
    /\ row.deps \subseteq copy.deps
    /\ copy.deps \subseteq InitialDeps[t]

CopiesRestore ==
    OneWorkerPerAgent =>
        \A w \in Workers : \A t \in RememberedIn(worker[w]) :
            Restores(worker[w].copy[t], t, ledger[t])

DepsAreGiven ==
    \A t \in Task : /\ ledger[t].deps \subseteq InitialDeps[t]
                    /\ Status(t) = "absent" => ledger[t].deps = {}

RepairsOnlyRemove ==
    \A c \in Callers :
        /\ caller[c].pc \in {"repair", "write"} => Status(caller[c].job) # "absent"
        /\ caller[c].pc = "write" => caller[c].deps \subseteq ledger[caller[c].job].deps

BoardInv == OrderlyInv /\ CopiesRestore /\ DepsAreGiven /\ RepairsOnlyRemove

LEMMA BoardInit == Init => BoardInv
<1> SUFFICES ASSUME Init PROVE BoardInv
  OBVIOUS
<1>1. OrderlyInv
  BY OrderlyInit
<1>2. /\ \A w \in Workers : worker[w] = IdleWorker
      /\ \A t \in Task : ledger[t] = NoRow
      /\ \A c \in Callers : caller[c] = NoCall
  BY DEF Init, WorkerInit, LedgerInit
<1>3. /\ IdleWorker.pc = "idle" /\ IdleWorker.waiting = {}
      /\ NoRow.deps = {} /\ NoCall.pc = "idle"
  BY DEF IdleWorker, NoRow, NoCall
<1> QED
  BY <1>1, <1>2, <1>3 DEF BoardInv, CopiesRestore, RememberedIn, DepsAreGiven, RepairsOnlyRemove

-----------------------------------------------------------------------------
(* The places, holders and needs of the board *)

LEMMA MoveMap ==
  ASSUME NEW S \in SUBSET Task, NEW from, NEW to,
         \A t \in S : Place(t) = from,
         \A t \in Task : Place(t)' = IF t \in S THEN to ELSE Place(t)
  PROVE  Board!Move(S, from, to)
  BY DEF Board!Move

\* The holder of a task is the worker that runs it.
HoldersAreHolding ==
    \A t \in Task :
        /\ \A w \in Workers : Holds(w, t) => Holder(t) = w
        /\ (\A w \in Workers : ~Holds(w, t)) => Holder(t) = NoAgent

LEMMA HolderMap == OrderlyInv => HoldersAreHolding
<1> SUFFICES ASSUME OrderlyInv, NEW t \in Task
             PROVE  /\ \A w \in Workers : Holds(w, t) => Holder(t) = w
                    /\ (\A w \in Workers : ~Holds(w, t)) => Holder(t) = NoAgent
  BY DEF HoldersAreHolding
<1>1. \A v, w \in Workers : Holds(v, t) /\ Holds(w, t) => v = w
  BY OrderlySafe DEF SingleExecutor
<1> QED
  BY <1>1 DEF Holder

LEMMA HolderMapNext == OrderlyInv' => HoldersAreHolding'
  BY HolderMap, PTL

LEMMA HoldersStay ==
  ASSUME OrderlyInv, OrderlyInv', NEW t \in Task,
         \A w \in Workers : Holds(w, t)' <=> Holds(w, t)
  PROVE  Holder(t)' = Holder(t)
<1>1. CASE \E w \in Workers : Holds(w, t)
  BY <1>1, HolderMap, HolderMapNext DEF HoldersAreHolding
<1>2. CASE ~\E w \in Workers : Holds(w, t)
  BY <1>2, HolderMap, HolderMapNext DEF HoldersAreHolding
<1> QED
  BY <1>1, <1>2

PlacesShowStatus ==
    \A t \in Task :
        /\ Status(t) = "absent" => Place(t) = "absent"
        /\ Status(t) = "accepted" => Place(t) = "open"
        /\ Status(t) \in {"claimed", "in_progress"} => Place(t) = "taken"
        /\ Status(t) = "completed" => Place(t) = "done"
        /\ Status(t) \in {"waiting_for_human", "failed", "blocked", "canceled"}
             => Place(t) = "stopped"

LEMMA PlaceMap == PlacesShowStatus
<1> SUFFICES ASSUME NEW t \in Task
             PROVE  /\ Status(t) = "absent" => Place(t) = "absent"
                    /\ Status(t) = "accepted" => Place(t) = "open"
                    /\ Status(t) \in {"claimed", "in_progress"} => Place(t) = "taken"
                    /\ Status(t) = "completed" => Place(t) = "done"
                    /\ Status(t) \in {"waiting_for_human", "failed", "blocked", "canceled"}
                         => Place(t) = "stopped"
  BY DEF PlacesShowStatus
<1>1. Status(t) = "absent" => Place(t) = "absent"
  BY DEF Place, StaleRecoverable
<1>2. Status(t) = "accepted" => Place(t) = "open"
  BY DEF Place, StaleRecoverable
<1>3. Status(t) \in {"claimed", "in_progress"} => Place(t) = "taken"
  BY DEF Place, StaleRecoverable
<1>4. Status(t) = "completed" => Place(t) = "done"
  BY DEF Place, StaleRecoverable
<1>5. Status(t) \in {"waiting_for_human", "failed", "blocked", "canceled"}
        => Place(t) = "stopped"
  BY DEF Place, StaleRecoverable
<1> QED
  BY <1>1, <1>2, <1>3, <1>4, <1>5

LEMMA PlaceMapNext == PlacesShowStatus'
  BY PlaceMap, PTL

\* A held task is marked as taken.
LEMMA HeldIsTaken ==
  ASSUME OrderlyInv, NEW w \in Workers, NEW t \in Task, Holds(w, t)
  PROVE  Place(t) = "taken" /\ Holder(t) = w
<1>1. Status(t) \in {"claimed", "in_progress"}
  BY DEF OrderlyInv, HeldRowsAreMarked, StaleRecoverable
<1> QED
  BY <1>1, PlaceMap, HolderMap DEF PlacesShowStatus, HoldersAreHolding

\* A step that changes neither places nor holders nor needs.
LEMMA Stutters ==
  ASSUME OrderlyInv, OrderlyInv',
         \A t \in Task : Place(t)' = Place(t),
         \A t \in Task : Needs(t)' = Needs(t),
         \A w \in Workers, t \in Task : Holds(w, t)' <=> Holds(w, t)
  PROVE  UNCHANGED Board!vars
<1>1. \A t \in Task : Holder(t)' = Holder(t)
  BY HoldersStay
<1> QED
  BY <1>1 DEF Board!vars

LEMMA RowsStay ==
  ASSUME UNCHANGED ledger
  PROVE  \A t \in Task : Place(t)' = Place(t) /\ Needs(t)' = Needs(t)
  BY DEF Place, Needs, Status

-----------------------------------------------------------------------------
(* The workers *)

LEMMA BecomeEffect ==
  ASSUME OrderlyInv, NEW w \in Workers, NEW state, Become(w, state)
  PROVE  /\ worker'[w] = state
         /\ \A v \in Workers : v # w => worker'[v] = worker[v]
         /\ \A v \in Workers, t \in Task : v # w => (Holds(v, t)' <=> Holds(v, t))
  BY DEF Become, OrderlyInv, TypeOK, WorkerTypeOK, Holds

\* What a step of worker w owes to BoardInv.
LEMMA BoardFrame ==
  ASSUME BoardInv, OrderlyInv', NEW w \in Workers, NEW state, Become(w, state),
         UNCHANGED caller,
         OneWorkerPerAgent => \A v \in Workers : v # w =>
            \A t \in worker[v].inbox : ledger'[t] = ledger[t],
         OneWorkerPerAgent => \A t \in RememberedIn(state) :
            Restores(state.copy[t], t, ledger'[t]),
         \A t \in Task : /\ ledger[t].deps \subseteq ledger'[t].deps
                         /\ ledger'[t].deps \subseteq InitialDeps[t]
                         /\ ledger'[t].status = "absent" <=> Status(t) = "absent"
                         /\ Status(t) = "absent" => ledger'[t].deps = {}
  PROVE  BoardInv'
<1>1. CopiesRestore'
  <2> SUFFICES ASSUME OneWorkerPerAgent, NEW v \in Workers, NEW t \in RememberedIn(worker'[v])
               PROVE  Restores(worker'[v].copy[t], t, ledger'[t])
    BY DEF CopiesRestore, RememberedIn, Restores, OneWorkerPerAgent
  <2>1. CASE v = w
    BY <2>1, BecomeEffect DEF BoardInv
  <2>2. CASE v # w
    <3>1. worker'[v] = worker[v]
      BY <2>2, BecomeEffect DEF BoardInv
    <3>2. t \in RememberedIn(worker[v]) /\ t \in worker[v].inbox
      BY <3>1, WorkerFacts DEF BoardInv, RememberedIn
    <3>3. Restores(worker[v].copy[t], t, ledger[t])
      BY <3>2 DEF BoardInv, CopiesRestore
    <3> QED
      BY <2>2, <3>1, <3>2, <3>3
  <2> QED
    BY <2>1, <2>2
<1>2. DepsAreGiven'
  BY DEF DepsAreGiven, BoardInv, Status
<1>3. RepairsOnlyRemove'
  <2> SUFFICES ASSUME NEW c \in Callers, caller[c].pc \in {"repair", "write"}
               PROVE  /\ ledger'[caller[c].job].status # "absent"
                      /\ caller[c].pc = "write" =>
                           caller[c].deps \subseteq ledger'[caller[c].job].deps
    BY DEF RepairsOnlyRemove, Status
  <2>1. caller[c].job \in Task
    BY ServingType DEF BoardInv, OrderlyInv
  <2> QED
    BY <2>1 DEF BoardInv, RepairsOnlyRemove, Status
<1> QED
  BY <1>1, <1>2, <1>3 DEF BoardInv

\* A step of worker w that leaves the rows alone and has no task on hand.
LEMMA QuietBoard ==
  ASSUME BoardInv, OrderlyInv', NEW w \in Workers, NEW state, Become(w, state),
         UNCHANGED <<ledger, caller>>,
         worker[w].pc \notin {"claimed", "executing"},
         state.pc \notin {"claimed", "executing"},
         OneWorkerPerAgent => \A t \in RememberedIn(state) :
            Restores(state.copy[t], t, ledger[t])
  PROVE  BoardInv' /\ UNCHANGED Board!vars
<1>1. BoardInv'
  <2>1. \A t \in Task : /\ ledger[t].deps \subseteq ledger'[t].deps
                        /\ ledger'[t].deps \subseteq InitialDeps[t]
                        /\ ledger'[t].status = "absent" <=> Status(t) = "absent"
                        /\ Status(t) = "absent" => ledger'[t].deps = {}
    BY DEF BoardInv, DepsAreGiven, Status
  <2> QED
    BY <2>1, BoardFrame
<1>2. \A v \in Workers, t \in Task : Holds(v, t)' <=> Holds(v, t)
  <2>1. \A t \in Task : ~Holds(w, t)' /\ ~Holds(w, t)
    BY BecomeEffect DEF BoardInv, Holds
  <2> QED
    BY <2>1, BecomeEffect DEF BoardInv
<1> QED
  BY <1>1, <1>2, RowsStay, Stutters DEF BoardInv

LEMMA BoardFacts ==
  ASSUME BoardInv, NEW w \in Workers
  PROVE  /\ OrderlyInv /\ TypeOK /\ worker[w] \in WorkerState
         /\ ledger \in [Task -> Row]
         /\ worker[w].waiting \subseteq worker[w].inbox
         /\ worker[w].pc \in {"idle", "recover", "block", "escalate", "list"}
              => worker[w].inbox = {}
         /\ OneWorkerPerAgent => \A t \in RememberedIn(worker[w]) :
              Restores(worker[w].copy[t], t, ledger[t])
  BY WorkerFacts, LedgerFacts DEF BoardInv, OrderlyInv, CopiesRestore

LEMMA EndRunBoard ==
  ASSUME BoardInv, OrderlyInv', NEW w \in Workers, EndRun(w), UNCHANGED <<ledger, caller>>,
         worker[w].pc \notin {"claimed", "executing"}
  PROVE  BoardInv' /\ UNCHANGED Board!vars
<1>1. IdleWorker.pc = "idle" /\ IdleWorker.waiting = {}
  BY DEF IdleWorker
<1>2. RememberedIn(IdleWorker) = {}
  BY <1>1 DEF RememberedIn
<1> QED
  BY <1>1, <1>2, QuietBoard DEF EndRun

\* The locals that matter stay as they are, or are empty.
LEMMA GotoBoard ==
  ASSUME BoardInv, OrderlyInv', NEW w \in Workers, NEW label, Goto(w, label),
         UNCHANGED <<ledger, caller>>,
         worker[w].pc \notin {"claimed", "executing"},
         label \notin {"claimed", "executing"},
         worker[w].inbox = {} \/ (worker[w].pc = "target" /\ label = "snapshot")
  PROVE  BoardInv' /\ UNCHANGED Board!vars
<1> DEFINE state == [worker[w] EXCEPT !.pc = label]
<1>1. /\ state.pc = label /\ state.inbox = worker[w].inbox
      /\ state.waiting = worker[w].waiting /\ state.copy = worker[w].copy
  BY BoardFacts DEF WorkerState
<1>2. Become(w, state)
  BY DEF Goto
<1> HIDE DEF state
<1>3. RememberedIn(state) \subseteq RememberedIn(worker[w])
  BY <1>1, BoardFacts DEF RememberedIn
<1> QED
  BY <1>1, <1>2, <1>3, BoardFacts, QuietBoard

LEMMA StartPassBoard ==
  ASSUME BoardInv, OrderlyInv', NEW w \in Workers, UNCHANGED caller,
         NEW ids, NEW recover, StartPass(w, ids, recover)
  PROVE  BoardInv' /\ UNCHANGED Board!vars
<1> DEFINE label == IF ids # {} THEN "target" ELSE IF recover THEN "recover" ELSE "block"
           named == ids # {}
           state == [worker[w] EXCEPT !.targeted = named, !.unread = ids, !.pc = label]
<1>1. label \in {"target", "recover", "block"}
  OBVIOUS
<1>2. Become(w, state) /\ UNCHANGED ledger /\ worker[w].pc = "idle"
  BY DEF StartPass, At, ledgerVars
<1> HIDE DEF label, named
<1>3. /\ state.pc = label /\ state.inbox = worker[w].inbox
      /\ state.waiting = worker[w].waiting /\ state.copy = worker[w].copy
  BY BoardFacts DEF WorkerState
<1> HIDE DEF state
<1>4. RememberedIn(state) = {}
  BY <1>2, <1>3, BoardFacts DEF RememberedIn
<1> QED
  BY <1>1, <1>2, <1>3, <1>4, QuietBoard

\* What is listed now may be written back now.
LEMMA ListedRestores ==
  ASSUME BoardInv, NEW t \in Task, Status(t) = "accepted"
  PROVE  Restores(ledger[t], t, ledger[t])
  BY DEF BoardInv, DepsAreGiven, Restores, Status

LEMMA ReadTargetBoard ==
  ASSUME BoardInv, OrderlyInv', NEW w \in Workers, UNCHANGED caller,
         NEW t \in Task, ReadTarget(w, t)
  PROVE  BoardInv' /\ UNCHANGED Board!vars
<1>1. UNCHANGED ledger /\ worker[w].pc = "target"
  BY DEF ReadTarget, At, ledgerVars
<1>2. CASE Become(w, [worker[w] EXCEPT !.unread = @ \ {t}])
  <2> DEFINE state == [worker[w] EXCEPT !.unread = @ \ {t}]
  <2>1. /\ state.pc = "target" /\ state.inbox = worker[w].inbox
        /\ state.copy = worker[w].copy
    BY <1>1, BoardFacts DEF WorkerState
  <2>2. Become(w, state)
    BY <1>2
  <2> HIDE DEF state
  <2>3. RememberedIn(state) = RememberedIn(worker[w])
    BY <1>1, <2>1 DEF RememberedIn
  <2> QED
    BY <1>1, <2>1, <2>2, <2>3, BoardFacts, QuietBoard
<1>3. CASE /\ t \in AcceptedInbox(WorkerAgent[w])
           /\ Become(w, [worker[w] EXCEPT !.unread = @ \ {t}, !.inbox = @ \cup {t},
                                          !.copy = [@ EXCEPT ![t] = ledger[t]]])
  <2> DEFINE state == [worker[w] EXCEPT !.unread = @ \ {t}, !.inbox = @ \cup {t},
                                        !.copy = [@ EXCEPT ![t] = ledger[t]]]
  <2>1. /\ state.pc = "target" /\ state.inbox = worker[w].inbox \cup {t}
        /\ state.copy = [worker[w].copy EXCEPT ![t] = ledger[t]]
    BY <1>1, BoardFacts DEF WorkerState
  <2>2. Become(w, state)
    BY <1>3
  <2>3. worker[w].copy \in [Task -> Row] /\ worker[w].inbox \subseteq Task
    BY BoardFacts DEF WorkerState
  <2> HIDE DEF state
  <2>4. \A u \in RememberedIn(state) :
          \/ u = t /\ state.copy[u] = ledger[u]
          \/ u \in RememberedIn(worker[w]) /\ state.copy[u] = worker[w].copy[u]
    BY <1>1, <2>1, <2>3 DEF RememberedIn
  <2>5. Restores(ledger[t], t, ledger[t])
    BY <1>3, ListedRestores DEF AcceptedInbox
  <2> QED
    BY <1>1, <2>1, <2>2, <2>4, <2>5, BoardFacts, QuietBoard
<1> QED
  BY <1>2, <1>3 DEF ReadTarget

LEMMA ListInboxBoard ==
  ASSUME BoardInv, OrderlyInv', NEW w \in Workers, UNCHANGED caller, ListInbox(w)
  PROVE  BoardInv' /\ UNCHANGED Board!vars
<1> DEFINE batch == Oldest(AcceptedInbox(WorkerAgent[w]), BatchLimit)
           rows == [t \in Task |-> IF t \in batch THEN ledger[t] ELSE NoRow]
           state == [worker[w] EXCEPT !.inbox = batch, !.copy = rows, !.pc = "snapshot"]
<1>1. \A t \in batch : t \in Task /\ Status(t) = "accepted" /\ rows[t] = ledger[t]
  BY DEF Oldest, AcceptedInbox
<1>2. EndRun(w) \/ Become(w, state)
  BY DEF ListInbox
<1>3. UNCHANGED ledger /\ worker[w].pc = "list"
  BY DEF ListInbox, At, ledgerVars
<1> HIDE DEF batch, rows
<1>4. state.pc = "snapshot" /\ state.inbox = batch /\ state.copy = rows
  BY BoardFacts DEF WorkerState
<1> HIDE DEF state
<1>5. \A t \in RememberedIn(state) : Restores(state.copy[t], t, ledger[t])
  BY <1>1, <1>4, ListedRestores DEF RememberedIn
<1> QED
  BY <1>2, <1>3, <1>4, <1>5, EndRunBoard, QuietBoard

LEMMA SnapshotBoard ==
  ASSUME BoardInv, OrderlyInv', NEW w \in Workers, UNCHANGED caller, Snapshot(w)
  PROVE  BoardInv' /\ UNCHANGED Board!vars
<1> DEFINE unmet == {t \in worker[w].inbox : Unmet(worker[w].copy[t]) # {}}
           rows == [t \in Task |-> IF t \in unmet THEN worker[w].copy[t] ELSE NoRow]
           state == [worker[w] EXCEPT !.waiting = unmet, !.copy = rows, !.pc = "next"]
<1>1. \A t \in unmet : t \in worker[w].inbox /\ rows[t] = worker[w].copy[t]
  BY BoardFacts DEF WorkerState
<1>2. Become(w, state) /\ UNCHANGED ledger /\ worker[w].pc = "snapshot"
  BY DEF Snapshot, At, ledgerVars
<1> HIDE DEF unmet, rows
<1>3. state.pc = "next" /\ state.waiting = unmet /\ state.copy = rows
  <2>1. \A q \in WorkerState :
          LET r == [q EXCEPT !.waiting = unmet, !.copy = rows, !.pc = "next"] IN
          r.pc = "next" /\ r.waiting = unmet /\ r.copy = rows
    BY DEF WorkerState
  <2> QED
    BY <2>1, BoardFacts
<1> HIDE DEF state
<1>4. \A t \in RememberedIn(state) :
        t \in RememberedIn(worker[w]) /\ state.copy[t] = worker[w].copy[t]
  BY <1>1, <1>2, <1>3 DEF RememberedIn
<1> QED
  BY <1>2, <1>3, <1>4, BoardFacts, QuietBoard

\* A handled message is forgotten; what is remembered of the others stays.
LEMMA HandledBoard ==
  ASSUME BoardInv, NEW w \in Workers, NEW t \in Task
  PROVE  /\ Handled(w, t).pc = worker[w].pc
         /\ Handled(w, t).waiting = worker[w].waiting \ {t}
         /\ Handled(w, t) \in WorkerState
         /\ \A u \in Task \ {t} : Handled(w, t).copy[u] = worker[w].copy[u]
<1>1. /\ worker[w].copy \in [Task -> Row]
      /\ Handled(w, t).copy = [worker[w].copy EXCEPT ![t] = NoRow]
  BY BoardFacts DEF Handled, WorkerState
<1>2. \A u \in Task \ {t} : Handled(w, t).copy[u] = worker[w].copy[u]
  BY <1>1
<1> QED
  BY <1>2, HandledFacts DEF BoardInv

LEMMA SkipBoard ==
  ASSUME BoardInv, OrderlyInv', NEW w \in Workers, UNCHANGED caller,
         NEW t \in Task, SkipUnclaimable(w, t)
  PROVE  BoardInv' /\ UNCHANGED Board!vars
<1>1. Become(w, Handled(w, t)) /\ UNCHANGED ledger /\ worker[w].pc = "next"
  BY DEF SkipUnclaimable, IsNext, At, ledgerVars
<1>2. worker[w].waiting \subseteq Task
  BY BoardFacts DEF WorkerState
<1>3. \A u \in RememberedIn(Handled(w, t)) :
        u \in RememberedIn(worker[w]) /\ Handled(w, t).copy[u] = worker[w].copy[u]
  BY <1>1, <1>2, HandledBoard DEF RememberedIn
<1> QED
  BY <1>1, <1>3, HandledBoard, BoardFacts, QuietBoard

LEMMA NextMessageEffect ==
  ASSUME BoardInv, NEW w \in Workers,
         worker[w].pc \in {"claimed", "executing", "closing"}
  PROVE  LET state == [worker[w] EXCEPT !.pc = "next", !.job = NoTask] IN
         /\ state.pc = "next"
         /\ state.copy = worker[w].copy
         /\ RememberedIn(state) = RememberedIn(worker[w])
  BY BoardFacts DEF WorkerState, RememberedIn

LEMMA CloseTaskBoard ==
  ASSUME BoardInv, OrderlyInv', NEW w \in Workers, UNCHANGED caller, CloseTask(w)
  PROVE  BoardInv' /\ UNCHANGED Board!vars
<1> DEFINE state == [worker[w] EXCEPT !.pc = "next", !.job = NoTask]
<1>1. Become(w, state) /\ UNCHANGED ledger /\ worker[w].pc = "closing"
  BY DEF CloseTask, NextMessage, At, ledgerVars
<1>2. /\ state.pc = "next" /\ state.copy = worker[w].copy
      /\ RememberedIn(state) = RememberedIn(worker[w])
  BY <1>1, NextMessageEffect
<1> HIDE DEF state
<1> QED
  BY <1>1, <1>2, BoardFacts, QuietBoard

\* A statement that leaves a row, or its dependencies, as they are.
LEMMA RowStays ==
  ASSUME NEW t \in Task, ledger'[t] = ledger[t]
  PROVE  Place(t)' = Place(t) /\ Needs(t)' = Needs(t)
  BY DEF Place, Needs, Status

LEMMA NeedsStay ==
  ASSUME NEW t \in Task, Status(t) # "absent", ledger'[t].status # "absent"
  PROVE  Needs(t) = ledger[t].deps /\ Needs(t)' = ledger'[t].deps
  BY DEF Needs, Status

\* The rows in S go from one status to another and keep their dependencies.
LEMMA RowsMove ==
  ASSUME BoardInv, NEW S \in SUBSET Task, NEW s \in {"accepted", "blocked"},
         \A t \in S : Status(t) # "absent",
         \A t \in Task : IF t \in S THEN ledger'[t].status = s /\ ledger'[t].deps = ledger[t].deps
                                    ELSE ledger'[t] = ledger[t]
  PROVE  /\ \A t \in Task : Place(t)' = IF t \in S
                                        THEN IF s = "accepted" THEN "open" ELSE "stopped"
                                        ELSE Place(t)
         /\ \A t \in Task : Needs(t)' = Needs(t)
         /\ \A t \in Task : /\ ledger[t].deps \subseteq ledger'[t].deps
                            /\ ledger'[t].deps \subseteq InitialDeps[t]
                            /\ ledger'[t].status = "absent" <=> Status(t) = "absent"
                            /\ Status(t) = "absent" => ledger'[t].deps = {}
<1>1. ASSUME NEW t \in S
      PROVE  /\ Place(t)' = IF s = "accepted" THEN "open" ELSE "stopped"
             /\ Needs(t)' = Needs(t)
  <2>1. ledger'[t].status = s /\ s # "absent"
    BY <1>1
  <2>2. Place(t)' = IF s = "accepted" THEN "open" ELSE "stopped"
    BY <1>1, <2>1, PlaceMapNext DEF PlacesShowStatus, Status
  <2> QED
    BY <1>1, <2>1, <2>2, NeedsStay
<1>2. ASSUME NEW t \in Task, t \notin S
      PROVE  Place(t)' = Place(t) /\ Needs(t)' = Needs(t)
  BY <1>2, RowStays
<1>3. \A t \in Task : /\ ledger[t].deps \subseteq ledger'[t].deps
                      /\ ledger'[t].deps \subseteq InitialDeps[t]
                      /\ ledger'[t].status = "absent" <=> Status(t) = "absent"
                      /\ Status(t) = "absent" => ledger'[t].deps = {}
  BY DEF BoardInv, DepsAreGiven, Status
<1> QED
  BY <1>1, <1>2, <1>3

LEMMA RecoverBoard ==
  ASSUME BoardInv, OrderlyInv', NEW w \in Workers, UNCHANGED caller, RecoverStale(w)
  PROVE  BoardInv' /\ Board!Next
<1> DEFINE state == [worker[w] EXCEPT !.pc = "block"]
<1>1. PICK S \in Batches(StaleTasks(WorkerAgent[w])) : RecoverStaleAgentMessages(S)
  BY DEF RecoverStale
<1>2. Become(w, state) /\ worker[w].pc = "recover"
  BY DEF RecoverStale, Goto, At
<1>3. /\ state.pc = "block" /\ state.inbox = worker[w].inbox
      /\ state.waiting = worker[w].waiting
  BY BoardFacts DEF WorkerState
<1> HIDE DEF state
<1>4. /\ S \in SUBSET Task
      /\ \A t \in S : /\ Status(t) \in {"claimed", "in_progress"} /\ aged[t]
                      /\ Recipient[t] = WorkerAgent[w]
  BY DEF Batches, StaleTasks, StaleRecoverable
<1>5. \A t \in Task :
        IF t \in S THEN ledger'[t].status = "accepted" /\ ledger'[t].deps = ledger[t].deps
                   ELSE ledger'[t] = ledger[t]
  BY <1>1, <1>4, BoardFacts, RecoverEffect DEF Untouched
<1>6. /\ \A t \in Task : Place(t)' = IF t \in S THEN "open" ELSE Place(t)
      /\ \A t \in Task : Needs(t)' = Needs(t)
      /\ \A t \in Task : /\ ledger[t].deps \subseteq ledger'[t].deps
                         /\ ledger'[t].deps \subseteq InitialDeps[t]
                         /\ ledger'[t].status = "absent" <=> Status(t) = "absent"
                         /\ Status(t) = "absent" => ledger'[t].deps = {}
  BY <1>4, <1>5, RowsMove
<1>7. BoardInv'
  <2>1. RememberedIn(state) = {}
    BY <1>2, <1>3, BoardFacts DEF RememberedIn
  <2>2. OneWorkerPerAgent => \A v \in Workers : v # w =>
          \A t \in worker[v].inbox : ledger'[t] = ledger[t]
    BY <1>4, <1>5, OthersInbox DEF BoardInv
  <2> QED
    BY <1>2, <1>6, <2>1, <2>2, BoardFrame
<1>8. \A v \in Workers, t \in Task : Holds(v, t)' <=> Holds(v, t)
  <2>1. \A t \in Task : ~Holds(w, t)' /\ ~Holds(w, t)
    BY <1>2, <1>3, BecomeEffect DEF BoardInv, Holds
  <2> QED
    BY <1>2, <2>1, BecomeEffect DEF BoardInv
<1>9. \A t \in Task : Holder(t)' = Holder(t)
  BY <1>8, HoldersStay DEF BoardInv
<1>10. \A t \in S : Holder(t) = NoAgent /\ Place(t) = "taken"
  <2>1. \A t \in S, v \in Workers : ~Holds(v, t)
    <3> SUFFICES ASSUME NEW t \in S, NEW v \in Workers, Holds(v, t)
                 PROVE  FALSE
      OBVIOUS
    <3>1. OneWorkerPerAgent /\ Recipient[t] = WorkerAgent[v]
      BY <1>4 DEF BoardInv, OrderlyInv, HeldRowsAreMarked
    <3>2. v = w
      BY <1>4, <3>1 DEF OneWorkerPerAgent
    <3> QED
      BY <1>2, <3>2 DEF Holds
  <2> QED
    BY <1>4, <2>1, HolderMap, PlaceMap DEF BoardInv, HoldersAreHolding, PlacesShowStatus
<1>11. Board!Reopen(S)
  <2>1. Board!Move(S, "taken", "open")
    BY <1>4, <1>6, <1>10, MoveMap
  <2> QED
    BY <1>4, <1>6, <1>9, <1>10, <2>1 DEF Board!Reopen
<1> QED
  BY <1>4, <1>7, <1>11 DEF Board!Next

LEMMA BlockBoard ==
  ASSUME BoardInv, OrderlyInv', NEW w \in Workers, UNCHANGED caller, BlockExhausted(w)
  PROVE  BoardInv' /\ Board!Next
<1>1. PICK S \in Batches(ExhaustedTasks(WorkerAgent[w])) :
        /\ BlockExhaustedAgentMessages(S)
        /\ Goto(w, IF S = {} THEN "list" ELSE "escalate")
  BY DEF BlockExhausted
<1> DEFINE label == IF S = {} THEN "list" ELSE "escalate"
           state == [worker[w] EXCEPT !.pc = label]
<1>2. Become(w, state) /\ worker[w].pc = "block" /\ label \in {"list", "escalate"}
  BY <1>1 DEF BlockExhausted, Goto, At
<1> HIDE DEF label
<1>3. /\ state.pc = label /\ state.inbox = worker[w].inbox
      /\ state.waiting = worker[w].waiting
  BY BoardFacts DEF WorkerState
<1> HIDE DEF state
<1>4. /\ S \in SUBSET Task
      /\ \A t \in S : Status(t) = "accepted" /\ Recipient[t] = WorkerAgent[w]
  BY DEF Batches, ExhaustedTasks, AcceptedInbox
<1>5. \A t \in Task :
        IF t \in S THEN ledger'[t].status = "blocked" /\ ledger'[t].deps = ledger[t].deps
                   ELSE ledger'[t] = ledger[t]
  BY <1>1, <1>4, BoardFacts, BlockEffect DEF Untouched
<1>6. /\ \A t \in Task : Place(t)' = IF t \in S THEN "stopped" ELSE Place(t)
      /\ \A t \in Task : Needs(t)' = Needs(t)
      /\ \A t \in Task : /\ ledger[t].deps \subseteq ledger'[t].deps
                         /\ ledger'[t].deps \subseteq InitialDeps[t]
                         /\ ledger'[t].status = "absent" <=> Status(t) = "absent"
                         /\ Status(t) = "absent" => ledger'[t].deps = {}
  BY <1>4, <1>5, RowsMove
<1>7. BoardInv'
  <2>1. RememberedIn(state) = {}
    BY <1>2, <1>3, BoardFacts DEF RememberedIn
  <2>2. OneWorkerPerAgent => \A v \in Workers : v # w =>
          \A t \in worker[v].inbox : ledger'[t] = ledger[t]
    BY <1>4, <1>5, OthersInbox DEF BoardInv
  <2> QED
    BY <1>2, <1>6, <2>1, <2>2, BoardFrame
<1>8. \A v \in Workers, t \in Task : Holds(v, t)' <=> Holds(v, t)
  <2>1. \A t \in Task : ~Holds(w, t)' /\ ~Holds(w, t)
    BY <1>2, <1>3, BecomeEffect DEF BoardInv, Holds
  <2> QED
    BY <1>2, <2>1, BecomeEffect DEF BoardInv
<1>9. \A t \in Task : Holder(t)' = Holder(t)
  BY <1>8, HoldersStay DEF BoardInv
<1>10. \A t \in S : Place(t) = "open"
  BY <1>4, PlaceMap DEF PlacesShowStatus
<1>11. Board!Stop(S)
  <2>1. Board!Move(S, "open", "stopped")
    BY <1>4, <1>6, <1>10, MoveMap
  <2> QED
    BY <1>6, <1>9, <2>1 DEF Board!Stop
<1> QED
  BY <1>4, <1>7, <1>11 DEF Board!Next

LEMMA WaitBoard ==
  ASSUME BoardInv, OrderlyInv', OneWorkerPerAgent \/ NoDependencies,
         NEW w \in Workers, UNCHANGED caller, NEW t \in Task, WaitOnDependencies(w, t)
  PROVE  BoardInv' /\ Board!Next
<1> DEFINE row == worker[w].copy[t]
<1>1. /\ Become(w, Handled(w, t)) /\ worker[w].pc = "next"
      /\ t \in worker[w].waiting /\ t \in worker[w].inbox
      /\ RecordAgentMessage(t, row)
  BY DEF WaitOnDependencies, IsNext, At
<1>2. OneWorkerPerAgent
  BY <1>1, WorkerFacts DEF BoardInv
<1>3. Status(t) = "accepted" /\ Recipient[t] = WorkerAgent[w]
  BY <1>1, <1>2, WorkerFacts DEF BoardInv
<1>4. Restores(row, t, ledger[t])
  BY <1>1, <1>2, BoardFacts DEF RememberedIn
<1>5. \A u \in Task : ledger'[u] = IF u = t THEN row ELSE ledger[u]
  BY <1>1, BoardFacts, RecordEffect DEF Untouched
<1> HIDE DEF row
<1>6. \A u \in Task : /\ ledger[u].deps \subseteq ledger'[u].deps
                      /\ ledger'[u].deps \subseteq InitialDeps[u]
                      /\ ledger'[u].status = "absent" <=> Status(u) = "absent"
                      /\ Status(u) = "absent" => ledger'[u].deps = {}
  BY <1>3, <1>4, <1>5 DEF Restores, BoardInv, DepsAreGiven, Status
<1>7. BoardInv'
  <2>1. \A u \in RememberedIn(Handled(w, t)) :
          /\ u \in RememberedIn(worker[w]) /\ u \in Task \ {t}
          /\ Handled(w, t).copy[u] = worker[w].copy[u]
    BY <1>1, HandledBoard, BoardFacts DEF RememberedIn, WorkerState
  <2>2. \A u \in RememberedIn(Handled(w, t)) : Restores(Handled(w, t).copy[u], u, ledger'[u])
    BY <1>2, <1>5, <2>1, BoardFacts
  <2>3. \A v \in Workers : v # w => \A u \in worker[v].inbox : ledger'[u] = ledger[u]
    BY <1>2, <1>3, <1>5, OthersInbox DEF BoardInv
  <2> QED
    BY <1>1, <1>6, <2>2, <2>3, BoardFrame
<1>8. \A v \in Workers, u \in Task : Holds(v, u)' <=> Holds(v, u)
  <2>1. \A u \in Task : ~Holds(w, u)' /\ ~Holds(w, u)
    BY <1>1, BecomeEffect, HandledBoard DEF BoardInv, Holds
  <2> QED
    BY <1>1, <2>1, BecomeEffect DEF BoardInv
<1>9. \A u \in Task : Holder(u)' = Holder(u)
  BY <1>8, HoldersStay DEF BoardInv
<1>10. \A u \in Task : Place(u)' = Place(u)
  <2>1. Place(t) = "open" /\ Place(t)' = "open"
    <3>1. Status(t)' = "accepted"
      BY <1>4, <1>5 DEF Restores, Status
    <3> QED
      BY <1>3, <3>1, PlaceMap, PlaceMapNext DEF PlacesShowStatus
  <2> QED
    BY <1>5, <2>1, RowStays
<1>11. /\ Needs(t)' = row.deps
       /\ \A u \in Task : u # t => Needs(u)' = Needs(u)
  <2>1. ledger'[t].status # "absent"
    BY <1>4, <1>5 DEF Restores
  <2> QED
    BY <1>3, <1>5, <2>1, NeedsStay, RowStays
<1>12. Board!Revise(t, row.deps)
  <2>1. Place(t) = "open" /\ row.deps \subseteq InitialDeps[t]
    BY <1>3, <1>4, PlaceMap DEF Restores, PlacesShowStatus
  <2> QED
    BY <1>9, <1>10, <1>11, <2>1 DEF Board!Revise
<1>13. row.deps \in SUBSET Task
  BY <1>4, LedgerAssumption DEF Restores
<1> QED
  BY <1>7, <1>12, <1>13 DEF Board!Next

LEMMA ClaimBoard ==
  ASSUME BoardInv, OrderlyInv', NEW w \in Workers, UNCHANGED caller,
         NEW t \in Task, Claim(w, t)
  PROVE  BoardInv' /\ Board!Next
<1> DEFINE state == [Handled(w, t) EXCEPT !.pc = "claimed", !.job = t]
<1>1. /\ Become(w, state) /\ worker[w].pc = "next" /\ t \in worker[w].inbox
      /\ TryClaimAgentMessage(t, WorkerAgent[w])
  BY DEF Claim, IsNext, At
<1>2. /\ state.pc = "claimed" /\ state.job = t
      /\ state.waiting = worker[w].waiting \ {t} /\ state.copy = Handled(w, t).copy
  <2>1. \A q \in WorkerState :
          LET r == [q EXCEPT !.pc = "claimed", !.job = t] IN
          /\ r.pc = "claimed" /\ r.job = t /\ r.waiting = q.waiting /\ r.copy = q.copy
    BY DEF WorkerState
  <2> QED
    BY <2>1, HandledBoard
<1> HIDE DEF state
<1>3. /\ Status(t) = "accepted" /\ Recipient[t] = WorkerAgent[w]
      /\ \A d \in ledger[t].deps : Status(d) = "completed"
  BY <1>1 DEF TryClaimAgentMessage, Claimable
<1>4. \A u \in Task :
        IF u = t THEN ledger'[u].status = "claimed" /\ ledger'[u].deps = ledger[u].deps
                 ELSE ledger'[u] = ledger[u]
  BY <1>1, BoardFacts, ClaimEffect DEF Untouched
<1>5. \A u \in Task : /\ ledger[u].deps \subseteq ledger'[u].deps
                      /\ ledger'[u].deps \subseteq InitialDeps[u]
                      /\ ledger'[u].status = "absent" <=> Status(u) = "absent"
                      /\ Status(u) = "absent" => ledger'[u].deps = {}
  BY <1>3, <1>4 DEF BoardInv, DepsAreGiven, Status
<1>6. BoardInv'
  <2>1. \A u \in RememberedIn(state) :
          /\ u \in RememberedIn(worker[w]) /\ u \in Task \ {t}
          /\ state.copy[u] = worker[w].copy[u]
    BY <1>1, <1>2, HandledBoard, BoardFacts DEF RememberedIn, WorkerState
  <2>2. OneWorkerPerAgent =>
          \A u \in RememberedIn(state) : Restores(state.copy[u], u, ledger'[u])
    BY <1>4, <2>1, BoardFacts
  <2>3. OneWorkerPerAgent => \A v \in Workers : v # w =>
          \A u \in worker[v].inbox : ledger'[u] = ledger[u]
    BY <1>3, <1>4, OthersInbox DEF BoardInv
  <2> QED
    BY <1>1, <1>5, <2>2, <2>3, BoardFrame
<1>7. /\ Place(t) = "open" /\ Place(t)' = "taken" /\ Needs(t)' = Needs(t)
      /\ \A u \in Task : u # t => Place(u)' = Place(u) /\ Needs(u)' = Needs(u)
  <2>1. Place(t)' = "taken"
    <3>1. Status(t)' = "claimed"
      BY <1>4 DEF Status
    <3> QED
      BY <3>1, PlaceMapNext DEF PlacesShowStatus
  <2>2. Needs(t)' = Needs(t)
    <3>1. Status(t) # "absent" /\ ledger'[t].status # "absent"
      BY <1>3, <1>4
    <3> QED
      BY <1>4, <3>1, NeedsStay
  <2> QED
    BY <1>3, <1>4, <2>1, <2>2, PlaceMap, RowStays DEF PlacesShowStatus
<1>8. Holds(w, t)' /\ \A u \in Task : u # t => ~Holds(w, u)' /\ ~Holds(w, u)
  BY <1>1, <1>2, BecomeEffect DEF BoardInv, Holds
<1>9. /\ Holder(t)' = w
      /\ \A u \in Task : u # t => Holder(u)' = Holder(u)
  <2>1. Holder(t)' = w
    BY <1>8, HolderMapNext DEF HoldersAreHolding
  <2>2. ASSUME NEW u \in Task, u # t
        PROVE  Holder(u)' = Holder(u)
    <3>1. \A v \in Workers : Holds(v, u)' <=> Holds(v, u)
      BY <1>1, <1>8, <2>2, BecomeEffect DEF BoardInv
    <3> QED
      BY <3>1, HoldersStay DEF BoardInv
  <2> QED
    BY <2>1, <2>2
<1>10. \A u \in Task : Holder(u) # w
  <2>1. \A u \in Task : ~Holds(w, u)
    BY <1>1 DEF Holds
  <2>2. \A u \in Task : Holder(u) \in (Workers \ {w}) \cup {NoAgent}
    BY <2>1, HolderMap DEF BoardInv, HoldersAreHolding
  <2> QED
    BY <2>2, RefinementAssumption
<1>11. \A d \in Needs(t) : d \in Task /\ Place(d) = "done"
  <2>1. Needs(t) = ledger[t].deps /\ ledger[t].deps \subseteq Task
    <3>1. Status(t) # "absent"
      BY <1>3
    <3> QED
      BY <3>1, BoardFacts DEF Needs, Row
  <2> QED
    BY <1>3, <2>1, PlaceMap DEF PlacesShowStatus
<1>12. Board!Take(t, w)
  <2>1. Board!Move({t}, "open", "taken")
    BY <1>7, MoveMap
  <2> QED
    BY <1>7, <1>9, <1>10, <1>11, <2>1 DEF Board!Take
<1> QED
  BY <1>6, <1>12 DEF Board!Next

\* A worker writes status s into the row of its task, which is not open.
LEMMA RowStatusBoard ==
  ASSUME BoardInv, OrderlyInv', NEW w \in Workers, UNCHANGED caller,
         NEW s \in TaskStatus \ {"absent"}, SetStatus(w, s), NEW state, Become(w, state),
         NEW t \in Task, worker[w].job = t, Status(t) \notin {"absent", "accepted"},
         RememberedIn(state) \subseteq RememberedIn(worker[w]),
         state.copy = worker[w].copy
  PROVE  /\ BoardInv'
         /\ \A u \in Task :
              IF u = t THEN ledger'[u].status = s /\ ledger'[u].deps = ledger[u].deps
                       ELSE ledger'[u] = ledger[u]
<1>1. UpdateAgentMessageStatus(t, s, WorkerAgent[w])
  BY DEF SetStatus
<1>2. \A u \in Task :
        IF u = t THEN ledger'[u].status = s /\ ledger'[u].deps = ledger[u].deps
                 ELSE ledger'[u] = ledger[u]
  BY <1>1, BoardFacts, StatusEffect DEF Untouched
<1>3. \A u \in Task : /\ ledger[u].deps \subseteq ledger'[u].deps
                      /\ ledger'[u].deps \subseteq InitialDeps[u]
                      /\ ledger'[u].status = "absent" <=> Status(u) = "absent"
                      /\ Status(u) = "absent" => ledger'[u].deps = {}
  BY <1>2 DEF BoardInv, DepsAreGiven, Status
<1>4. OneWorkerPerAgent => \A v \in Workers : \A u \in worker[v].inbox : u \in Task \ {t}
  BY WorkerFacts DEF BoardInv, WorkerState
<1>5. \A u \in RememberedIn(worker[w]) : u \in worker[w].inbox
  BY BoardFacts DEF RememberedIn
<1>6. OneWorkerPerAgent =>
        \A u \in RememberedIn(state) : Restores(state.copy[u], u, ledger'[u])
  BY <1>2, <1>4, <1>5, BoardFacts
<1>7. OneWorkerPerAgent => \A v \in Workers : v # w =>
        \A u \in worker[v].inbox : ledger'[u] = ledger[u]
  BY <1>2, <1>4
<1>8. BoardInv'
  BY <1>3, <1>6, <1>7, BoardFrame
<1> QED
  BY <1>2, <1>8

\* A worker writes status s into the row of the task it holds.
LEMMA SetStatusBoard ==
  ASSUME BoardInv, OrderlyInv', NEW w \in Workers, UNCHANGED caller,
         NEW s \in TaskStatus \ {"absent"}, SetStatus(w, s), NEW state, Become(w, state),
         NEW t \in Task, worker[w].job = t,
         worker[w].pc \in {"claimed", "executing"},
         RememberedIn(state) \subseteq RememberedIn(worker[w]),
         state.copy = worker[w].copy
  PROVE  /\ BoardInv'
         /\ Holds(w, t) /\ \A u \in Task : u # t => ~Holds(w, u)
         /\ ledger'[t].status = s
         /\ \A u \in Task : Needs(u)' = Needs(u)
         /\ \A u \in Task : u # t => Place(u)' = Place(u)
<1>1. Status(t) \in StaleRecoverable
  BY JobFacts DEF BoardInv
<1>2. Holds(w, t) /\ \A u \in Task : u # t => ~Holds(w, u)
  BY DEF Holds
<1>3. /\ BoardInv'
      /\ \A u \in Task :
           IF u = t THEN ledger'[u].status = s /\ ledger'[u].deps = ledger[u].deps
                    ELSE ledger'[u] = ledger[u]
  BY <1>1, RowStatusBoard DEF StaleRecoverable
<1>4. Needs(t)' = Needs(t)
  <2>1. Status(t) # "absent" /\ ledger'[t].status # "absent"
    BY <1>1, <1>3 DEF StaleRecoverable
  <2> QED
    BY <1>1, <1>3, <2>1, NeedsStay
<1>5. \A u \in Task : u # t => Place(u)' = Place(u) /\ Needs(u)' = Needs(u)
  BY <1>3, RowStays
<1> QED
  BY <1>1, <1>2, <1>3, <1>4, <1>5

LEMMA BeginTaskBoard ==
  ASSUME BoardInv, OrderlyInv', NEW w \in Workers, UNCHANGED caller, BeginTask(w)
  PROVE  BoardInv' /\ UNCHANGED Board!vars
<1> DEFINE state == [worker[w] EXCEPT !.pc = "executing"]
<1>0. PICK t \in Task : worker[w].job = t
  BY JobFacts DEF BeginTask, At, BoardInv
<1>1. Become(w, state) /\ SetStatus(w, "in_progress") /\ worker[w].pc = "claimed"
  BY DEF BeginTask, Goto, At
<1>2. /\ state.pc = "executing" /\ state.job = t /\ state.copy = worker[w].copy
      /\ RememberedIn(state) = RememberedIn(worker[w])
  BY <1>0, <1>1, BoardFacts DEF WorkerState, RememberedIn
<1> HIDE DEF state
<1>3. /\ BoardInv'
      /\ Holds(w, t)
      /\ \A u \in Task : u # t => ~Holds(w, u)
      /\ ledger'[t].status = "in_progress"
      /\ \A u \in Task : Needs(u)' = Needs(u)
      /\ \A u \in Task : u # t => Place(u)' = Place(u)
  <2>1. "in_progress" \in TaskStatus \ {"absent"}
    BY DEF TaskStatus
  <2> QED
    BY <1>0, <1>1, <1>2, <2>1, SetStatusBoard
<1>4. Place(t)' = Place(t)
  <2>1. Place(t) = "taken"
    BY <1>3, HeldIsTaken DEF BoardInv
  <2>2. Status(t)' = "in_progress"
    BY <1>3 DEF Status
  <2> QED
    BY <1>3, <2>1, <2>2, PlaceMapNext DEF PlacesShowStatus
<1>5. \A v \in Workers, u \in Task : Holds(v, u)' <=> Holds(v, u)
  <2>1. \A u \in Task : Holds(w, u)' <=> u = t
    BY <1>1, <1>2, BecomeEffect DEF BoardInv, Holds
  <2>2. \A u \in Task : Holds(w, u)' <=> Holds(w, u)
    BY <1>3, <2>1
  <2> QED
    BY <1>1, <2>2, BecomeEffect DEF BoardInv
<1> QED
  BY <1>3, <1>4, <1>5, Stutters DEF BoardInv

\* The task of worker w gets status s, and w lets go of it.
LEMMA FinishBoard ==
  ASSUME BoardInv, OrderlyInv', NEW w \in Workers, UNCHANGED caller,
         NEW s \in {"completed", "failed"}, SetStatus(w, s), NEW state, Become(w, state),
         worker[w].pc = "executing", state.pc \notin {"claimed", "executing"},
         RememberedIn(state) \subseteq RememberedIn(worker[w]),
         state.copy = worker[w].copy
  PROVE  BoardInv' /\ Board!Next
<1>0. PICK t \in Task : worker[w].job = t
  BY JobFacts DEF BoardInv
<1>1. /\ BoardInv'
      /\ Holds(w, t)
      /\ \A u \in Task : u # t => ~Holds(w, u)
      /\ ledger'[t].status = s
      /\ \A u \in Task : Needs(u)' = Needs(u)
      /\ \A u \in Task : u # t => Place(u)' = Place(u)
  <2>1. s \in TaskStatus \ {"absent"}
    BY DEF TaskStatus
  <2> QED
    BY <1>0, <2>1, SetStatusBoard
<1>2. Place(t) = "taken" /\ Holder(t) = w
  BY <1>1, HeldIsTaken DEF BoardInv
<1>3. Place(t)' = IF s = "completed" THEN "done" ELSE "stopped"
  <2>1. Status(t)' = s
    BY <1>1 DEF Status
  <2> QED
    BY <1>1, <2>1, PlaceMapNext DEF PlacesShowStatus
<1>4. \A u \in Task : ~Holds(w, u)'
  BY BecomeEffect DEF BoardInv, Holds
<1>5. Holder(t)' = NoAgent
  <2>1. \A v \in Workers : v # w => ~Holds(v, t)
    BY <1>1, OrderlySafe DEF BoardInv, SingleExecutor
  <2>2. \A v \in Workers : ~Holds(v, t)'
    BY <1>1, <1>4, <2>1, BecomeEffect DEF BoardInv
  <2> QED
    BY <1>1, <2>2, HolderMapNext DEF HoldersAreHolding
<1>6. ASSUME NEW u \in Task, u # t
      PROVE  Holder(u)' = Holder(u)
  <2>1. \A v \in Workers : Holds(v, u)' <=> Holds(v, u)
    BY <1>1, <1>4, <1>6, BecomeEffect DEF BoardInv
  <2> QED
    BY <2>1, HoldersStay DEF BoardInv
<1>7. Board!Move({t}, "taken", "done") \/ Board!Move({t}, "taken", "stopped")
  BY <1>1, <1>2, <1>3, MoveMap
<1>8. Board!Finish(t, w)
  BY <1>1, <1>2, <1>5, <1>6, <1>7 DEF Board!Finish
<1> QED
  BY <1>1, <1>8 DEF Board!Next

LEMMA CompleteTaskBoard ==
  ASSUME BoardInv, OrderlyInv', NEW w \in Workers, UNCHANGED caller, CompleteTask(w)
  PROVE  BoardInv' /\ Board!Next
<1> DEFINE state == [worker[w] EXCEPT !.pc = "closing"]
<1>1. Become(w, state) /\ SetStatus(w, "completed") /\ worker[w].pc = "executing"
  BY DEF CompleteTask, Goto, At
<1>2. /\ state.pc = "closing" /\ state.copy = worker[w].copy
      /\ RememberedIn(state) = RememberedIn(worker[w])
  BY <1>1, BoardFacts DEF WorkerState, RememberedIn
<1> HIDE DEF state
<1> QED
  BY <1>1, <1>2, FinishBoard

\* The event after the COMPLETED write fails, and the except branch marks the
\* completed task as failed.
EventFails(w) == EventFailures /\ worker[w].pc = "closing" /\ FailTask(w)

LEMMA FailTaskBoard ==
  ASSUME BoardInv, OrderlyInv', NEW w \in Workers, UNCHANGED caller, FailTask(w)
  PROVE  BoardInv' /\ (Board!Next \/ EventFails(w))
<1> DEFINE state == [worker[w] EXCEPT !.pc = "next", !.job = NoTask]
<1>1. /\ Become(w, state) /\ SetStatus(w, "failed")
      /\ worker[w].pc = "executing" \/ (EventFailures /\ worker[w].pc = "closing")
  BY DEF FailTask, NextMessage, At
<1>2. /\ state.pc = "next" /\ state.copy = worker[w].copy
      /\ RememberedIn(state) = RememberedIn(worker[w])
  BY <1>1, NextMessageEffect
<1> HIDE DEF state
<1>3. CASE worker[w].pc = "executing"
  BY <1>1, <1>2, <1>3, FinishBoard
<1>4. CASE worker[w].pc = "closing"
  <2>1. PICK t \in Task : worker[w].job = t
    BY <1>4, JobFacts DEF BoardInv
  <2>2. Status(t) \notin {"absent", "accepted"} /\ "failed" \in TaskStatus \ {"absent"}
    BY <1>4, <2>1, JobFacts DEF BoardInv, TaskStatus
  <2> QED
    BY <1>1, <1>2, <1>4, <2>1, <2>2, RowStatusBoard DEF EventFails
<1> QED
  BY <1>1, <1>3, <1>4

LEMMA CrashBoard ==
  ASSUME BoardInv, OrderlyInv', NEW w \in Workers, UNCHANGED caller, Crash(w)
  PROVE  BoardInv' /\ [Board!Next]_(Board!vars)
<1>1. EndRun(w) /\ UNCHANGED ledger
  BY DEF Crash, ledgerVars
<1>2. CASE worker[w].pc \notin {"claimed", "executing"}
  BY <1>1, <1>2, EndRunBoard
<1>3. CASE worker[w].pc \in {"claimed", "executing"}
  <2>0. PICK t \in Task : worker[w].job = t
    BY <1>3, JobFacts DEF BoardInv
  <2>1. /\ IdleWorker.pc = "idle" /\ IdleWorker.waiting = {}
        /\ Become(w, IdleWorker)
    BY <1>1 DEF IdleWorker, EndRun
  <2>2. BoardInv'
    <3>1. RememberedIn(IdleWorker) = {}
      BY <2>1 DEF RememberedIn
    <3>2. \A u \in Task : /\ ledger[u].deps \subseteq ledger'[u].deps
                          /\ ledger'[u].deps \subseteq InitialDeps[u]
                          /\ ledger'[u].status = "absent" <=> Status(u) = "absent"
                          /\ Status(u) = "absent" => ledger'[u].deps = {}
      BY <1>1 DEF BoardInv, DepsAreGiven, Status
    <3> QED
      BY <1>1, <2>1, <3>1, <3>2, BoardFrame
  <2>3. Holds(w, t) /\ \A u \in Task : u # t => ~Holds(w, u)
    BY <1>3, <2>0 DEF Holds
  <2>4. \A u \in Task : ~Holds(w, u)'
    BY <2>1, BecomeEffect DEF BoardInv, Holds
  <2>5. Holder(t) = w
    BY <2>3, HeldIsTaken DEF BoardInv
  <2>6. Holder(t)' = NoAgent
    <3>1. \A v \in Workers : v # w => ~Holds(v, t)
      BY <2>3, OrderlySafe DEF BoardInv, SingleExecutor
    <3>2. \A v \in Workers : ~Holds(v, t)'
      BY <2>1, <2>4, <3>1, BecomeEffect DEF BoardInv
    <3> QED
      BY <3>2, HolderMapNext DEF HoldersAreHolding
  <2>7. ASSUME NEW u \in Task, u # t
        PROVE  Holder(u)' = Holder(u)
    <3>1. \A v \in Workers : Holds(v, u)' <=> Holds(v, u)
      BY <2>1, <2>3, <2>4, <2>7, BecomeEffect DEF BoardInv
    <3> QED
      BY <3>1, HoldersStay DEF BoardInv
  <2>8. \A u \in Task : Place(u)' = Place(u) /\ Needs(u)' = Needs(u)
    BY <1>1, RowsStay
  <2>9. Board!Vanish(t, w)
    BY <2>5, <2>6, <2>7, <2>8 DEF Board!Vanish
  <2> QED
    BY <2>2, <2>9 DEF Board!Next
<1> QED
  BY <1>2, <1>3

LEMMA WorkerBoard ==
  ASSUME BoardInv, OrderlyInv', OneWorkerPerAgent \/ NoDependencies,
         NEW w \in Workers, UNCHANGED caller, WorkerStep(w) \/ Crash(w)
  PROVE  BoardInv' /\ ([Board!Next]_(Board!vars) \/ EventFails(w))
<1>1. CASE \E t \in Task : ReadTarget(w, t)
  BY <1>1, ReadTargetBoard
<1>2. CASE TargetsRead(w)
  <2>1. UNCHANGED ledger /\ worker[w].pc = "target" /\ (EndRun(w) \/ Goto(w, "snapshot"))
    BY <1>2 DEF TargetsRead, At, ledgerVars
  <2> QED
    BY <2>1, EndRunBoard, GotoBoard
<1>3. CASE RecoverStale(w)
  BY <1>3, RecoverBoard
<1>4. CASE BlockExhausted(w)
  BY <1>4, BlockBoard
<1>5. CASE ParkRun(w)
  <2>1. /\ UNCHANGED ledger /\ Goto(w, "list")
        /\ worker[w].pc = "escalate" /\ worker[w].inbox = {}
    BY <1>5, BoardFacts DEF ParkRun, At
  <2> QED
    BY <2>1, GotoBoard
<1>6. CASE ListInbox(w)
  BY <1>6, ListInboxBoard
<1>7. CASE Snapshot(w)
  BY <1>7, SnapshotBoard
<1>8. CASE \E t \in Task : WaitOnDependencies(w, t)
  BY <1>8, WaitBoard
<1>9. CASE \E t \in Task : Claim(w, t)
  BY <1>9, ClaimBoard
<1>10. CASE \E t \in Task : SkipUnclaimable(w, t)
  BY <1>10, SkipBoard
<1>11. CASE EndPass(w)
  <2>1. EndRun(w) /\ UNCHANGED ledger /\ worker[w].pc = "next"
    BY <1>11 DEF EndPass, At, ledgerVars
  <2> QED
    BY <2>1, EndRunBoard
<1>12. CASE BeginTask(w)
  BY <1>12, BeginTaskBoard
<1>13. CASE CompleteTask(w)
  BY <1>13, CompleteTaskBoard
<1>14. CASE CloseTask(w)
  BY <1>14, CloseTaskBoard
<1>15. CASE FailTask(w)
  BY <1>15, FailTaskBoard
<1>16. CASE Crash(w)
  BY <1>16, CrashBoard
<1> QED
  BY <1>1, <1>2, <1>3, <1>4, <1>5, <1>6, <1>7, <1>8, <1>9, <1>10, <1>11, <1>12,
     <1>13, <1>14, <1>15, <1>16 DEF WorkerStep

-----------------------------------------------------------------------------
(* The calls *)

\* A step of a call: what it owes to BoardInv, and what to the repairs of others.
LEMMA CallFrame ==
  ASSUME BoardInv, OrderlyInv', UNCHANGED worker, NEW c \in Callers,
         \A d \in Callers : d # c => caller'[d] = caller[d],
         \A t \in Task : ledger'[t].status = "absent" => Status(t) = "absent",
         \A d \in Callers : d # c /\ caller[d].pc = "write" =>
            caller[d].deps \subseteq ledger'[caller[d].job].deps,
         \A t \in Task : Status(t) = "accepted" =>
            /\ ledger'[t].attempts = ledger[t].attempts
            /\ ledger'[t].deps \subseteq ledger[t].deps,
         \A t \in Task : /\ ledger'[t].deps \subseteq InitialDeps[t]
                         /\ ledger'[t].status = "absent" => ledger'[t].deps = {},
         caller'[c].pc \in {"repair", "write"} => ledger'[caller'[c].job].status # "absent",
         caller'[c].pc = "write" => caller'[c].deps \subseteq ledger'[caller'[c].job].deps
  PROVE  BoardInv' /\ \A t \in Task : Holder(t)' = Holder(t)
<1>1. CopiesRestore'
  <2> SUFFICES ASSUME OneWorkerPerAgent, NEW w \in Workers, NEW t \in RememberedIn(worker[w])
               PROVE  Restores(worker[w].copy[t], t, ledger'[t])
    BY DEF CopiesRestore, RememberedIn, Restores, OneWorkerPerAgent
  <2>1. t \in worker[w].inbox
    BY BoardFacts DEF RememberedIn
  <2>2. t \in Task /\ Status(t) = "accepted"
    BY <2>1, WorkerFacts DEF BoardInv, WorkerState
  <2>3. Restores(worker[w].copy[t], t, ledger[t])
    BY BoardFacts
  <2> QED
    BY <2>2, <2>3 DEF Restores
<1>2. DepsAreGiven'
  BY DEF DepsAreGiven, Status
<1>3. RepairsOnlyRemove'
  <2>1. ASSUME NEW d \in Callers, d # c, caller[d].pc \in {"repair", "write"}
        PROVE  ledger'[caller[d].job].status # "absent"
    <3>1. caller[d].job \in Task /\ Status(caller[d].job) # "absent"
      BY <2>1, ServingType DEF BoardInv, OrderlyInv, RepairsOnlyRemove
    <3> QED
      BY <3>1
  <2> QED
    BY <2>1 DEF RepairsOnlyRemove, Status
<1>4. \A w \in Workers, t \in Task : Holds(w, t)' <=> Holds(w, t)
  BY DEF Holds
<1>5. \A t \in Task : Holder(t)' = Holder(t)
  BY <1>4, HoldersStay DEF BoardInv
<1> QED
  BY <1>1, <1>2, <1>3, <1>5 DEF BoardInv

\* A step of a call that leaves the rows alone.
LEMMA QuietCallBoard ==
  ASSUME BoardInv, OrderlyInv', UNCHANGED <<ledger, worker>>, NEW c \in Callers,
         \A d \in Callers : d # c => caller'[d] = caller[d],
         caller'[c].pc \in {"repair", "write"} => Status(caller'[c].job) # "absent",
         caller'[c].pc = "write" => caller'[c].deps \subseteq ledger[caller'[c].job].deps
  PROVE  BoardInv' /\ UNCHANGED Board!vars
<1>1. \A t \in Task : /\ ledger'[t].deps \subseteq InitialDeps[t]
                      /\ ledger'[t].status = "absent" => ledger'[t].deps = {}
  BY DEF BoardInv, DepsAreGiven, Status
<1>2. BoardInv' /\ \A t \in Task : Holder(t)' = Holder(t)
  <2>1. \A d \in Callers : caller[d].pc = "write" =>
           caller[d].deps \subseteq ledger'[caller[d].job].deps
    BY DEF BoardInv, RepairsOnlyRemove
  <2> QED
    BY <1>1, <2>1, CallFrame DEF Status
<1>3. \A t \in Task : Place(t)' = Place(t) /\ Needs(t)' = Needs(t)
  BY RowsStay
<1> QED
  BY <1>2, <1>3 DEF Board!vars

LEMMA SendBoard ==
  ASSUME BoardInv, OrderlyInv', "resend" \notin Endpoints,
         NEW c \in Callers, NEW t \in Task, Send(c, t)
  PROVE  BoardInv' /\ Board!Next
<1>1. /\ Status(t) = "absent" /\ caller[c] = NoCall
      /\ RecordAgentMessage(t, NewMessage(t)) /\ UNCHANGED worker
      /\ Continue(c, "gate", t, {}) \/ UNCHANGED caller
  BY DEF Send, Idle
<1>2. /\ caller'[c].pc \notin {"repair", "write"}
      /\ \A d \in Callers : d # c => caller'[d] = caller[d]
  BY <1>1, CallFacts, ContinueEffect DEF NoCall, BoardInv
<1>3. \A u \in Task : ledger'[u] = IF u = t THEN NewMessage(t) ELSE ledger[u]
  BY <1>1, BoardFacts, LedgerFacts, RecordEffect DEF Untouched, BoardInv
<1>4. NewMessage(t).deps = InitialDeps[t] /\ NewMessage(t).status = "accepted"
  BY DEF NewMessage, NoRow
<1>5. BoardInv' /\ \A u \in Task : Holder(u)' = Holder(u)
  <2>1. \A u \in Task : /\ ledger'[u].deps \subseteq InitialDeps[u]
                        /\ ledger'[u].status = "absent" => ledger'[u].deps = {}
    BY <1>3, <1>4 DEF BoardInv, DepsAreGiven, Status
  <2>2. \A u \in Task : Status(u) = "accepted" =>
            /\ ledger'[u].attempts = ledger[u].attempts
            /\ ledger'[u].deps \subseteq ledger[u].deps
    BY <1>1, <1>3
  <2>3. \A d \in Callers : caller[d].pc = "write" =>
           caller[d].deps \subseteq ledger'[caller[d].job].deps
    <3> SUFFICES ASSUME NEW d \in Callers, caller[d].pc = "write"
                 PROVE  caller[d].deps \subseteq ledger'[caller[d].job].deps
      OBVIOUS
    <3>1. /\ caller[d].job \in Task /\ Status(caller[d].job) # "absent"
          /\ caller[d].deps \subseteq ledger[caller[d].job].deps
      BY ServingType DEF BoardInv, OrderlyInv, RepairsOnlyRemove
    <3> QED
      BY <1>1, <1>3, <3>1
  <2>4. \A u \in Task : ledger'[u].status = "absent" => Status(u) = "absent"
    BY <1>1, <1>3 DEF Status
  <2> QED
    BY <1>1, <1>2, <2>1, <2>2, <2>3, <2>4, CallFrame
<1>6. /\ Place(t) = "absent" /\ Place(t)' = "open"
      /\ \A u \in Task : u # t => Place(u)' = Place(u) /\ Needs(u)' = Needs(u)
  <2>1. Status(t)' = "accepted"
    BY <1>3, <1>4 DEF Status
  <2> QED
    BY <1>1, <1>3, <2>1, PlaceMap, PlaceMapNext, RowStays DEF PlacesShowStatus
<1>7. Needs(t)' = Needs(t)
  BY <1>1, <1>3, <1>4 DEF Needs, Status
<1>8. Board!Post(t)
  <2>1. Board!Move({t}, "absent", "open")
    BY <1>6, MoveMap
  <2> QED
    BY <1>5, <1>6, <1>7, <2>1 DEF Board!Post
<1> QED
  BY <1>5, <1>8 DEF Board!Next

LEMMA ApplyRetryBoard ==
  ASSUME BoardInv, OrderlyInv', NEW c \in Callers, ApplyRetry(c)
  PROVE  BoardInv' /\ Board!Next
<1>0. /\ caller[c].pc = "retry" /\ UNCHANGED worker
      /\ Continue(c, "resume", caller[c].job, {})
      /\ \E reset \in BOOLEAN, max \in 1 .. MaxAttempts :
           AuthorizeAgentMessageRetry(caller[c].job, reset, max)
  BY DEF ApplyRetry, Serving
<1>1. PICK t \in Task : caller[c].job = t
  BY <1>0, CallFacts, ServingType DEF BoardInv
<1>2. Status(t) \in Retriable
  BY <1>0, <1>1, CallFacts DEF BoardInv
<1>3. /\ caller'[c].pc = "resume"
      /\ \A d \in Callers : d # c => caller'[d] = caller[d]
  BY <1>0, CallFacts, ContinueEffect DEF BoardInv
<1>4. \A u \in Task :
        IF u \in {t} THEN ledger'[u].status = "accepted" /\ ledger'[u].deps = ledger[u].deps
                     ELSE ledger'[u] = ledger[u]
  BY <1>0, <1>1, LedgerFacts, RetryEffect DEF Untouched, BoardInv
<1>5. /\ \A u \in Task : Place(u)' = IF u \in {t} THEN "open" ELSE Place(u)
      /\ \A u \in Task : Needs(u)' = Needs(u)
      /\ \A u \in Task : /\ ledger'[u].deps \subseteq InitialDeps[u]
                         /\ ledger'[u].status = "absent" <=> Status(u) = "absent"
                         /\ Status(u) = "absent" => ledger'[u].deps = {}
  <2>1. PICK S \in SUBSET Task : S = {t}
    OBVIOUS
  <2>2. \A u \in S : Status(u) # "absent"
    BY <1>2, <2>1 DEF Retriable
  <2>3. \A u \in Task :
          IF u \in S THEN ledger'[u].status = "accepted" /\ ledger'[u].deps = ledger[u].deps
                     ELSE ledger'[u] = ledger[u]
    BY <1>4, <2>1
  <2>4. /\ \A u \in Task : Place(u)' = IF u \in S THEN "open" ELSE Place(u)
        /\ \A u \in Task : Needs(u)' = Needs(u)
        /\ \A u \in Task : /\ ledger'[u].deps \subseteq InitialDeps[u]
                           /\ ledger'[u].status = "absent" <=> Status(u) = "absent"
                           /\ Status(u) = "absent" => ledger'[u].deps = {}
    BY <2>2, <2>3, RowsMove
  <2> QED
    BY <2>1, <2>4
<1>6. BoardInv' /\ \A u \in Task : Holder(u)' = Holder(u)
  <2>1. \A u \in Task : Status(u) = "accepted" =>
            /\ ledger'[u].attempts = ledger[u].attempts
            /\ ledger'[u].deps \subseteq ledger[u].deps
    BY <1>2, <1>4 DEF Retriable
  <2>2. \A d \in Callers : caller[d].pc = "write" =>
           caller[d].deps \subseteq ledger'[caller[d].job].deps
    <3> SUFFICES ASSUME NEW d \in Callers, caller[d].pc = "write"
                 PROVE  caller[d].deps \subseteq ledger'[caller[d].job].deps
      OBVIOUS
    <3>1. /\ caller[d].job \in Task
          /\ caller[d].deps \subseteq ledger[caller[d].job].deps
      BY ServingType DEF BoardInv, OrderlyInv, RepairsOnlyRemove
    <3> QED
      BY <1>4, <3>1
  <2> QED
    BY <1>0, <1>3, <1>5, <2>1, <2>2, CallFrame
<1>7. Place(t) = "stopped"
  BY <1>2, PlaceMap DEF PlacesShowStatus, Retriable
<1>8. Board!Readmit(t)
  <2>1. Board!Move({t}, "stopped", "open")
    BY <1>5, <1>7, MoveMap
  <2> QED
    BY <1>5, <1>6, <2>1 DEF Board!Readmit
<1> QED
  BY <1>6, <1>8 DEF Board!Next

LEMMA RepairKeepsAttempts ==
  ASSUME ledger \in [Task -> Row], NEW t \in Task, NEW remaining,
         WriteRemainingDependencies(t, remaining)
  PROVE  ledger'[t].attempts = ledger[t].attempts
<1>1. \A r \in Row : \A b :
        [r EXCEPT !.deps = remaining, !.claimedBy = b].attempts = r.attempts
  BY DEF Row
<1> QED
  BY ZenonT(60), <1>1 DEF WriteRemainingDependencies, UpdateRows

LEMMA WriteRepairBoard ==
  ASSUME BoardInv, OrderlyInv', RepairsDoNotOverlap, NEW c \in Callers, WriteRepair(c)
  PROVE  BoardInv' /\ Board!Next
<1>0. /\ caller[c].pc = "write" /\ UNCHANGED worker
      /\ Continue(c, "resume", caller[c].job, {})
      /\ WriteRemainingDependencies(caller[c].job, caller[c].deps)
  BY DEF WriteRepair, Serving
<1>1. PICK t \in Task : caller[c].job = t
  BY <1>0, CallFacts, ServingType DEF BoardInv
<1>2. PICK remaining \in SUBSET Task : caller[c].deps = remaining
  BY <1>0, CallFacts, ServingType DEF BoardInv
<1>3. /\ caller'[c].pc = "resume"
      /\ \A d \in Callers : d # c => caller'[d] = caller[d]
  BY <1>0, CallFacts, ContinueEffect DEF BoardInv
<1>4. Status(t) # "absent" /\ remaining \subseteq ledger[t].deps
  BY <1>0, <1>1, <1>2 DEF BoardInv, RepairsOnlyRemove
<1>5. /\ ledger'[t].status = Status(t) /\ ledger'[t].deps = remaining
      /\ ledger'[t].attempts = ledger[t].attempts
      /\ \A u \in Task : u # t => ledger'[u] = ledger[u]
  BY <1>0, <1>1, <1>2, LedgerFacts, RepairEffect, RepairKeepsAttempts
  DEF Untouched, BoardInv, Status
<1>6. BoardInv' /\ \A u \in Task : Holder(u)' = Holder(u)
  <2>1. \A u \in Task : /\ ledger'[u].deps \subseteq InitialDeps[u]
                        /\ ledger'[u].status = "absent" => ledger'[u].deps = {}
    BY <1>4, <1>5 DEF BoardInv, DepsAreGiven, Status
  <2>2. \A u \in Task : Status(u) = "accepted" =>
            /\ ledger'[u].attempts = ledger[u].attempts
            /\ ledger'[u].deps \subseteq ledger[u].deps
    BY <1>4, <1>5
  <2>3. \A d \in Callers : d # c /\ caller[d].pc = "write" =>
           caller[d].deps \subseteq ledger'[caller[d].job].deps
    <3> SUFFICES ASSUME NEW d \in Callers, d # c, caller[d].pc = "write"
                 PROVE  caller[d].deps \subseteq ledger'[caller[d].job].deps
      OBVIOUS
    <3>1. /\ caller[d].job \in Task
          /\ caller[d].deps \subseteq ledger[caller[d].job].deps
      BY ServingType DEF BoardInv, OrderlyInv, RepairsOnlyRemove
    <3>2. caller[d].job # t
      BY <1>0, <1>1 DEF RepairsDoNotOverlap, Overlapping, Serving
    <3> QED
      BY <1>5, <3>1, <3>2
  <2>4. \A u \in Task : ledger'[u].status = "absent" => Status(u) = "absent"
    BY <1>5 DEF Status
  <2> QED
    BY <1>0, <1>3, <2>1, <2>2, <2>3, <2>4, CallFrame
<1>7. \A u \in Task : Place(u)' = Place(u)
  <2>1. Place(t)' = Place(t)
    BY <1>5 DEF Place, Status
  <2> QED
    BY <1>5, <2>1, RowStays
<1>8. /\ Needs(t) = ledger[t].deps /\ Needs(t)' = remaining
      /\ \A u \in Task : u # t => Needs(u)' = Needs(u)
  <2>1. ledger'[t].status # "absent"
    BY <1>4, <1>5
  <2> QED
    BY <1>4, <1>5, <2>1, NeedsStay, RowStays
<1>9. Board!Revise(t, remaining)
  BY <1>4, <1>6, <1>7, <1>8 DEF Board!Revise
<1> QED
  BY <1>6, <1>9 DEF Board!Next

LEMMA CallerBoard ==
  ASSUME BoardInv, OrderlyInv', RepairsDoNotOverlap, Endpoints \subseteq {"send", "retry", "repair"},
         CallerNext
  PROVE  BoardInv' /\ [Board!Next]_(Board!vars)
<1>1. PICK c \in Callers :
        \/ \E t \in Task : Send(c, t)
        \/ \E t \in Task, s \in TaskStatus \ {"absent"}, a \in Agents : PostStatus(c, t, s, a)
        \/ \E t \in Task : CheckRetry(c, t)
        \/ \E t \in Task, ids \in SUBSET Task : CheckRepair(c, t, ids)
        \/ CallStep(c)
        \/ DropCall(c)
  BY DEF CallerNext
<1>2. CASE \E t \in Task : Send(c, t)
  BY <1>2, SendBoard
<1>3. ASSUME NEW t, NEW s, NEW a, PostStatus(c, t, s, a)
      PROVE  FALSE
  BY <1>3 DEF PostStatus, Idle
<1>4. ASSUME NEW t \in Task, CheckRetry(c, t)
      PROVE  BoardInv' /\ UNCHANGED Board!vars
  <2>1. Continue(c, "retry", t, {}) /\ UNCHANGED <<ledger, worker>>
    BY <1>4 DEF CheckRetry, ledgerVars
  <2> QED
    BY <2>1, CallFacts, ContinueEffect, QuietCallBoard DEF BoardInv
<1>5. ASSUME NEW t \in Task, NEW ids \in SUBSET Task, CheckRepair(c, t, ids)
      PROVE  BoardInv' /\ UNCHANGED Board!vars
  <2>1. /\ Continue(c, "repair", t, ids) /\ UNCHANGED <<ledger, worker>>
        /\ ids \cap ledger[t].deps # {}
    BY <1>5 DEF CheckRepair, ledgerVars
  <2>2. Status(t) # "absent"
    BY <2>1 DEF BoardInv, DepsAreGiven
  <2>3. caller'[c].pc = "repair" /\ caller'[c].job = t
    BY <2>1, CallFacts, ContinueEffect DEF BoardInv
  <2>4. \A d \in Callers : d # c => caller'[d] = caller[d]
    BY <2>1, CallFacts, ContinueEffect DEF BoardInv
  <2> QED
    BY <2>1, <2>2, <2>3, <2>4, QuietCallBoard
<1>6. CASE OpenGate(c) \/ ResumeRun(c) \/ DropCall(c)
  <2>1. EndCall(c) /\ UNCHANGED <<ledger, worker>>
    BY <1>6 DEF OpenGate, ResumeRun, DropCall, ledgerVars
  <2> QED
    BY <2>1, CallFacts, EndCallEffect, QuietCallBoard DEF BoardInv
<1>7. CASE ApplyRetry(c)
  BY <1>7, ApplyRetryBoard
<1>8. CASE ReadRepair(c)
  <2>1. /\ UNCHANGED <<ledger, worker>> /\ caller[c].pc = "repair"
        /\ \/ Continue(c, "resume", caller[c].job, {})
           \/ Continue(c, "write", caller[c].job,
                       ledger[caller[c].job].deps \ caller[c].deps)
    BY <1>8 DEF ReadRepair, Serving, ledgerVars
  <2>2. Status(caller[c].job) # "absent"
    BY <2>1 DEF BoardInv, RepairsOnlyRemove
  <2>3. \/ caller'[c].pc = "resume"
        \/ /\ caller'[c].pc = "write" /\ caller'[c].job = caller[c].job
           /\ caller'[c].deps = ledger[caller[c].job].deps \ caller[c].deps
    BY <2>1, CallFacts, ContinueEffect DEF BoardInv
  <2>4. \A d \in Callers : d # c => caller'[d] = caller[d]
    BY <2>1, CallFacts, ContinueEffect DEF BoardInv
  <2> QED
    BY <2>1, <2>2, <2>3, <2>4, QuietCallBoard
<1>9. CASE WriteRepair(c)
  BY <1>9, WriteRepairBoard
<1> QED
  BY <1>1, <1>2, <1>3, <1>4, <1>5, <1>6, <1>7, <1>8, <1>9 DEF CallStep

-----------------------------------------------------------------------------
(* The theorems *)

\* Every step of an orderly deployment is a move of the board, or none, or the
\* failure of the event after a COMPLETED write.
BoardMove == [Board!Next]_(Board!vars) \/ \E w \in Workers : EventFails(w)

LEMMA BoardStep ==
  ASSUME Orderly, RetriesDoNotOverlap, RepairsDoNotOverlap, BoardInv, [Next]_vars
  PROVE  BoardInv' /\ BoardMove
<1> USE DEF BoardMove
<1>1. OrderlyInv'
  BY OrderlyNext DEF BoardInv
<1>2. ASSUME UNCHANGED <<ledger, worker, caller>>
      PROVE  BoardInv' /\ UNCHANGED Board!vars
  <2>1. CopiesRestore' /\ DepsAreGiven' /\ RepairsOnlyRemove'
    BY <1>2 DEF BoardInv, CopiesRestore, RememberedIn, Restores, DepsAreGiven,
                RepairsOnlyRemove, Status, OneWorkerPerAgent
  <2>2. \A w \in Workers, t \in Task : Holds(w, t)' <=> Holds(w, t)
    BY <1>2 DEF Holds
  <2> QED
    BY <1>1, <1>2, <2>1, <2>2, RowsStay, Stutters DEF BoardInv
<1>3. ASSUME NEW w \in Workers, UNCHANGED caller, NEW ids, NEW recover,
             StartPass(w, ids, recover)
      PROVE  BoardInv' /\ UNCHANGED Board!vars
  BY <1>1, <1>3, StartPassBoard
<1>4. ASSUME NEW w \in Workers, UNCHANGED caller, WorkerStep(w) \/ Crash(w)
      PROVE  BoardInv' /\ BoardMove
  BY <1>1, <1>4, WorkerBoard DEF Orderly
<1>5. CASE CallerNext
  BY <1>1, <1>5, CallerBoard DEF Orderly
<1>6. CASE \E t \in Task : Age(t)
  BY <1>2, <1>6 DEF Age, GrowStale
<1>7. CASE UNCHANGED vars
  BY <1>2, <1>7 DEF vars
<1> QED
  BY <1>3, <1>4, <1>5, <1>6, <1>7 DEF Next, WorkerNext

LEMMA BoardBegins == Init => Board!Init
<1> SUFFICES ASSUME Init PROVE Board!Init
  OBVIOUS
<1>1. OrderlyInv
  BY OrderlyInit
<1>2. \A t \in Task : Status(t) = "absent" /\ \A w \in Workers : ~Holds(w, t)
  BY DEF Init, LedgerInit, WorkerInit, IdleWorker, NoRow, Status, Holds
<1>3. \A t \in Task : Place(t) = "absent" /\ Holder(t) = NoAgent
  BY <1>1, <1>2, PlaceMap, HolderMap DEF PlacesShowStatus, HoldersAreHolding
<1>4. \A t \in Task : Needs(t) = InitialDeps[t]
  BY <1>2 DEF Needs
<1> QED
  BY <1>3, <1>4, LedgerAssumption DEF Board!Init

LEMMA BoardInductive ==
  ASSUME Orderly
  PROVE  Spec /\ []RetriesDoNotOverlap /\ []RepairsDoNotOverlap => []BoardInv
<1>1. RetriesDoNotOverlap /\ RepairsDoNotOverlap /\ BoardInv /\ [Next]_vars => BoardInv'
  BY BoardStep
<1> QED
  BY <1>1, BoardInit, PTL DEF Spec

\* For any tasks, agents, workers, batches and snapshot limits: in an orderly
\* deployment whose events do not fail, sweeps, claims, write-backs, sends,
\* retries, repairs and crashes amount to moves of the abstract board.
THEOREM LedgerIsABoard ==
  ASSUME Orderly, ~EventFailures
  PROVE  Spec /\ []RetriesDoNotOverlap /\ []RepairsDoNotOverlap => ImplementsTaskBoard
<1>1. RetriesDoNotOverlap /\ RepairsDoNotOverlap /\ BoardInv /\ [Next]_vars =>
        BoardInv' /\ [Board!Next]_(Board!vars)
  BY BoardStep DEF BoardMove, EventFails
<1> QED
  BY <1>1, BoardInit, BoardBegins, PTL DEF Spec, ImplementsTaskBoard, Board!Spec

\* What is proved of the abstract board.
Promise == INSTANCE TaskBoardProofs
    WITH Nobody <- NoAgent, Deps <- InitialDeps,
         board <- [t \in Task |-> Place(t)],
         holder <- [t \in Task |-> Holder(t)],
         needs <- [t \in Task |-> Needs(t)]

LEMMA SameMoves ==
  \A S \in SUBSET Task : \A from, to : Board!Move(S, from, to) => Promise!Move(S, from, to)
  BY DEF Board!Move, Promise!Move

LEMMA SameBoard ==
  /\ Board!Init => Promise!Init
  /\ [Board!Next]_(Board!vars) => [Promise!Next]_(Promise!vars)
<1>1. Board!Init => Promise!Init
  BY DEF Board!Init, Promise!Init
<1>2. ASSUME NEW t \in Task
      PROVE  /\ Board!Post(t) => Promise!Post(t)
             /\ Board!Readmit(t) => Promise!Readmit(t)
  BY SameMoves DEF Board!Post, Promise!Post, Board!Readmit, Promise!Readmit
<1>3. ASSUME NEW t \in Task, NEW w \in Workers
      PROVE  /\ Board!Take(t, w) => Promise!Take(t, w)
             /\ Board!Finish(t, w) => Promise!Finish(t, w)
             /\ Board!Vanish(t, w) => Promise!Vanish(t, w)
  BY SameMoves DEF Board!Take, Promise!Take, Board!Finish, Promise!Finish,
                   Board!Vanish, Promise!Vanish
<1>4. ASSUME NEW S \in SUBSET Task
      PROVE  /\ Board!Reopen(S) => Promise!Reopen(S)
             /\ Board!Stop(S) => Promise!Stop(S)
  BY SameMoves DEF Board!Reopen, Promise!Reopen, Board!Stop, Promise!Stop
<1>5. ASSUME NEW t \in Task, NEW S \in SUBSET Task
      PROVE  Board!Revise(t, S) => Promise!Revise(t, S)
  BY DEF Board!Revise, Promise!Revise
<1>6. UNCHANGED Board!vars => UNCHANGED Promise!vars
  BY DEF Board!vars, Promise!vars
<1>7. ASSUME Board!Next PROVE Promise!Next
  <2>1. ASSUME NEW t \in Task, Board!Post(t) \/ Board!Readmit(t) PROVE Promise!Next
    BY <1>2, <2>1 DEF Promise!Next
  <2>2. ASSUME NEW t \in Task, NEW w \in Workers,
               Board!Take(t, w) \/ Board!Finish(t, w) \/ Board!Vanish(t, w)
        PROVE  Promise!Next
    <3>1. Promise!Take(t, w) \/ Promise!Finish(t, w) \/ Promise!Vanish(t, w)
      BY <1>3, <2>2
    <3> QED
      BY <3>1 DEF Promise!Next
  <2>3. ASSUME NEW S \in SUBSET Task, Board!Reopen(S) \/ Board!Stop(S) PROVE Promise!Next
    <3>1. Promise!Reopen(S) \/ Promise!Stop(S)
      BY <1>4, <2>3
    <3> QED
      BY <3>1 DEF Promise!Next
  <2>4. ASSUME NEW t \in Task, NEW S \in SUBSET Task, Board!Revise(t, S) PROVE Promise!Next
    BY <1>5, <2>4 DEF Promise!Next
  <2> QED
    BY <1>7, <2>1, <2>2, <2>3, <2>4 DEF Board!Next
<1> QED
  BY <1>1, <1>6, <1>7

LEMMA HeldBoardTasks ==
  BoardInv /\ Promise!HeldTasksAreReady => UpstreamStaysDone
<1> SUFFICES ASSUME BoardInv, Promise!HeldTasksAreReady,
                    NEW w \in Workers, NEW t \in Task, Holds(w, t), NEW d \in ledger[t].deps
             PROVE  Status(d) = "completed"
  BY DEF UpstreamStaysDone
<1>1. d \in Task /\ Status(d) \in TaskStatus
  BY BoardFacts DEF Row, Status
<1>2. Holder(t) = w /\ w # NoAgent
  BY HeldIsTaken, RefinementAssumption DEF BoardInv
<1>3. Status(t) # "absent"
  BY DEF BoardInv, OrderlyInv, HeldRowsAreMarked, StaleRecoverable
<1>4. Needs(t) = ledger[t].deps
  BY <1>3 DEF Needs
<1>5. Place(d) = "done"
  BY <1>1, <1>2, <1>4 DEF Promise!HeldTasksAreReady
<1> QED
  BY <1>1, <1>5, PlaceMap DEF PlacesShowStatus, TaskStatus

\* What a task under way depends on stays completed, as on any task board.
THEOREM UpstreamDone ==
  ASSUME Orderly, ~EventFailures
  PROVE  Spec /\ []RetriesDoNotOverlap /\ []RepairsDoNotOverlap => []UpstreamStaysDone
<1>1. Spec /\ []RetriesDoNotOverlap /\ []RepairsDoNotOverlap => Promise!Spec
  BY LedgerIsABoard, SameBoard, PTL DEF ImplementsTaskBoard, Board!Spec, Promise!Spec
<1>2. Promise!Spec => []Promise!HeldTasksAreReady
  BY RefinementAssumption, LedgerAssumption, Promise!BoardKeepsUpstreamDone
<1>3. Spec /\ []RetriesDoNotOverlap /\ []RepairsDoNotOverlap => []BoardInv
  BY BoardInductive, PTL
<1> QED
  BY <1>1, <1>2, <1>3, HeldBoardTasks, PTL

-----------------------------------------------------------------------------
(***************************************************************************)
(* What holds although repairs overlap.  Of two repairs of a task under    *)
(* way at once one is lost, and with it what the board promises of         *)
(* dependencies; completed tasks and attempts do not depend on them.       *)
(***************************************************************************)

LEMMA RememberedAreListed ==
  OrderlyInv => \A w \in Workers : \A t \in RememberedIn(worker[w]) :
      t \in Task /\ (OneWorkerPerAgent => Status(t) = "accepted")
<1> SUFFICES ASSUME OrderlyInv, NEW w \in Workers, NEW t \in RememberedIn(worker[w])
             PROVE  t \in Task /\ (OneWorkerPerAgent => Status(t) = "accepted")
  OBVIOUS
<1>1. t \in worker[w].inbox
  BY WorkerFacts DEF RememberedIn
<1> QED
  BY <1>1, WorkerFacts DEF WorkerState

LEMMA RememberedAreListedNext ==
  OrderlyInv' => \A w \in Workers : \A t \in RememberedIn(worker'[w]) :
      t \in Task /\ (OneWorkerPerAgent => ledger'[t].status = "accepted")
<1>1. OrderlyInv' => (\A w \in Workers : \A t \in RememberedIn(worker[w]) :
                        t \in Task /\ (OneWorkerPerAgent => Status(t) = "accepted"))'
  BY RememberedAreListed, PTL
<1> QED
  BY <1>1 DEF Status, RememberedIn, OneWorkerPerAgent

\* A worker in state s remembers of each message what w did, or what it reads.
Recalls(w, s) ==
    \A t \in RememberedIn(s) :
        \/ t \in RememberedIn(worker[w]) /\ s.copy[t] = worker[w].copy[t]
        \/ UNCHANGED ledger /\ Status(t) = "accepted" /\ s.copy[t] = ledger[t]

LEMMA RecallsLess ==
  ASSUME OrderlyInv, NEW w \in Workers, NEW s,
         s.copy = worker[w].copy, s.waiting = worker[w].waiting, s.inbox = worker[w].inbox,
         s.pc \in {"target", "snapshot"} =>
            worker[w].pc \in {"target", "snapshot"} \/ worker[w].inbox = {}
  PROVE  Recalls(w, s)
  BY WorkerFacts DEF Recalls, RememberedIn

LEMMA RecallsNothing == ASSUME NEW w PROVE Recalls(w, IdleWorker)
<1>1. IdleWorker.pc = "idle" /\ IdleWorker.waiting = {}
  BY DEF IdleWorker
<1> QED
  BY <1>1 DEF Recalls, RememberedIn

LEMMA GotoRecalls ==
  ASSUME OrderlyInv, NEW w \in Workers, NEW label, Goto(w, label),
         label \in {"target", "snapshot"} =>
            worker[w].pc \in {"target", "snapshot"} \/ worker[w].inbox = {}
  PROVE  \E s : Become(w, s) /\ Recalls(w, s)
<1> DEFINE s == [worker[w] EXCEPT !.pc = label]
<1>1. /\ s.pc = label /\ s.inbox = worker[w].inbox
      /\ s.waiting = worker[w].waiting /\ s.copy = worker[w].copy
  BY WorkerFacts DEF WorkerState
<1>2. Become(w, s)
  BY DEF Goto
<1> HIDE DEF s
<1> QED
  BY <1>1, <1>2, RecallsLess

LEMMA NextMessageRecalls ==
  ASSUME OrderlyInv, NEW w \in Workers, NextMessage(w)
  PROVE  \E s : Become(w, s) /\ Recalls(w, s)
<1> DEFINE s == [worker[w] EXCEPT !.pc = "next", !.job = NoTask]
<1>1. /\ s.pc = "next" /\ s.inbox = worker[w].inbox
      /\ s.waiting = worker[w].waiting /\ s.copy = worker[w].copy
  BY WorkerFacts DEF WorkerState
<1>2. Become(w, s)
  BY DEF NextMessage
<1> HIDE DEF s
<1> QED
  BY <1>1, <1>2, RecallsLess

LEMMA StartPassRecalls ==
  ASSUME OrderlyInv, NEW w \in Workers, NEW ids, NEW recover, StartPass(w, ids, recover)
  PROVE  \E s : Become(w, s) /\ Recalls(w, s)
<1> DEFINE label == IF ids # {} THEN "target" ELSE IF recover THEN "recover" ELSE "block"
           named == ids # {}
           s == [worker[w] EXCEPT !.targeted = named, !.unread = ids, !.pc = label]
<1>1. Become(w, s) /\ worker[w].pc = "idle"
  BY DEF StartPass, At
<1> HIDE DEF label, named
<1>2. /\ s.pc = label /\ s.inbox = worker[w].inbox
      /\ s.waiting = worker[w].waiting /\ s.copy = worker[w].copy
  BY WorkerFacts DEF WorkerState
<1> HIDE DEF s
<1>3. worker[w].inbox = {}
  BY <1>1, WorkerFacts
<1> QED
  BY <1>1, <1>2, <1>3, RecallsLess

LEMMA ReadTargetRecalls ==
  ASSUME OrderlyInv, NEW w \in Workers, NEW t \in Task, ReadTarget(w, t)
  PROVE  \E s : Become(w, s) /\ Recalls(w, s)
<1>1. UNCHANGED ledger /\ worker[w].pc = "target"
  BY DEF ReadTarget, At, ledgerVars
<1>2. worker[w].copy \in [Task -> Row] /\ worker[w].inbox \subseteq Task
  BY WorkerFacts DEF WorkerState
<1>3. CASE Become(w, [worker[w] EXCEPT !.unread = @ \ {t}])
  <2> DEFINE s == [worker[w] EXCEPT !.unread = @ \ {t}]
  <2>1. /\ s.pc = "target" /\ s.inbox = worker[w].inbox
        /\ s.waiting = worker[w].waiting /\ s.copy = worker[w].copy
    BY <1>1, WorkerFacts DEF WorkerState
  <2>2. Become(w, s)
    BY <1>3
  <2> HIDE DEF s
  <2> QED
    BY <1>1, <2>1, <2>2, RecallsLess
<1>4. CASE /\ t \in AcceptedInbox(WorkerAgent[w])
           /\ Become(w, [worker[w] EXCEPT !.unread = @ \ {t}, !.inbox = @ \cup {t},
                                          !.copy = [@ EXCEPT ![t] = ledger[t]]])
  <2> DEFINE s == [worker[w] EXCEPT !.unread = @ \ {t}, !.inbox = @ \cup {t},
                                    !.copy = [@ EXCEPT ![t] = ledger[t]]]
  <2>1. /\ s.pc = "target" /\ s.inbox = worker[w].inbox \cup {t}
        /\ s.copy = [worker[w].copy EXCEPT ![t] = ledger[t]]
    BY <1>1, WorkerFacts DEF WorkerState
  <2>2. Become(w, s) /\ Status(t) = "accepted"
    BY <1>4 DEF AcceptedInbox
  <2> HIDE DEF s
  <2>3. Recalls(w, s)
    BY <1>1, <1>2, <2>1, <2>2 DEF Recalls, RememberedIn
  <2> QED
    BY <2>2, <2>3
<1> QED
  BY <1>3, <1>4 DEF ReadTarget

LEMMA ListInboxRecalls ==
  ASSUME OrderlyInv, NEW w \in Workers, ListInbox(w)
  PROVE  \E s : Become(w, s) /\ Recalls(w, s)
<1> DEFINE batch == Oldest(AcceptedInbox(WorkerAgent[w]), BatchLimit)
           rows == [t \in Task |-> IF t \in batch THEN ledger[t] ELSE NoRow]
           s == [worker[w] EXCEPT !.inbox = batch, !.copy = rows, !.pc = "snapshot"]
<1>1. \A t \in batch : Status(t) = "accepted" /\ rows[t] = ledger[t]
  BY DEF Oldest, AcceptedInbox
<1>2. (EndRun(w) \/ Become(w, s)) /\ UNCHANGED ledger
  BY DEF ListInbox, ledgerVars
<1> HIDE DEF batch, rows
<1>3. s.pc = "snapshot" /\ s.inbox = batch /\ s.copy = rows
  BY WorkerFacts DEF WorkerState
<1> HIDE DEF s
<1>4. Recalls(w, s)
  BY <1>1, <1>2, <1>3 DEF Recalls, RememberedIn
<1> QED
  BY <1>2, <1>4, RecallsNothing DEF EndRun

LEMMA SnapshotRecalls ==
  ASSUME OrderlyInv, NEW w \in Workers, Snapshot(w)
  PROVE  \E s : Become(w, s) /\ Recalls(w, s)
<1> DEFINE unmet == {t \in worker[w].inbox : Unmet(worker[w].copy[t]) # {}}
           rows == [t \in Task |-> IF t \in unmet THEN worker[w].copy[t] ELSE NoRow]
           s == [worker[w] EXCEPT !.waiting = unmet, !.copy = rows, !.pc = "next"]
<1>1. \A t \in unmet : t \in worker[w].inbox /\ rows[t] = worker[w].copy[t]
  BY WorkerFacts DEF WorkerState
<1>2. Become(w, s) /\ worker[w].pc = "snapshot"
  BY DEF Snapshot, At
<1> HIDE DEF unmet, rows
<1>3. s.pc = "next" /\ s.waiting = unmet /\ s.copy = rows
  <2>1. \A q \in WorkerState :
          LET r == [q EXCEPT !.waiting = unmet, !.copy = rows, !.pc = "next"] IN
          r.pc = "next" /\ r.waiting = unmet /\ r.copy = rows
    BY DEF WorkerState
  <2> QED
    BY <2>1, WorkerFacts
<1> HIDE DEF s
<1>4. Recalls(w, s)
  BY <1>1, <1>2, <1>3 DEF Recalls, RememberedIn
<1> QED
  BY <1>2, <1>4

LEMMA HandledRecalls ==
  ASSUME OrderlyInv, NEW w \in Workers, NEW t \in Task, worker[w].pc = "next"
  PROVE  /\ Recalls(w, Handled(w, t))
         /\ Recalls(w, [Handled(w, t) EXCEPT !.pc = "claimed", !.job = t])
<1>1. /\ worker[w].copy \in [Task -> Row] /\ worker[w].waiting \subseteq Task
      /\ Handled(w, t).copy = [worker[w].copy EXCEPT ![t] = NoRow]
  BY WorkerFacts DEF Handled, WorkerState
<1>2. \A u \in Task \ {t} : Handled(w, t).copy[u] = worker[w].copy[u]
  BY <1>1
<1>3. /\ Handled(w, t).pc = "next" /\ Handled(w, t).waiting = worker[w].waiting \ {t}
      /\ Handled(w, t) \in WorkerState
  BY HandledFacts
<1> DEFINE s == [Handled(w, t) EXCEPT !.pc = "claimed", !.job = t]
<1>4. /\ s.pc = "claimed" /\ s.waiting = Handled(w, t).waiting
      /\ s.copy = Handled(w, t).copy
  BY <1>3 DEF WorkerState
<1> HIDE DEF s
<1>5. Recalls(w, Handled(w, t)) /\ Recalls(w, s)
  BY <1>1, <1>2, <1>3, <1>4 DEF Recalls, RememberedIn
<1> QED
  BY <1>5 DEF s

LEMMA StepRecalls ==
  ASSUME OrderlyInv, NEW w \in Workers, WorkerStep(w) \/ Crash(w)
  PROVE  \E s : Become(w, s) /\ Recalls(w, s)
<1>1. CASE Crash(w) \/ EndPass(w)
  BY <1>1, RecallsNothing DEF Crash, EndPass, EndRun
<1>2. CASE RecoverStale(w) \/ BlockExhausted(w) \/ ParkRun(w) \/ BeginTask(w) \/ CompleteTask(w)
  BY <1>2, GotoRecalls
  DEF RecoverStale, BlockExhausted, ParkRun, BeginTask, CompleteTask
<1>3. CASE TargetsRead(w)
  BY <1>3, RecallsNothing, GotoRecalls DEF TargetsRead, EndRun, At
<1>4. CASE \E t \in Task : ReadTarget(w, t)
  BY <1>4, ReadTargetRecalls
<1>5. CASE ListInbox(w)
  BY <1>5, ListInboxRecalls
<1>6. CASE Snapshot(w)
  BY <1>6, SnapshotRecalls
<1>7. CASE \E t \in Task : WaitOnDependencies(w, t) \/ Claim(w, t) \/ SkipUnclaimable(w, t)
  BY <1>7, HandledRecalls DEF WaitOnDependencies, Claim, SkipUnclaimable, IsNext, At
<1>8. CASE CloseTask(w) \/ FailTask(w)
  BY <1>8, NextMessageRecalls DEF CloseTask, FailTask
<1> QED
  BY <1>1, <1>2, <1>3, <1>4, <1>5, <1>6, <1>7, <1>8 DEF WorkerStep

-----------------------------------------------------------------------------
(* Completed tasks *)

\* No statement of a worker writes the row of a completed task, but for the
\* failure of the event with which the task is closed.
LEMMA WorkerKeepsCompleted ==
  ASSUME OrderlyInv, OneWorkerPerAgent \/ NoDependencies,
         NEW w \in Workers, WorkerStep(w) \/ Crash(w),
         NEW t \in Task, Status(t) = "completed", Status(t)' # "completed"
  PROVE  EventFails(w) /\ worker[w].job = t /\ Status(t)' = "failed"
<1>0. ledger \in [Task -> Row]
  BY LedgerFacts
<1>1. CASE RecoverStale(w)
  <2>1. PICK S \in SUBSET Task : /\ RecoverStaleAgentMessages(S)
                                 /\ \A u \in S : Status(u) \in StaleRecoverable
    BY <1>1 DEF RecoverStale, Batches, StaleTasks
  <2> QED
    BY <1>0, <2>1, RecoverEffect DEF Untouched, Status, StaleRecoverable
<1>2. CASE BlockExhausted(w)
  <2>1. PICK S \in SUBSET Task : /\ BlockExhaustedAgentMessages(S)
                                 /\ \A u \in S : Status(u) = "accepted"
    BY <1>2 DEF BlockExhausted, Batches, ExhaustedTasks, AcceptedInbox
  <2> QED
    BY <1>0, <2>1, BlockEffect DEF Untouched, Status
<1>3. ASSUME NEW u \in Task, WaitOnDependencies(w, u)
      PROVE  FALSE
  <2>1. u \in worker[w].waiting /\ RecordAgentMessage(u, worker[w].copy[u])
    BY <1>3 DEF WaitOnDependencies
  <2>2. Status(u) = "accepted"
    BY <2>1, WorkerFacts
  <2> QED
    BY <1>0, <2>1, <2>2, RecordEffect DEF Untouched, Status
<1>4. ASSUME NEW u \in Task, Claim(w, u)
      PROVE  FALSE
  <2>1. Status(u) = "accepted" /\ TryClaimAgentMessage(u, WorkerAgent[w])
    BY <1>4 DEF Claim, TryClaimAgentMessage, Claimable
  <2> QED
    BY <1>0, <2>1, ClaimEffect DEF Untouched, Status
<1>5. CASE BeginTask(w) \/ CompleteTask(w) \/ FailTask(w)
  <2>1. worker[w].pc \in {"claimed", "executing", "closing"}
    BY <1>5 DEF BeginTask, CompleteTask, FailTask, At
  <2>2. PICK s : UpdateAgentMessageStatus(worker[w].job, s, WorkerAgent[w])
    BY <1>5 DEF BeginTask, CompleteTask, FailTask, SetStatus
  <2>3. worker[w].job = t
    BY <1>0, <2>1, <2>2, JobFacts, StatusEffect DEF Untouched, Status
  <2>4. worker[w].pc = "closing"
    BY <2>1, <2>3, JobFacts DEF StaleRecoverable
  <2>5. EventFails(w) /\ UpdateAgentMessageStatus(t, "failed", WorkerAgent[w])
    BY <1>5, <2>3, <2>4 DEF BeginTask, CompleteTask, FailTask, At, EventFails, SetStatus
  <2> QED
    BY <1>0, <2>3, <2>5, StatusEffect DEF Status
<1>6. CASE \/ \E u \in Task : ReadTarget(w, u) \/ SkipUnclaimable(w, u)
           \/ TargetsRead(w) \/ ParkRun(w) \/ ListInbox(w) \/ Snapshot(w)
           \/ EndPass(w) \/ CloseTask(w) \/ Crash(w)
  BY <1>6
  DEF ReadTarget, SkipUnclaimable, TargetsRead, ParkRun, ListInbox, Snapshot,
      EndPass, CloseTask, Crash, ledgerVars, Status
<1> QED
  BY <1>1, <1>2, <1>3, <1>4, <1>5, <1>6 DEF WorkerStep

LEMMA CallerKeepsCompleted ==
  ASSUME OrderlyInv, Endpoints \subseteq {"send", "retry", "repair"}, CallerNext,
         NEW t \in Task, Status(t) = "completed"
  PROVE  Status(t)' = "completed"
<1>0. ledger \in [Task -> Row] /\ TypeOK
  BY LedgerFacts DEF OrderlyInv
<1>1. PICK c \in Callers :
        \/ \E u \in Task : Send(c, u)
        \/ \E u \in Task, s \in TaskStatus \ {"absent"}, a \in Agents : PostStatus(c, u, s, a)
        \/ \E u \in Task : CheckRetry(c, u)
        \/ \E u \in Task, ids \in SUBSET Task : CheckRepair(c, u, ids)
        \/ CallStep(c)
        \/ DropCall(c)
  BY DEF CallerNext
<1>2. ASSUME NEW u \in Task, Send(c, u) PROVE Status(t)' = "completed"
  <2>1. Status(u) = "absent" /\ RecordAgentMessage(u, NewMessage(u))
    BY <1>2 DEF Send, Idle
  <2> QED
    BY <1>0, <2>1, RecordEffect DEF Untouched, Status
<1>3. ASSUME NEW u, NEW s, NEW a, PostStatus(c, u, s, a)
      PROVE  FALSE
  BY <1>3 DEF PostStatus, Idle
<1>4. CASE ApplyRetry(c)
  <2>1. PICK reset \in BOOLEAN, max \in 1 .. MaxAttempts :
          AuthorizeAgentMessageRetry(caller[c].job, reset, max)
    BY <1>4 DEF ApplyRetry
  <2>2. caller[c].job \in Task /\ Status(caller[c].job) \in Retriable
    BY <1>0, <1>4, ServingType, CallFacts DEF ApplyRetry, Serving
  <2> QED
    BY <1>0, <2>1, <2>2, RetryEffect DEF Untouched, Status, Retriable
<1>5. CASE WriteRepair(c)
  <2>1. caller[c].job \in Task
    BY <1>0, <1>5, ServingType DEF WriteRepair, Serving
  <2> QED
    BY <1>0, <1>5, <2>1, RepairEffect DEF WriteRepair, Untouched, Status
<1>6. CASE \/ \E u \in Task : CheckRetry(c, u)
           \/ \E u \in Task, ids \in SUBSET Task : CheckRepair(c, u, ids)
           \/ OpenGate(c) \/ ResumeRun(c) \/ ReadRepair(c) \/ DropCall(c)
  BY <1>6
  DEF CheckRetry, CheckRepair, OpenGate, ResumeRun, ReadRepair, DropCall, ledgerVars, Status
<1> QED
  BY <1>1, <1>2, <1>3, <1>4, <1>5, <1>6 DEF CallStep

\* In an orderly deployment no sweep, write-back, repair, retry or late finish
\* takes a completed task back: only the worker that completed it may, into
\* failed, if the event that closes it cannot be appended.
THEOREM OnlyFailedEventsUndo ==
  ASSUME Orderly
  PROVE  Spec /\ []RetriesDoNotOverlap =>
           [][\A t \in Task : Status(t) = "completed" /\ Status(t)' # "completed" =>
                /\ EventFailures /\ Status(t)' = "failed"
                /\ \E w \in Workers : At(w, "closing") /\ worker[w].job = t]_vars
<1> DEFINE Undone(t) == /\ EventFailures /\ Status(t)' = "failed"
                        /\ \E w \in Workers : At(w, "closing") /\ worker[w].job = t
<1>1. OrderlyInv /\ [Next]_vars =>
        [\A t \in Task : Status(t) = "completed" /\ Status(t)' # "completed" => Undone(t)]_vars
  <2> SUFFICES ASSUME OrderlyInv, [Next]_vars, NEW t \in Task,
                      Status(t) = "completed", Status(t)' # "completed"
               PROVE  Undone(t)
    OBVIOUS
  <2>1. ASSUME NEW w \in Workers, WorkerStep(w) \/ Crash(w)
        PROVE  Undone(t)
    BY <2>1, WorkerKeepsCompleted DEF Orderly, EventFails, At
  <2>2. ASSUME UNCHANGED ledger PROVE FALSE
    BY <2>2 DEF Status
  <2>3. ~CallerNext
    BY CallerKeepsCompleted DEF Orderly
  <2> QED
    BY <2>1, <2>2, <2>3 DEF Next, WorkerNext, StartPass, Age, GrowStale, ledgerVars, vars
<1> QED
  BY <1>1, OrderlyInit, OrderlyInductive, PTL DEF Spec

\* If events do not fail, a completed task stays completed.
THEOREM CompletedStays ==
  ASSUME Orderly, ~EventFailures
  PROVE  Spec /\ []RetriesDoNotOverlap => CompletedIsFinal
<1>1. [\A t \in Task : Status(t) = "completed" /\ Status(t)' # "completed" =>
         /\ EventFailures /\ Status(t)' = "failed"
         /\ \E w \in Workers : At(w, "closing") /\ worker[w].job = t]_vars
      => [\A t \in Task : Status(t) = "completed" => Status(t)' = "completed"]_vars
  OBVIOUS
<1> QED
  BY <1>1, OnlyFailedEventsUndo, PTL DEF CompletedIsFinal

-----------------------------------------------------------------------------
(* Attempts *)

\* A copy that may be written back has the attempts of its row.
CopiesCount ==
    OneWorkerPerAgent =>
        \A w \in Workers : \A t \in RememberedIn(worker[w]) :
            /\ worker[w].copy[t].status = "accepted"
            /\ worker[w].copy[t].attempts = ledger[t].attempts

CountInv == OrderlyInv /\ CopiesCount /\ AbsentRowsAreFresh

LEMMA WaitCounts ==
  ASSUME CountInv, NEW w \in Workers, OneWorkerPerAgent \/ NoDependencies,
         NEW t \in Task, WaitOnDependencies(w, t)
  PROVE  RowsCount
<1>1. /\ worker[w].pc = "next" /\ t \in worker[w].waiting
      /\ RecordAgentMessage(t, worker[w].copy[t])
  BY DEF WaitOnDependencies, IsNext, At
<1>2. OneWorkerPerAgent
  BY <1>1, WorkerFacts DEF CountInv
<1>3. /\ worker[w].copy[t].status = "accepted"
      /\ worker[w].copy[t].attempts = ledger[t].attempts
  BY <1>1, <1>2 DEF CountInv, CopiesCount, RememberedIn
<1>4. ledger \in [Task -> Row]
  BY LedgerFacts DEF CountInv
<1>5. Counts(ledger[t], worker[w].copy[t])
  BY <1>3, <1>4, LedgerAssumption DEF Counts, Row
<1> DEFINE rows == [u \in {t} |-> worker[w].copy[t]]
<1>6. UpdateRows(rows)
  BY <1>1 DEF RecordAgentMessage
<1>7. \A u \in DOMAIN rows : Counts(ledger[u], rows[u])
  BY <1>5
<1> HIDE DEF rows
<1> QED
  BY <1>4, <1>6, <1>7, UpdatesCount

LEMMA WorkerCounts ==
  ASSUME CountInv, NEW w \in Workers, OneWorkerPerAgent \/ NoDependencies,
         WorkerStep(w) \/ Crash(w)
  PROVE  RowsCount
<1>0. ledger \in [Task -> Row]
  BY LedgerFacts DEF CountInv
<1>1. CASE RecoverStale(w)
  BY <1>0, <1>1, StatementsCount DEF RecoverStale, Batches, StaleTasks
<1>2. CASE BlockExhausted(w)
  BY <1>0, <1>2, StatementsCount DEF BlockExhausted, Batches, ExhaustedTasks, AcceptedInbox
<1>3. CASE \E t \in Task : WaitOnDependencies(w, t)
  BY <1>3, WaitCounts
<1>4. CASE \E t \in Task : Claim(w, t)
  BY <1>0, <1>4, StatementsCount DEF Claim
<1>5. CASE BeginTask(w) \/ CompleteTask(w) \/ FailTask(w)
  <2>1. worker[w].pc \in {"claimed", "executing", "closing"}
    BY <1>5 DEF BeginTask, CompleteTask, FailTask, At
  <2>2. worker[w].job \in Task
    BY <2>1, JobFacts DEF CountInv
  <2>3. \E s \in {"in_progress", "completed", "failed"} :
          UpdateAgentMessageStatus(worker[w].job, s, WorkerAgent[w])
    BY <1>5 DEF BeginTask, CompleteTask, FailTask, SetStatus
  <2> QED
    BY <1>0, <2>2, <2>3, StatementsCount
<1>6. CASE \/ \E t \in Task : ReadTarget(w, t) \/ SkipUnclaimable(w, t)
           \/ TargetsRead(w) \/ ParkRun(w) \/ ListInbox(w) \/ Snapshot(w)
           \/ EndPass(w) \/ CloseTask(w) \/ Crash(w)
  BY <1>0, <1>6, SameRowsCount
  DEF ReadTarget, SkipUnclaimable, TargetsRead, ParkRun, ListInbox, Snapshot,
      EndPass, CloseTask, Crash, ledgerVars
<1> QED
  BY <1>1, <1>2, <1>3, <1>4, <1>5, <1>6 DEF WorkerStep

\* A row loses attempts only while a checked retry is about to write it.
LEMMA CallerCounts ==
  ASSUME CountInv, Endpoints \subseteq {"send", "retry", "repair"},
         CallerNext, NEW t \in Task
  PROVE  \/ Counts(ledger[t], ledger'[t])
         \/ /\ ledger'[t].status # "absent"
            /\ \E c \in Callers : Serving(c, "retry") /\ caller[c].job = t
<1>0. ledger \in [Task -> Row] /\ OrderlyInv /\ TypeOK
  BY LedgerFacts DEF CountInv, OrderlyInv
<1>1. PICK c \in Callers :
        \/ \E u \in Task : Send(c, u)
        \/ \E u \in Task, s \in TaskStatus \ {"absent"}, a \in Agents : PostStatus(c, u, s, a)
        \/ \E u \in Task : CheckRetry(c, u)
        \/ \E u \in Task, ids \in SUBSET Task : CheckRepair(c, u, ids)
        \/ CallStep(c)
        \/ DropCall(c)
  BY DEF CallerNext
<1>2. ASSUME NEW u \in Task, Send(c, u) PROVE RowsCount
  <2>1. /\ Status(u) = "absent" /\ RecordAgentMessage(u, NewMessage(u))
    BY <1>2 DEF Send, Idle
  <2>2. NewMessage(u).status = "accepted" /\ NewMessage(u).attempts = 0
    BY DEF NewMessage, NoRow
  <2>3. Counts(ledger[u], NewMessage(u))
    BY <2>1, <2>2 DEF Counts, CountInv, AbsentRowsAreFresh, Status
  <2> DEFINE rows == [v \in {u} |-> NewMessage(u)]
  <2>4. UpdateRows(rows)
    BY <2>1 DEF RecordAgentMessage
  <2>5. \A v \in DOMAIN rows : Counts(ledger[v], rows[v])
    BY <2>3
  <2> HIDE DEF rows
  <2> QED
    BY <1>0, <2>4, <2>5, UpdatesCount
<1>3. ASSUME NEW u, NEW s, NEW a, PostStatus(c, u, s, a)
      PROVE  FALSE
  BY <1>3 DEF PostStatus, Idle
<1>4. CASE ApplyRetry(c)
  <2>1. /\ Serving(c, "retry")
        /\ \E reset \in BOOLEAN, max \in 1 .. MaxAttempts :
             AuthorizeAgentMessageRetry(caller[c].job, reset, max)
    BY <1>4 DEF ApplyRetry
  <2>2. caller[c].job \in Task
    BY <1>0, <2>1, ServingType DEF Serving
  <2>3. CASE t = caller[c].job
    <3>1. ledger'[t].status = "accepted"
      BY <1>0, <2>1, <2>2, <2>3, RetryEffect
    <3> QED
      BY <2>1, <2>3, <3>1
  <2>4. CASE t # caller[c].job
    <3>1. ledger'[t] = ledger[t] /\ ledger[t] \in Row
      BY <1>0, <2>1, <2>2, <2>4, RetryEffect DEF Untouched
    <3> QED
      BY <3>1, LedgerAssumption DEF Counts, Row
  <2> QED
    BY <2>3, <2>4
<1>5. CASE WriteRepair(c)
  <2>1. caller[c].job \in Task
    BY <1>0, <1>5, ServingType DEF WriteRepair, Serving
  <2>2. RowsCount
    BY <1>0, <1>5, <2>1, StatementsCount DEF WriteRepair
  <2> QED
    BY <2>2 DEF RowsCount
<1>6. CASE \/ \E u \in Task : CheckRetry(c, u)
           \/ \E u \in Task, ids \in SUBSET Task : CheckRepair(c, u, ids)
           \/ OpenGate(c) \/ ResumeRun(c) \/ ReadRepair(c) \/ DropCall(c)
  <2>1. RowsCount
    BY <1>0, <1>6, SameRowsCount
    DEF CheckRetry, CheckRepair, OpenGate, ResumeRun, ReadRepair, DropCall, ledgerVars
  <2> QED
    BY <2>1 DEF RowsCount
<1> QED
  BY <1>1, <1>2, <1>3, <1>4, <1>5, <1>6 DEF CallStep, RowsCount

LEMMA StepCounts ==
  ASSUME Orderly, CountInv, [Next]_vars, NEW t \in Task
  PROVE  \/ Counts(ledger[t], ledger'[t])
         \/ /\ ledger'[t].status # "absent"
            /\ \E c \in Callers : Serving(c, "retry") /\ caller[c].job = t
<1>0. ledger \in [Task -> Row]
  BY LedgerFacts DEF CountInv, OrderlyInv
<1>1. ASSUME NEW w \in Workers, NEW ids, NEW recover, StartPass(w, ids, recover)
      PROVE  RowsCount
  BY <1>0, <1>1, SameRowsCount DEF StartPass, ledgerVars
<1>2. ASSUME NEW w \in Workers, WorkerStep(w) \/ Crash(w)
      PROVE  RowsCount
  BY <1>2, WorkerCounts DEF Orderly
<1>3. CASE WorkerNext
  <2>1. RowsCount
    BY <1>1, <1>2, <1>3 DEF WorkerNext
  <2> QED
    BY <2>1 DEF RowsCount
<1>4. CASE CallerNext
  BY <1>4, CallerCounts DEF Orderly
<1>5. CASE (\E u \in Task : Age(u)) \/ UNCHANGED vars
  <2>1. RowsCount
    BY <1>0, <1>5, SameRowsCount DEF Age, GrowStale, vars
  <2> QED
    BY <2>1 DEF RowsCount
<1> QED
  BY <1>3, <1>4, <1>5 DEF Next

LEMMA CallsKeepWorkers == CallerNext => UNCHANGED worker
  BY DEF CallerNext, Send, PostStatus, CheckRetry, CheckRepair, CallStep, OpenGate,
     ApplyRetry, ResumeRun, ReadRepair, WriteRepair, DropCall

\* A copy keeps up with its row, which stays accepted while it is listed.
LEMMA CopiesKeepCount ==
  ASSUME Orderly, CountInv, OrderlyInv', [Next]_vars
  PROVE  CopiesCount'
<1> SUFFICES ASSUME OneWorkerPerAgent, NEW w \in Workers, NEW t \in RememberedIn(worker'[w])
             PROVE  /\ worker'[w].copy[t].status = "accepted"
                    /\ worker'[w].copy[t].attempts = ledger'[t].attempts
  BY DEF CopiesCount, RememberedIn, OneWorkerPerAgent
<1>1. t \in Task /\ ledger'[t].status = "accepted"
  BY RememberedAreListedNext
<1>2. \/ t \in RememberedIn(worker[w]) /\ worker'[w].copy[t] = worker[w].copy[t]
      \/ UNCHANGED ledger /\ Status(t) = "accepted" /\ worker'[w].copy[t] = ledger[t]
  <2>1. ASSUME NEW v \in Workers, NEW s, Become(v, s), Recalls(v, s)
        PROVE  \/ t \in RememberedIn(worker[w]) /\ worker'[w].copy[t] = worker[w].copy[t]
               \/ UNCHANGED ledger /\ Status(t) = "accepted" /\ worker'[w].copy[t] = ledger[t]
    BY <2>1, BecomeEffect DEF CountInv, Recalls
  <2>2. CASE WorkerNext
    <3>1. PICK v \in Workers : \/ \E ids \in Targets, recover \in RecoverStaleTasks :
                                     StartPass(v, ids, recover)
                               \/ WorkerStep(v) \/ Crash(v)
      BY <2>2 DEF WorkerNext
    <3> QED
      BY <2>1, <3>1, StartPassRecalls, StepRecalls DEF CountInv
  <2>3. CASE UNCHANGED worker
    BY <2>3
  <2> QED
    BY <2>2, <2>3, CallsKeepWorkers DEF Next, Age, vars
<1>3. CASE t \in RememberedIn(worker[w]) /\ worker'[w].copy[t] = worker[w].copy[t]
  <2>1. Status(t) = "accepted"
    BY <1>3, RememberedAreListed DEF CountInv
  <2>2. ~\E c \in Callers : Serving(c, "retry") /\ caller[c].job = t
    BY <2>1, CallFacts DEF CountInv, Serving, Retriable
  <2>3. ledger'[t].attempts = ledger[t].attempts
    BY <1>1, <2>1, <2>2, StepCounts DEF Counts, Status
  <2> QED
    BY <1>3, <2>3 DEF CountInv, CopiesCount
<1>4. CASE UNCHANGED ledger /\ Status(t) = "accepted" /\ worker'[w].copy[t] = ledger[t]
  BY <1>4 DEF Status
<1> QED
  BY <1>2, <1>3, <1>4

\* In an orderly deployment, though events fail and repairs overlap, the attempt
\* count of a task goes down in no write-back, sweep, repair or late status
\* write, but only where a checked retry is applied.
THEOREM AttemptsStay ==
  ASSUME Orderly
  PROVE  Spec /\ []RetriesDoNotOverlap => AttemptsNeverRollBack
<1>1. Init => CountInv
  BY OrderlyInit DEF Init, WorkerInit, IdleWorker, LedgerInit, NoRow, CountInv, CopiesCount,
     RememberedIn, AbsentRowsAreFresh
<1>2. RetriesDoNotOverlap /\ CountInv /\ [Next]_vars => CountInv'
  <2> SUFFICES ASSUME RetriesDoNotOverlap, CountInv, [Next]_vars PROVE CountInv'
    OBVIOUS
  <2>1. OrderlyInv'
    BY OrderlyNext DEF CountInv
  <2>2. AbsentRowsAreFresh'
    BY StepCounts DEF CountInv, AbsentRowsAreFresh, Counts, Status
  <2> QED
    BY <2>1, <2>2, CopiesKeepCount DEF CountInv
<1>3. CountInv /\ CountInv' /\ [Next]_vars =>
        [\A t \in Task :
           ledger'[t].attempts < ledger[t].attempts =>
               \E c \in Callers : Serving(c, "retry") /\ caller[c].job = t]_vars
  <2> SUFFICES ASSUME CountInv, CountInv', [Next]_vars, NEW t \in Task,
                      ledger'[t].attempts < ledger[t].attempts
               PROVE  \E c \in Callers : Serving(c, "retry") /\ caller[c].job = t
    OBVIOUS
  <2>1. ledger[t] \in Row /\ ledger'[t] \in Row
    <3>1. (ledger \in [Task -> Row])'
      BY LedgerFacts, PTL DEF CountInv
    <3> QED
      BY <3>1, LedgerFacts DEF CountInv
  <2>2. ~Counts(ledger[t], ledger'[t])
    BY <2>1, LedgerAssumption DEF Counts, Row
  <2> QED
    BY <2>2, StepCounts
<1> QED
  BY <1>1, <1>2, <1>3, PTL DEF Spec, AttemptsNeverRollBack
=============================================================================
