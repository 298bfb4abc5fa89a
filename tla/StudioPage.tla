------------------------------ MODULE StudioPage ------------------------------
(***************************************************************************)
(* The creator's page in the browser.  Its handlers run to their next await *)
(* without being disturbed; what they awaited may arrive in any order, long *)
(* after the view has moved on to another run.  The page keeps them apart   *)
(* with references that change at once (a version of the view, a gate for   *)
(* each kind of action, flags) and with state that a handler sees only as   *)
(* of the last rendering.                                                  *)
(***************************************************************************)
EXTENDS Integers, FiniteSets

CONSTANTS Runs, NoRun,
          Kinds,     \* the handlers of this instance
          MaxOps,    \* how many handlers are started
          MaxVersion \* how often the view is left

Gates == {"composer", "sourceRefresh", "production", "feedback", "voiceSession",
          "voiceProof", "autopilot", "localScheduler", "workPlan"}

\* Handlers without a gate of their own.
Ungated == {"voiceRun", "restore", "refresh", "continue", "followup", "runPlan", "retry",
            "pulse", "scheduler", "update", "silent"}

ASSUME PageAssumption ==
    /\ Kinds \subseteq Gates \cup Ungated
    /\ MaxOps \in Nat \ {0} /\ MaxVersion \in Nat
    /\ NoRun \notin Runs

VARIABLES page,      \* the run and whether a label says that the page is busy
          seen,      \* page as of the last rendering
          owner,     \* activeRunIdRef
          version,   \* runVersionRef
          gate,      \* the gates: in flight or not, and a token
          cycle,     \* agentCycleInFlightRef
          pulse,     \* autopilotHeartbeatInFlightRef
          scheduled, \* autopilotSchedulerInFlightRunsRef
          creating,  \* voiceRunCreateInFlightRef
          op,        \* the handlers started so far and what they await
          made       \* the runs that exist

pageVars ==
    <<page, seen, owner, version, gate, cycle, pulse, scheduled, creating, op, made>>

Ops == 1..MaxOps

Unborn == [kind |-> "none", at |-> "unborn", run |-> NoRun, version |-> 0, token |-> 0,
           cycles |-> FALSE]

Over == [Unborn EXCEPT !.at = "over"]

Live(o) == op[o].at \notin {"unborn", "over"}

View == [run : Runs \cup {NoRun}, busy : BOOLEAN]

GateState == [inFlight : BOOLEAN, token : 0..(MaxOps + MaxVersion)]

OpState == [kind : Kinds \cup {"none", "restore"},
            at : {"unborn", "request", "cycle", "read", "replan", "reread", "over"},
            run : Runs \cup {NoRun}, version : 0..MaxVersion,
            token : 0..(MaxOps + MaxVersion), cycles : BOOLEAN]

PageTypeOK ==
    /\ page \in View /\ seen \in View
    /\ owner \in Runs \cup {NoRun}
    /\ version \in 0..MaxVersion
    /\ gate \in [Gates -> GateState]
    /\ {cycle, pulse, creating} \subseteq BOOLEAN
    /\ scheduled \subseteq Runs
    /\ op \in [Ops -> OpState]
    /\ made \subseteq Runs

\* The page opens empty, or restores the run it showed last.
PageInit ==
    /\ owner = NoRun
    /\ version = 0
    /\ gate = [g \in Gates |-> [inFlight |-> FALSE, token |-> 0]]
    /\ cycle = FALSE /\ pulse = FALSE /\ scheduled = {} /\ creating = FALSE
    /\ \/ /\ page = [run |-> NoRun, busy |-> FALSE]
          /\ op = [o \in Ops |-> Unborn]
          /\ made = {}
       \/ \E r \in Runs :
            /\ page = [run |-> NoRun, busy |-> TRUE]
            /\ op = [o \in Ops |-> IF o = 1 THEN [Unborn EXCEPT !.kind = "restore",
                                                                !.at = "read", !.run = r]
                                   ELSE Unborn]
            /\ made = {r}
    /\ seen = page

-----------------------------------------------------------------------------
\* Faulty variant of Blocked: only the gates are looked at.
BlockedByGate(run) == \E g \in Gates : gate[g].inFlight

\* blockSameRunMutationIfBusy
Blocked(run) ==
    \/ \E g \in Gates : gate[g].inFlight
    \/ cycle \/ pulse \/ run \in scheduled

\* Faulty variant of AgentsFree: the flag is not looked at.
NoPlanning == ~gate["workPlan"].inFlight

\* continueAgents, handleRunWorkPlan
AgentsFree == ~gate["workPlan"].inFlight /\ ~cycle

\* Handlers that a button starts, which is disabled while the page is busy and,
\* unless it makes a run, while there is none; the others are called by the
\* voice panel, at any time, or by the stream.
ByButton(k) == k \notin {"followup", "update", "silent", "voiceSession", "voiceProof"}

\* Whether the handler k may go on to its first await, and for which run.
Admits(k, run) ==
    /\ ByButton(k) => ~seen.busy /\ run = seen.run
    /\ k = "voiceRun" => run = NoRun /\ ~creating
    /\ k \notin {"composer", "voiceRun"} => run # NoRun /\ run = owner
    /\ k \notin {"voiceRun", "runPlan", "update", "silent"} => ~Blocked(run)
    /\ k = "runPlan" => AgentsFree

\* beginRunAction
Begin(g) == gate' = [gate EXCEPT ![g] = [inFlight |-> TRUE, token |-> @.token + 1]]

\* invalidateRunAction, for every gate; the flags stay with their holders.
InvalidateAll == gate' = [g \in Gates |-> [inFlight |-> FALSE, token |-> gate[g].token + 1]]

\* The next handler is the o-th.
NextOp(o) == op[o] = Unborn /\ \A p \in 1..(o - 1) : op[p] # Unborn

\* Where the agents continue at once.
Cycles(k) == k \in {"sourceRefresh", "runPlan", "retry", "continue", "followup"}

FirstAwait(k) ==
    IF k \in {"continue", "followup"} THEN "cycle"
    ELSE IF k \in {"refresh", "update", "silent"} THEN "read" ELSE "request"

\* handleCompose, handleRefresh, handleContinueAgents, handleBuildWorkPlan,
\* ... up to their first await.  React renders what a click has set before it
\* takes the next event.
StartHandler(k, run) ==
    /\ k # "voiceRun"
    /\ Admits(k, run)
    /\ IF k \in Gates THEN Begin(k) ELSE UNCHANGED gate
    /\ \E o \in Ops :
         /\ NextOp(o)
         /\ op' = [op EXCEPT ![o] =
                     [kind |-> k, at |-> FirstAwait(k), run |-> run, version |-> version,
                      token |-> IF k \in Gates THEN gate[k].token + 1 ELSE 0,
                      cycles |-> Cycles(k)]]
    /\ cycle' = (cycle \/ Cycles(k))
    /\ pulse' = (pulse \/ k = "pulse")
    /\ scheduled' = IF k = "scheduler" THEN scheduled \cup {run} ELSE scheduled
    /\ page' = [page EXCEPT !.busy = @ \/ k \notin {"update", "silent"}]
    /\ seen' = [seen EXCEPT !.busy = @ \/ ByButton(k)]
    /\ UNCHANGED <<owner, version, creating, made>>

\* Faulty variant of LeaveView: the version stays.
LeaveViewUnnoticed(busy) ==
    /\ version < MaxVersion
    /\ InvalidateAll
    /\ owner' = NoRun
    /\ page' = [run |-> NoRun, busy |-> busy]
    /\ seen' = page'
    /\ UNCHANGED version

\* The view is left for an empty one.
LeaveView(busy) ==
    /\ version < MaxVersion
    /\ InvalidateAll
    /\ owner' = NoRun
    /\ page' = [run |-> NoRun, busy |-> busy]
    /\ seen' = page'
    /\ version' = version + 1

\* handleCreateVoiceRun
CreateVoiceRun ==
    /\ "voiceRun" \in Kinds
    /\ Admits("voiceRun", seen.run)
    /\ LeaveView(TRUE)
    /\ \E o \in Ops :
         /\ NextOp(o)
         /\ op' = [op EXCEPT ![o] = [Unborn EXCEPT !.kind = "voiceRun", !.at = "request",
                                                  !.version = version']]
    /\ creating' = TRUE
    /\ UNCHANGED <<cycle, pulse, scheduled, made>>

\* handleClearRun
ClearRun ==
    /\ ~seen.busy
    /\ LeaveView(FALSE)
    /\ UNCHANGED <<cycle, pulse, scheduled, creating, op, made>>

\* React renders what answers and callbacks have set; its effects follow.
Render ==
    /\ seen # page
    /\ seen' = page
    /\ owner' = IF page.run # seen.run THEN page.run ELSE owner
    /\ UNCHANGED <<page, version, gate, cycle, pulse, scheduled, creating, op, made>>

-----------------------------------------------------------------------------
\* isRunVersionCurrent
OfThisView(o) == op[o].version = version

\* Most handlers compare the token of their gate, and the run as well.
Current(o) ==
    /\ OfThisView(o)
    /\ op[o].kind \in Gates => op[o].token = gate[op[o].kind].token
    /\ op[o].kind \in Gates \ {"composer"} => op[o].run = owner

\* clearBusyForRun, with a version
ClearBusy(o) ==
    page' = IF page.run = op[o].run /\ OfThisView(o) THEN [page EXCEPT !.busy = FALSE] ELSE page

Busy(b) == page' = [page EXCEPT !.busy = b]

\* Faulty variant of FinishGate: the token is not compared.
ReleaseGate(o) ==
    gate' = [g \in Gates |-> IF g = op[o].kind THEN [gate[g] EXCEPT !.inFlight = FALSE] ELSE gate[g]]

\* finishRunAction
FinishGate(o) ==
    gate' = [g \in Gates |-> IF g = op[o].kind /\ op[o].token = gate[g].token
                             THEN [gate[g] EXCEPT !.inFlight = FALSE] ELSE gate[g]]

\* The finally clauses.
Finish(o) ==
    /\ FinishGate(o)
    /\ cycle' = (cycle /\ ~op[o].cycles)
    /\ pulse' = (pulse /\ op[o].kind # "pulse")
    /\ scheduled' = IF op[o].kind = "scheduler" THEN scheduled \ {op[o].run} ELSE scheduled
    /\ creating' = (creating /\ op[o].kind # "voiceRun")
    /\ op' = [op EXCEPT ![o] = Over]
    /\ UNCHANGED <<seen, owner, version, made>>

AwaitAt(o, at) == op' = [op EXCEPT ![o].at = at]

KeepFlags == UNCHANGED <<seen, owner, version, gate, cycle, pulse, scheduled, creating>>

GiveUp(o) == ClearBusy(o) /\ Finish(o)

\* Faulty variant of Fails: the label stays.
FailsQuietly(o) ==
    /\ Live(o) /\ op[o].kind \notin {"voiceSession", "voiceProof"}
    /\ op[o].kind = "composer" => op[o].at # "cycle"
    /\ UNCHANGED page
    /\ Finish(o)

\* What an error, and a plan or a search without anything to do, come to.
Fails(o) ==
    /\ Live(o) /\ op[o].kind \notin {"voiceSession", "voiceProof"}
    /\ op[o].kind = "composer" => op[o].at # "cycle"
    /\ IF op[o].kind \in {"update", "silent"} THEN UNCHANGED page
       ELSE IF Current(o) THEN Busy(FALSE) ELSE ClearBusy(o)
    /\ Finish(o)

\* handleCompose: the turn has been routed, in a new run if there was none.
Routed(o) ==
    /\ op[o].kind = "composer" /\ op[o].at = "request" /\ Current(o)
    /\ \E run \in IF op[o].run = NoRun THEN Runs \ made ELSE {op[o].run} :
         /\ made' = made \cup {run}
         /\ \/ /\ op' = [op EXCEPT ![o].run = run, ![o].at = "read"]
               /\ UNCHANGED <<page, cycle>>
            \/ \* There are tasks; continueAgents throws at once when the
               \* agents are at work already.
               /\ Busy(TRUE)
               /\ op' = [op EXCEPT ![o].run = run, ![o].cycles = AgentsFree,
                                   ![o].at = IF AgentsFree THEN "cycle" ELSE "read"]
               /\ cycle' = (cycle \/ AgentsFree)
         /\ UNCHANGED <<seen, owner, version, gate, pulse, scheduled, creating>>

\* The turn is saved, the agents failed.
ComposerCycleFails(o) ==
    /\ op[o].kind = "composer" /\ op[o].at = "cycle"
    /\ op' = [op EXCEPT ![o].at = "read", ![o].cycles = FALSE]
    /\ cycle' = FALSE
    /\ UNCHANGED <<page, seen, owner, version, gate, pulse, scheduled, creating, made>>

\* handleCreateVoiceRun: the run exists.
VoiceRunCreated(o) ==
    /\ op[o].kind = "voiceRun" /\ op[o].at = "request" /\ OfThisView(o)
    /\ \E run \in Runs \ made :
         /\ made' = made \cup {run}
         /\ op' = [op EXCEPT ![o].run = run, ![o].at = "read"]
    /\ UNCHANGED page
    /\ KeepFlags

\* handleVoiceRunMutationFinish
VoiceMutationEnds(o) ==
    /\ op[o].kind \in {"voiceSession", "voiceProof"} /\ op[o].at = "request"
    /\ IF Current(o) THEN ClearBusy(o) ELSE UNCHANGED page
    /\ Finish(o)

\* The other requests.  Production looks whether it is current only at its
\* end.
Requested(o) ==
    /\ op[o].at = "request"
    /\ op[o].kind \notin {"voiceSession", "voiceProof"}
    /\ \/ /\ ~Current(o) /\ op[o].kind # "production"
          /\ GiveUp(o)
       \/ /\ Current(o) \/ op[o].kind = "production"
          /\ op[o].kind \notin {"composer", "voiceRun"}
          /\ IF op[o].kind \in {"runPlan", "retry"} THEN AwaitAt(o, "cycle") ELSE AwaitAt(o, "read")
          /\ IF op[o].kind \in {"runPlan", "localScheduler"} THEN Busy(op[o].kind = "runPlan")
             ELSE UNCHANGED page
          /\ UNCHANGED made
          /\ KeepFlags

\* runAgentCycleAndRefresh, after the cycle
Cycled(o) ==
    /\ op[o].at = "cycle"
    /\ \/ /\ ~OfThisView(o)
          /\ GiveUp(o)
       \/ /\ OfThisView(o)
          /\ AwaitAt(o, "read")
          /\ UNCHANGED <<page, made>>
          /\ KeepFlags

Shows(o) == [run |-> op[o].run, busy |-> op[o].kind = "silent" /\ page.busy]

\* Faulty variant of ReadDone: what was read is shown in any view.
ReadDoneInAnyView(o) ==
    /\ op[o].at \in {"read", "reread"}
    /\ op[o].kind # "runPlan"
    /\ page' = Shows(o)
    /\ Finish(o)

\* refreshRun, after its reads, and the handlers' ends.
ReadDone(o) ==
    /\ op[o].at \in {"read", "reread"}
    /\ \/ /\ ~OfThisView(o)
          /\ GiveUp(o)
       \/ /\ OfThisView(o)
          /\ op[o].kind = "runPlan" => op[o].at = "reread"
          /\ page' = Shows(o)
          /\ Finish(o)
       \/ \* handleRunWorkPlan asks for the next plan.
          /\ OfThisView(o)
          /\ op[o].kind = "runPlan" /\ op[o].at = "read"
          /\ page' = [Shows(o) EXCEPT !.busy = TRUE]
          /\ AwaitAt(o, "replan")
          /\ UNCHANGED made
          /\ KeepFlags

Replanned(o) ==
    /\ op[o].at = "replan"
    /\ \/ /\ ~OfThisView(o)
          /\ GiveUp(o)
       \/ /\ OfThisView(o)
          /\ AwaitAt(o, "reread")
          /\ UNCHANGED <<page, made>>
          /\ KeepFlags

PageNext ==
    \/ \E k \in Kinds, run \in Runs \cup {NoRun} : StartHandler(k, run)
    \/ CreateVoiceRun \/ ClearRun \/ Render
    \/ \E o \in Ops : \/ Routed(o) \/ ComposerCycleFails(o) \/ VoiceRunCreated(o)
                      \/ VoiceMutationEnds(o) \/ Requested(o) \/ Cycled(o)
                      \/ ReadDone(o) \/ Replanned(o) \/ Fails(o)

PageSpec == PageInit /\ [][PageNext]_pageVars

-----------------------------------------------------------------------------
\* A gate is in flight for exactly one handler, whose token it keeps: views
\* that were left while their handlers wait, and later handlers of the same
\* kind, do not confuse it (beginRunAction, finishRunAction,
\* invalidateRunAction).
GatesHaveHolders ==
    \A g \in Gates :
        Cardinality({o \in Ops : Live(o) /\ op[o].kind = g /\ op[o].token = gate[g].token})
            = IF gate[g].inFlight THEN 1 ELSE 0

\* Two handlers never continue the agents at the same time, whatever view they
\* belong to, and the flag is set as long as one does; the same holds for the
\* pulse and for the check of a run's schedule (continueAgents,
\* handleRunWorkPlan, handleRetryAgentMessage, handleRefreshSources).
FlagsHaveHolders ==
    LET holders(S) == Cardinality(S)
        count(b) == IF b THEN 1 ELSE 0
    IN /\ holders({o \in Ops : op[o].cycles}) = count(cycle)
       /\ holders({o \in Ops : op[o].kind = "pulse"}) = count(pulse)
       /\ \A r \in Runs :
            holders({o \in Ops : op[o].kind = "scheduler" /\ op[o].run = r}) = count(r \in scheduled)

Mutations == Gates \cup {"continue", "followup", "retry", "pulse", "scheduler"}

\* In one view two handlers that change the run are never under way at the
\* same time, though the label that disables their buttons may be gone early;
\* only running a work plan does not look at the gates of the others
\* (blockSameRunMutationIfBusy).
MutationsExclude ==
    \A o, p \in Ops :
        /\ op[o].kind \in Mutations /\ op[p].kind \in Mutations
        /\ OfThisView(o) /\ OfThisView(p)
        => o = p

\* A page that says it is busy has a handler under way that will clear the
\* label, in every order of answers, failures and views left behind: else the
\* creator's buttons stay disabled until a reload (clearBusyForRun).
BusyHasCause ==
    page.busy => \E o \in Ops : Live(o) /\ OfThisView(o) /\ op[o].kind \notin {"update", "silent"}

\* Whatever disables a control is held by a handler that is under way and will
\* let it go: gates, flags and the busy label.
ControlsHaveHolders == GatesHaveHolders /\ FlagsHaveHolders /\ BusyHasCause

\* What arrives for a view that has been left changes neither what the page
\* shows nor a gate (isRunVersionCurrent, isRunVersionedActionCurrent).
StaleStepsAreSilent ==
    [][\A o \in Ops : op[o].version # version /\ Live(o) /\ op'[o] # op[o]
           => UNCHANGED <<page, gate, owner>>]_pageVars

\* The page goes to another run only by way of an empty view: no answer takes
\* the run away that the creator looks at (refreshRun).
ViewIsNotTakenOver ==
    [][page'.run # page.run => NoRun \in {page.run, page'.run}]_pageVars
=============================================================================
