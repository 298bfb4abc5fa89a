# A TLA+ verification of the content studio

Content-creator-optimizer is a local-first studio in which LLM agents plan,
draft, check and package content for social networks.  Its durable core is a
PostgreSQL database.  A FastAPI application (`src/all_about_llms/app.py`), the
command line (`cli.py`, with `--watch` loops) and supervised child processes
all work on the same rows, in separate autocommitted statements, and none of
them holds a lock or a transaction across two of them.  What can go wrong there
is a matter of interleaving, of processes that die between two writes, and of
deadlines.  Around this core stand a voice agent, a speech detector and a
browser page, which share state within one process and yield where they await.
These modules model both, check them with TLC and prove the main results with
TLAPS.

Paths below are relative to the root of the repository.

## 1. Inventory

### The parts that are modelled

| Part | State it keeps | Operations | Source |
|---|---|---|---|
| A2A task ledger | `agent_messages` (status, claimant, attempts, dependencies, `updated_at`), `runs.status` | upsert, atomic claim, stale recovery, exhaustion blocking, status update, retry, dependency repair, listings | `src/all_about_llms/storage/postgres.py` |
| Agent worker loop | locals of `AgentWorker.run`: listed rows, snapshot, current task | sweep, list, snapshot, claim, run, complete or fail; targeted requests | `orchestration/agent_worker.py` |
| A2A endpoints | locals of each handler | send (first or repeated), status update, retry, dependency repair | `app.py` |
| Worker profiles and heartbeats | `worker_profiles` (status, lease, last heartbeat) | heartbeat, scheduler pass over due profiles, start, stop | `orchestration/agent_worker.py`, `storage/postgres.py` |
| Run resume | the plan it has read | blocked reasons, restart of the run, heartbeats of the active profiles | `orchestration/run_resume.py` |
| Human gates | `feedback` items, `runs.status` | open a gate, route, resolve, reject, release a stopped task | `app.py` |
| Voice events | `run_events`, conversation turns, follow-up tasks | deliver, append, record a turn, promote its transcript, insert and patch a follow-up | `app.py`, `storage/postgres.py` |
| Voice agent | active responses, cancellation tokens, output buffer and track, remembered cancellations | start, speak, complete, fail, interrupt a response; the voice edge's acknowledgement | `voice_agent/engine.py`, `adapters.py`, `livekit_app.py` |
| Process supervisors | child process, status, settings shown, lock | status, start, forced restart, stop; start and end of the API | `orchestration/scheduler_supervisor.py`, `voice_agent/supervisor.py`, `app.py` |
| Speech detector | session pools, their LRU, memories of streams | look a pool up, make one, process, fail | `services/voice-edge/src/vad.rs` |
| Browser page | run shown, busy label, version of the view, gates, flags | every handler that talks to the API, rendering, leaving the view | `frontend/next-app/app/page.tsx`, `lib/state/runOwnership.ts`, `runMutationGate.ts` |
| Revision loop | feedback item, tasks, revisions, events, `runs.status` | ask, find, select, record, write step by step, answer | `orchestration/revision_workflow.py` |
| Autonomous pass, audit, readiness | artifacts, audits, claims' support, feedback | look at feedback, plan media, bundle, audit, check, file an item | `orchestration/autonomous_pass.py`, `media_production.py`, `distribution_package.py`, `guardrail_audit.py`, `publish_readiness.py` |

How they interact.  A scheduler pass, a person or `resume_run` calls a heartbeat
of a profile.  The heartbeat reads the run, its tasks and its feedback; if
nothing blocks, it runs worker passes over the task ledger.  Workers and
endpoints write the same task rows.  Both ends park the run
(`waiting_for_human`) when a person is needed, and the endpoints through which
people answer put it back (`running`).  There are no messages and no callbacks:
the database rows are the only shared state.  The same holds of the revision
loop and of the autonomous pass, which the API runs as handlers and a heartbeat
calls as its work.  The voice agent tells the API of turns and responses in
events that it and the browser both deliver.  The API starts the scheduler, the
voice agent and LiveKit as child processes.  The page calls the API and hears of
the rest through its answers only.

What is hard, and what makes each part correct:

* **Ledger and workers.** Claims race; a worker dies with a task; a slow worker
  loses its task to recovery; a listed row is stale when it is written back; an
  endpoint checks a status and writes without looking again.  Correct means: one
  live worker per task, a row that names it, upstream work that stays finished,
  attempts that only a retry puts back, finished work that stays finished, and
  no ready task that waits for ever.
* **Heartbeats.** Leases run out, heartbeats of one profile are called from
  three places, a pass uses a due list that is minutes old.  Correct means: one
  heartbeat of a profile at a time, a lease that is given back by its holder,
  and every due profile visited in the end.
* **Voice events.** One event is three writes, arrives any number of times in
  any order, and its deliveries overlap and die.  Correct means: answered is
  applied, a final transcript is not replaced, a turn and a follow-up come once,
  and a follow-up quotes nothing but its turn's final words.
* **Voice agent.** Responses share one buffer, interrupts arrive for a response
  that may have ended, and a check before an await is stale after it.  Correct
  means: a cancellation reaches the response it names, what was stopped is not
  heard, a cancelled response ends.
* **Supervisors.** A child may ignore its termination, outlive the kill and
  outlive the API.  Correct means: one child, shown as it is, and no request
  that keeps the lock for ever.
* **Speech detector.** A pool is looked up under one lock and used under
  another.  Correct means: what is cached is listed and bounded, and room is
  made at the expense of the stream heard longest ago.
* **Page.** Answers come in any order, after the view has moved on.  Correct
  means: they do not touch another view, controls are not left disabled, and two
  mutations of one run are not under way at once.
* **Revision loop.** A dozen writes, of which a delivery that died has made a
  few; the same words come again and must not revise the revisions.  Correct
  means: answered is revised, words make one item, the run is not left running.
* **Autonomous pass.** What a check reads changes while it reads, and a pass may
  die between two plans.  Correct means: a run is not called ready over
  something that was wrong all along, and passes do not pile up plans.
* **Gates.** The gate is decided from three reads at different times, while
  retries and resumed runs put the run's status back.  Correct means: no work
  past a gate that was open when the heartbeat began, and no question asked
  twice.

### The parts that are not modelled

`PROJECT.json` lists them all with reasons.  In short:

* *Worth a model, not yet written*: the other producers of tasks (feedback
  routing, work plan, sync pulse, conversation router), the autopilot launch, the
  browser's event stream and voice panel.
* *Left out* (data rules, straight-line code, read-only views, pure input and
  output, static tables): run replay, the writing of drafts, retrieval scoring,
  source ledger, context engineering, projections, the ledgers of operations,
  provider adapters, the roster, the schema.

The models cover the code with control worth checking and thereby a small share
of all lines.  Most of the rest is `cli.py` (tooling that starts and probes the
services from outside), the rules by which texts, sources and packets are scored
and laid out, and the specialists' steps in `agent_worker.py`, each of which
assembles one artifact on a straight line.  A model of these would repeat them.

## 2. Modules

### The task ledger

| Module | What it is |
|---|---|
| `TaskLedger` | rows, queries and statements of the store, one operator per SQL statement |
| `AgentWorker` | `AgentWorker.run`; EXTENDS `TaskLedger` |
| `A2AStudio` | ledger + workers + endpoints + time: `Init`, `Next`, `Spec`, `FairSpec`, properties |
| `TaskBoard` | abstract specification: a board from which one worker at a time takes an open task |
| `A2ARefinement` | the mapping of `A2AStudio` to `TaskBoard` |
| `MCA2A` | instances for TLC |
| `A2AStudioProofs`, `TaskBoardProofs`, `BoardProofs` | theorems |

*State.* `ledger[t]` is the row of task `t`; tasks are numbered in `created_at`
order, which is the order of the listings.  `updated_at` becomes `aged[t]`, "the
row is older than `stale_task_after_seconds`".  `worker[w]` holds the locals of
a pass; `worker[w].copy` are whole listed rows, because the code writes one of
them back.  `caller[c]` is a handler between two of its awaits.

*Steps.* Every await of the store is one action, so anything may run in
between:

| Code | Actions |
|---|---|
| `AgentWorker.run`, sweep | `StartPass`, `RecoverStale`, `BlockExhausted`, `ParkRun` |
| listing, `_targeted_accepted_messages` | `ListInbox`, `ReadTarget`, `TargetsRead` |
| dependency snapshot and write-back | `Snapshot`, `WaitOnDependencies` |
| claim and step | `Claim`, `SkipUnclaimable`, `BeginTask`, `CompleteTask`, `CloseTask`, `FailTask`, `EndPass` |
| `send_agent_message` | `Send`, `OpenGate` |
| `update_agent_message_status` | `PostStatus`, `OpenGate` |
| `authorize_agent_message_retry` | `CheckRetry`, `ApplyRetry`, `ResumeRun` |
| `repair_agent_message_dependencies` | `CheckRepair`, `ReadRepair`, `WriteRepair`, `ResumeRun` |
| death of a process | `Crash` (worker), `DropCall` (handler) |
| time | `Age` |

`CompleteTask` and `CloseTask` are two steps because `_set_status` writes the
row and appends its event in two transactions; with `EventFailures` the event
may fail and the `except` of the step then overwrites the row as failed.

The abstract `TaskBoard` has no attempts, no claims by agent name, no sweeps and
no endpoints: a task is absent, open, taken, done or stopped, a taken task has a
holder until it finishes or vanishes, and only a task without a holder goes
back.  `Place`, `Holder` and `Needs` in `A2ARefinement` map the rows and the
live workers to it.

### Profiles, heartbeats and gates

| Module | What it is |
|---|---|
| `RunGates` | run status, feedback items, stopped tasks, the people's endpoints ("desks") |
| `ProfileHeartbeats` | profiles, leases, heartbeats, scheduler passes, resumed runs; EXTENDS `RunGates` |
| `MCProfileHeartbeats` | instances for TLC |
| `HeartbeatProofs` | theorems |

*State.* `profile[p].lease` is the call that set `heartbeat_lease_until` while
the deadline lies ahead, `Expired` after it, `NoLease` when it is null.
`turn[p]` ranks the profiles by `coalesce(last_heartbeat_at, created_at)`, the
order in which the due list is cut off.  `feedback[i]` is an item with the
metadata (`gate`) by which a heartbeat finds its own question again: the profile
and what a confirmation of the project memory is about.  `beat[h]` is one call:
a scheduler pass, a single heartbeat or `resume_run`.  Two histories are there
for properties only: `beat[h].held` are the items that have been open ever since
the claim, and `feedback[i].reopened` says that a person has set an item back
to open or routed after an answer.

*Steps.*

| Code | Actions |
|---|---|
| `run_due_profile_scheduler` | `StartPass`, then one heartbeat after the other, `EndCall` |
| heartbeat endpoint, `--watch` of one profile | `CallHeartbeat` |
| `resume_run` | `CallResume`, the plan, `RestartRun`, heartbeats, a worker cycle (`Work`) |
| `try_claim_worker_profile_heartbeat` | `ClaimHeartbeat`, `SkipProfile` |
| `build_resume_plan` | `ReadRun`, `ReadMessages`, `ReadFeedback` |
| `_ensure_project_memory_policy_feedback_gate` | `FindGate`, `FileGate`, `ParkRun` |
| worker cycle, seen from the run | `Work`, `BlockExhausted`, `Escalate` |
| `record_worker_profile_heartbeat` | `Record` |
| gates and answers | `OpenGate`, `StopTask`, `ReleaseTask`, `Answer`, `CountOpenItems`, `ChooseRunStatus`, `WriteRunStatus` |
| death of a process | `Crash` (beat), `DropCall` (desk) |
| time, start and stop of a profile | `ExpireLease`, `BecomeDue`, `UpdateProfileStatus` |

### What the creator says and sees

| Module | What it is |
|---|---|
| `VoiceIds` | turns, responses and transcripts, which the voice modules share |
| `VoiceDialogue` | abstract specification: what the events of a run amount to |
| `VoiceEvents` | the endpoint for voice events; `VoiceDialogue` is its `Dialogue` |
| `VoiceTurns` | the voice agent in its room |
| `RevisionLoop` | the revision loop |
| `StudioPass` | autonomous pass, guardrail audit, publish readiness |
| `StudioPage` | the browser page |
| `MCFlows` | instances for TLC of all of these but `VoiceTurns` |
| `VoiceEventsProofs`, `RevisionProofs` | theorems |

*State.* In `VoiceEvents` an event is its own uid; `logged` are the rows of
`run_events`, `turn[v]` is a turn's transcript, `task[r]` the transcript a
follow-up quotes.  Its variables are those of `VoiceDialogue`, so the refinement
mapping is the identity and the rest (log, calls) is hidden.  In `VoiceTurns`
`phase[r]` is where the task of response `r` awaits, `buffer` the samples in
the output buffer, each named after its response, and `remembered` the ids of
cancellations, of which the oldest is forgotten; `named`, all that were ever
asked for, is history.  In `RevisionLoop` `recorded` is the set of idempotent
writes that are in the store; a derived id is the record of what it is derived
from.  In `StudioPass` artifacts are numbered in the order of their creation and
never change; a snapshot of their list is a number, and `standing[c]` records
which faults have been there all through a check (nothing reads it except the
property).  In `StudioPage` a handler is an `op` with the version of the view
and the token of the gate it began with; `seen` is what the last rendering shows
to handlers that start.

*Steps.*

| Code | Actions |
|---|---|
| `record_realtime_voice_agent_event` | `Deliver`, `AppendEvent`, then the effects |
| effects and recovery of a voice event | `FindTurn`, `RecordUserTurn`, `PromoteTranscript`, `ListFollowups`, `SyncFollowup`, `RecordReply`, `FindFollowup`, `ReadSource`, `InsertFollowup`, `ReportFailure` |
| `handle_turn`, publisher | `StartTurn`, `PublishChunk`, `TrackPublished`, `CaptureFrame`, `ChunkPublished`, `CompleteResponse`, `NoticeCancellation`, `FailResponse`, `EndTurn` |
| interrupts | `Interrupt`, `AskEdge`, `EdgeAnswers` |
| `RevisionWorkflow.run` | `Ask`, `FindFeedback`, `SelectTargets` or `Refuse`, `RecordFeedback`, `TakeStep` along `Script`, `RespondRevised` |
| `AutonomousStudioPassWorkflow.run` | `BeginPass`, `ReadOpenFeedback`, `CheckEvidence`, `SelectMedia`, `MakeMedia`, `SelectPackage`, `Bundle` |
| `GuardrailAuditWorkflow.run` | `CallAudit`, `ListAuditable`, `ReadClaims`, `RecordAudit` for each artifact |
| `PublishReadinessWorkflow.run` | `CallReadiness`, `ReadSupport`, `ListPublishable`, `ReadAudits`, `Decide`, `OpenReadinessGate` |
| the page's handlers | `StartHandler`, `Requested`, `Cycled`, `Routed`, `Replanned`, `ReadDone`, `Fails`, the voice handlers |
| the page's view | `LeaveView`, `CreateVoiceRun`, `ClearRun`, `Render` |
| death of a process | `LoseCall`, `LoseDelivery`, `Die` |

### Processes and caches

| Module | What it is |
|---|---|
| `ProcessSupervisors` | supervisors, their children, the API's lives |
| `VadCaches` | the speech detector's caches |
| `MCEdges` | instances for TLC of these two and of `VoiceTurns` |
| `EdgeProofs` | theorems about these two and `VoiceTurns` |

A supervisor is its lock (`job[s]`, with what the holder waits for), its handle
and what it shows; a child has a life of its own, in which it ends when it likes
(`ChildEnds`).  `Start`, `Stop` and `ShutDown` terminate a child and wait
(`Ended`, `Kill`, `KillFails`, `Reap`); `Crash`, `Exit` and `Boot` end and begin
a life of the API.  A pool of the detector is an object that the cache or a
request holds (`Held`); `LookUp` finds or makes it under the cache's lock and
`Process` uses it under its own.

### Faulty variants

Some modules hold a second form of an operator, introduced by "Faulty variant".
No specification uses it: it is the code with a plausible bug (a dropped guard,
an off-by-one, a forgotten reset).  With it in place of the real one TLC finds
the property named in `PROJECT.json` violated, so no property here holds
whatever the code does.

## 3. Runs

`Timely` and `OnTime` say that no live worker outlives
`stale_task_after_seconds`, and no live heartbeat its lease.  The code does not
enforce either, so each has a run with and one without it.

| Run | Instance | Shows |
|---|---|---|
| `MCA2A_chain` | 2 agents with a worker each, slow or not, 2 tasks, the second needs the first, the first gated, 1 caller that sends, retries, repairs; requests by name; 2 attempts | the inductive invariant `OrderlyInv`; upstream work stays done (`UpstreamStaysDone`); completed is final; attempts go back only by a retry; nothing but a retry re-opens a stopped task; the ledger implements `TaskBoard` |
| `MCA2A_race` | 2 workers of one agent, batch of 1, 2 independent tasks, sends and retries, 2 attempts | one live worker per task, a row that agrees with it |
| `MCA2A_live` | 2 workers of one agent, batch of 2, 2 tasks, the older of which waits for the other; messages are sent again | ready tasks settle, claims are released |
| `MCA2A_open` | 1 task, 2 slow workers of one agent, requests by name, forced statuses, failing events, optional recovery | types hold, attempts never pass their maximum; without `Timely` live workers may overlap, but never more than the attempts counted |
| `MCHeartbeats_safe` | 1 profile, a scheduler and a free call, 1 desk that sets items and the run to any status, 2 items, 1 policy | one heartbeat, gates stop it, one item per question, leases go back to their holder |
| `MCHeartbeats_live` | 2 profiles, a pass visits one | every due profile is visited |
| `MCA2A_rollback` | `OneInbox`, dependent tasks, two workers of one agent | *violated*: a write-back rolls a claim back |
| `MCA2A_retries` | 1 task, 1 worker, 2 callers that send and retry | *violated*: of two retries that overlap the second re-opens a task that a worker has claimed |
| `MCHeartbeats_overrun` | no `OnTime` | *violated*: a late heartbeat clears its successor's lease |
| `MCFlows`, events | 1 turn, 2 responses of which one answers it, with words or without, 2 transcripts, 6 events, 2 overlapping calls | answered is applied; the endpoint implements `VoiceDialogue` |
| `MCFlows`, revision | 1 draft, an id that is none, 4 requests, 1 specialist, 1 reviewer, 2 overlapping deliveries, 3 asks | answered is revised, words make one item, the run is not left running |
| `MCFlows`, pass | 1 caller of pass, audit and readiness, 1 kind of media plan, 2 drafts or revisions, 1 feedback item at a time | readiness overlooks nothing that was wrong all along; passes do not pile up |
| `MCFlows`, page | 4 handlers of every kind but the restoring of the last run, 3 runs, 2 changes of view | controls have holders, mutations exclude each other, late answers are silent, the view is not taken over |
| `MCEdges`, supervisors | 1 supervisor that the shutdown stops, 3 children, 2 lives, 2 settings | one child per life and for good, shown as it is, locks are released |
| `MCEdges`, turns | 2 responses of 2 chunks, frames that do not divide chunks, 1 id remembered | cancellations reach their response, only the first is heard late, interrupts settle |
| `MCEdges`, pools | room for 1 pool of files and 2 streams, 3 streams, 2 requests | caches are listed and bounded, streams leave oldest first |
| `MCFlows_followup` | 1 response, 1 call | *violated*: a follow-up stays behind the final transcript |

**Bounds and why they are enough.**  Two workers and two calls are what a race
takes; every conflict in this code is between one write and one other reader or
writer of the same row.  Two tasks make a dependency; in the liveness run the older one waits, so
that a waiting task stands before a ready one in the inbox.  Two
attempts tell "one more" from "exhausted".  `BatchLimit` 1 in `MCA2A_race` is
below the number of tasks, so that listings and sweeps are cut off.  `BatchLimit` 2 is above the number
of waiting tasks in `MCA2A_live`; with `BatchLimit` 1, the default of `max_tasks`,
`ReadyTasksSettle` fails: a ready task stays hidden behind a waiting one whose
upstream has failed (no document promises otherwise; it is listed as a hazard),
and `SnapshotLimit` (1000 in the code) is kept at the number of tasks, so the
truncated snapshot is a hazard the runs do not reach.  Items are never deleted
in the code; the model bounds their number, and `Room` keeps an item free for
each heartbeat that is about to record one, so that the bound never blocks a
handler half way.  One profile is enough for the safety of leases, because
nothing two profiles do meets in one row except the run's gates; two are needed
for the ranking.  `MCHeartbeats_live` has neither items nor desks: gates end a
heartbeat early, and the record comes all the same.

The parts of `MCFlows` and `MCEdges` share no state; a behaviour is one of them,
which makes one run of several small ones.  Two deliveries or two requests are
what an overlap takes, and each of them may be repeated after it died, so that a
third is never needed for a race.  Chunks of 3 and frames of 2 samples leave a
remainder in the buffer that the next response meets.  Four handlers are one
whose answer is late, one of the same kind after it, and two more to fill the
view; with two changes of view the first view's run can be opened again.  In the
pass, two drafts are what it takes for plans of older drafts to be there; its one
caller may die anywhere and begin again, while drafts, revisions, claims and
feedback change at any time.  With two callers passes that overlap plan twice,
because nothing locks a run; it is a hazard no document speaks of.

**Symmetry.**  Workers of one agent (`MCA2A_race`, `MCA2A_open`), and items
(`MCHeartbeats_safe`), are interchangeable; the liveness runs use no
symmetry.  In `MCA2A_chain` agents differ and there is none.

**Deadlock** is checked in every run but `MCEdges`, where lives, lists and
children are bounded and used up.  In `MCFlows` the revision part may stop when
all its asks are spent (`RevisionsOver`) and the page when its handlers are
(`PageRests`); events and passes never stop.

## 4. Fairness

`A2AStudio!Fairness`: a worker process starts passes for ever (the scheduler's
loop and the `--watch` loops of the CLI), a pass goes on (a coroutine that is
not dead is resumed), time passes, and a handler that has begun ends.
Processes stop dying at some point (`NoMoreCrashes`); a worker that dies in each
pass finishes nothing, and its tasks go to exhaustion.  And clients stop sending again
a message that was recorded (`NoMoreResends`): each time, the upsert opens the
task afresh, and a task may be re-opened in this way whenever it is about to be
finished.  Nothing else is assumed of the people: they need not send, retry or
repair.

`ProfileHeartbeats!Fairness`: the same for scheduler passes, calls and leases.
`Work` is strongly fair because the code's worker cycle ends after `max_rounds`,
while the model abstracts it to a loop over blocked tasks.  `ProfilesLeftAlone`
is needed: a profile that is stopped whenever a pass has listed it keeps its
rank and, with `max_profiles` of 1, holds up the one behind it.

`VoiceTurns!TurnsFairness`: the event loop resumes the task of a response, and the
streams it reads deliver or end, since providers are called with timeouts.
Nothing is assumed of the creator or of the voice edge.

`ProcessSupervisors!SupervisorsFairness`: a spawn succeeds or fails, the waits under
the lock have a limit (`Ended`, `Kill`), and a child that was killed ends and is
reaped.  The last is a property of the operating system; a child in
uninterruptible sleep would hold up every request, because the code's wait after
the kill has no limit.  Nothing is assumed of a child that is merely terminated.

## 5. Theorems

All proofs are checked by TLAPS for every value of the constants.  The
assumptions on the constants are `LedgerAssumption`, `WorkerAssumption`,
`StudioAssumption`, `RefinementAssumption` (the null of `claimed_by_agent_id` is
no process), `GateAssumption`, `BeatAssumption` and, of the other modules,
those that they declare; TLC evaluates them in every run of the module.

* `A2AStudioProofs!TypeCorrect`: `Spec => []TypeOK`, with no assumption on the
  deployment.  It includes that attempts never pass `MaxAttempts`: the claim
  compares before it counts, and rows written back are old rows of the ledger.
* `A2AStudioProofs!OrderlyHolds`, `OneExecutor`, `LedgerNamesTheWorker`: under
  `Orderly` and while retries of one task do not overlap (both below), for any tasks, agents, workers, calls and batches.
  `SingleExecutor` is not inductive.  That a second worker cannot claim `t`
  needs the row of a held task to be marked (`HeldRowsAreMarked`), which recovery
  must not undo.  It cannot, because recovery sweeps only the inbox of its own
  agent, so that an agent's only worker, however slow, would have to recover the
  task it runs; with several workers the row must be fresh (`~aged`).  Nor may a
  retry undo it (`RetriesAreCurrent`: what a retry has checked is still so when it
  writes), nor the write-back of a listed row (`ListedRowsAreAccepted`: the only
  worker of an agent finds its listed rows accepted; or `NothingWaits`: without
  dependencies nothing is written back).
  `ClosingRowsAreCompleted`, `BusyAlone` and `BusyWorkersHaveJobs` extend this
  over the window between the COMPLETED write and its event.  The conjunction
  `OrderlyInv` is inductive; `MCA2A_chain` checks it as an invariant.
* `A2AStudioProofs!RetriesAloneReopen`: `OnlyRetriesReopen` for agents with one
  worker each, slow or not, and clients that send, retry and repair; retries and
  repairs of one task may overlap in any way, and events may fail.  Since a retry
  may take a task from under its worker, nothing of `OrderlyInv` is left here
  that relates rows to their workers.  What is left is who writes where: a
  worker writes rows of its own inbox only (`OwnRows`), and it sets a task going
  only from accepted, claimed or in progress.  The row that it writes back while
  the task waits is one it listed as accepted, and the row is still accepted when
  it does: to take it further takes a worker of the same agent, and this is the
  only one (`ReopenInv`).
* `A2AStudioProofs!OverlapIsBounded`: `OverlapWithinAttempts`, of slow workers too,
  under `OnlyGrowing`: tasks have no dependencies, so that no listed row is
  written back, and no retry or repeated message resets attempts.  Each of these
  takes an attempt back while a worker may still be running on it.  `OverlapInv`
  counts the holders of a task: a claim adds one and counts one attempt, all else
  only lets go.  A row nobody has sent has no holders (`AbsentRowsAreFresh`).
* `TaskBoardProofs!BoardKeepsUpstreamDone`: what `TaskBoard` promises of a held
  task follows from its moves, so it holds of whatever implements the board.
* `BoardProofs!LedgerIsABoard`: under `Orderly`, if events do not fail and retries
  and repairs of one task do not overlap, `Spec`
  implements `TaskBoard`.  `BoardInv` adds to `OrderlyInv` what the board needs to
  know of lists of dependencies: no row has more of them than it was sent with
  (`DepsAreGiven`); what a repair is about to write is a part of what is there
  (`RepairsOnlyRemove`); and a listed row that may still be written back differs
  from its row only by ids that repairs have taken from it since
  (`CopiesRestore`), so that the write-back is the board's `Revise` of an open
  task and not a rollback.  Each statement is then one move of the board or none:
  recovery is `Reopen`, exhaustion `Stop`, a crash `Vanish`, a retry `Readmit`, a
  repair or a write-back `Revise`.  The one step that is none of these is
  `EventFails`, the failure of the event after COMPLETED, which takes a done task
  off the board; `BoardStep` says that it is the only one.
* `BoardProofs!UpstreamDone`: `UpstreamStaysDone`, which no invariant of the
  ledger states directly, carried over from `BoardKeepsUpstreamDone` by the
  refinement, under the same conditions.
* `BoardProofs!OnlyFailedEventsUndo`, `CompletedStays`, `AttemptsStay`: what is left
  when repairs overlap and events fail.  A completed task is taken back only by
  the worker that completed it, into `failed`, when its closing event cannot be
  appended; if events do not fail this is `CompletedIsFinal`.  It follows from
  `OrderlyInv` statement by statement.  `AttemptsNeverRollBack` needs to know of
  the rows that may be written back only that they have the attempts of their
  rows (`CopiesCount`), which stays true because a listed row stays accepted and
  nothing counts an attempt of a task that stays accepted (`Counts`).
* `HeartbeatProofs!OneHeartbeat`, `HeartbeatProofs!LeasesAreSafe`: if heartbeats
  end within their lease (`OnTime`).  The invariant `LeaseInv` says that a
  heartbeat under way still has the lease it claimed; two heartbeats of one
  profile would have to be the same call.  The action property follows from the
  same invariant.
* `HeartbeatProofs!GatesHold`: unconditionally, `GatesStopHeartbeats`.  The invariant
  adds `HeldItemsAreOpen`: what has been open ever since the claim is open when
  the heartbeat lists the open items, so one that finds none holds none.  An item
  that is answered and re-opened in between was not open throughout, and may be
  missed.
* `HeartbeatProofs!GatesAreSingle`: `OneGatePerQuestion`, if heartbeats end within
  their lease.  `AskInv` says that a heartbeat asks for its own profile and that,
  between looking and recording, nobody has recorded what it asks; with
  `LeasesAreHeld` no other heartbeat can be asking the same.  Both speak of items
  that were not re-opened (`AsksFirst`): a person who re-opens an answered gate
  after a second one was filed makes two of them, which no document excludes.
* `HeartbeatProofs!ProfileTypes`: the types need that only the heartbeat of a
  profile asks for confirmations and records itself (`BeatsHaveProfiles`), and
  that no two profiles come to share a rank when the one visited goes last
  (`InLine`).
* `VoiceEventsProofs!EventTypes`, `AnsweredApplied`, `EventsAreADialogue`: for any
  turns, responses, events and overlapping calls.  `EventsInv` adds to the types
  what a call knows where it awaits (`CallsOK`: a turn it found is there, and
  what it read of a transcript is final or was not) and that a follow-up has its
  reply (`FollowupsHaveReplies`).  Turns and follow-ups only grow (`Grown`), so
  what one call knows no other call takes back.  Each action is then a move of
  `VoiceDialogue` or a stutter.
* `VoiceEventsProofs!FollowupsQuoteTruly`, `SaidIsSaid`: what any dialogue promises,
  proved of the moves of `VoiceDialogue` and carried over by the refinement.  A
  follow-up that quotes words quotes the final transcript of its turn
  (`QuotesAreFinal`), and neither a final transcript nor its quotation is ever
  replaced.  What remains false is only that a quotation catches up in time
  (finding 3): a follow-up may call a turn pending that is final by now.
* `EdgeProofs!SupervisorTypes`, `OneChild`, `ShownTrue`, `OneForGood`: for any
  supervisors, children, settings and lives.  `SupervisorsInv` says where the
  children are (`ChildrenKnown`: a living child of this life is the one in its
  supervisor's handle, what was reaped is dead, and without a crash or a refused
  kill no child outlives its life), that a start spawns only when nothing runs
  (`JobsOK`), that what is shown belongs to the child in the handle
  (`ShowsItsChild`), and that a supervisor with which the end of a life has dealt
  holds nothing or waits for its child to end (`EndStops`).
* `EdgeProofs!CancellationsArrive`, `StoppedAreSilent`: for any turns, responses,
  sizes of chunks and frames.  Whoever can be named by a cancellation has begun
  (`NamedHaveBegun`), so a cancellation never comes before the token it sets, and
  one that is skipped because its id is remembered was asked for before
  (`RememberedAreNamed`); what a stopped response has in the buffer was put there
  by the one response that waited for the output track (`StoppedAreCleared`).
* `EdgeProofs!CachesStay`, `OldestLeaves`: for any limits, configurations, streams
  and requests.  `VadInv` says that cached pools and their list correspond one to
  one (`OneToOne`), that a pool which nothing holds is forgotten (`FreeAreGone`),
  and of each slot (`SlotIsListed`) that its list names all it remembers, names
  twice or in vain only what has failed, and has the last mentions in the order
  in which the streams were heard.  The list may thus hold stale keys of failed
  streams in front: popping one may cost a stream that has since come back its
  memory, and no other.  What `VecDeque::retain` keeps is a recursion over the list,
  `Kept`; `KeptPicks` proves what it computes, by the least position at which it
  would fail (`LeastNat`).
* `StudioProofs!OneMutationPerView`, `ControlsAreHeld`, `LeftViewsAreSilent`,
  `ViewStays`: for any runs, gates, handlers and changes of view.  Flags and labels
  say too little by themselves.  `PageInv` adds that handlers are born in order and
  a gate's token grows with each and with each view left (`TokensAreCounted`); that
  a handler of this view holds its gate, and one of an earlier view has lost it
  for good (`GatesFollowViews`); who has set which flag (`FlagsFollowHandlers`);
  that an empty view is busy with the one handler that may bring it a run, while
  in any other each handler is about the run shown (`HandlersAgreeWithView`); and
  that a rendering lags behind only where no button is enabled
  (`RenderingFollows`).  The proof shows more than the properties say: a handler
  of the present view always passes `isRunVersionedActionCurrent`
  (`HereAreCurrent`), so the comparisons of tokens and runs in it add nothing to
  that of versions.
* `StudioProofs!VersionsSuffice`: a handler under way passes
  `isRunVersionedActionCurrent` exactly if it began in this view, that is if it
  passes `isRunVersionCurrent`.
* `StudioProofs!NothingIsOverlooked`: for any callers, media and number of
  artifacts.  What stood all through a check stood at each of its reads, and the
  invariant keeps what each read has found out (`ReadsAreKept`); an audit under
  way is at an artifact it has listed (`AuditsInTurn`).
* `StudioProofs!PlansAreBounded`: for finitely many callers of the pass, the copies
  of a plan or package for the same drafts are at most as many as the callers.
  The invariant counts (`PlansAreCounted`): copies made and passes about to make
  one are together at most the callers.  A pass comes to be about to make a plan
  only by a read that found none, when there is nothing to count but such passes.
  From the first copy on no pass joins them: each makes its copy and is no longer
  about to, or dies, and called again it finds what is there.
* `StudioProofs!NoPlansTwice`: `PassesDoNotPileUp` is this bound for one caller at a
  time (`OnePasser`).  The code does not lock a run: two passes at once find the
  same plan missing and both make it, so the bound is reached and the assumption
  cannot be dropped.
* `RevisionProofs!RevisionTypes`, `AnsweredRevised`, `AnsweredSettled`: for any
  requests, targets, specialists and overlapping deliveries.  `RevisionInv` says
  that a delivery at step `i` of its script has all writes before `i` in the
  store (`PassedIsRecorded`; writes are idempotent and never undone), that items
  have their targets (`ItemsAreAimed`), that scripts begin at their first step
  (`StartsAfresh`), and that a run that is running has a delivery under way, lost
  or refused (`RunningHasCause`).  `recorded` is kept finite for the targets.
* `RevisionProofs!OneItemPerWords`: `WordsMakeOneItem`.  Of two deliveries of the
  same words under way at once the second has noted it (`OverlapsAreNoted`, in
  `raced`, which belongs to the property and not to the code), and one that found
  no item is alone with its words until it records one (`NewItemsAreNew`).

* `EdgeProofs!EdgesAreTheirParts`, `StudioProofs!FlowsAreTheirParts`: a behaviour of
  `MCEdges` or `MCFlows` is one of each of its parts, so all theorems above hold of
  the compositions that the runs check.  `EdgesTypes` and `FlowsTypes` (`TypeOK`)
  follow from them and from the types of the parts.

**`Orderly`** names the deployments in which the statements of the store are
enough: no endpoint forces a status, no id is sent twice, and an agent has one
worker, or its workers are on time and tasks have no dependencies.  Calls of the
endpoints may overlap.  Each condition is needed.  Without dependencies but with
slow workers of one agent recovery hands out a task that is still run, which
`MCA2A_open` bounds; with dependencies and two workers of one agent a write-back
undoes a claim, as `MCA2A_rollback` shows; a forced status or an id sent again
re-opens a task under its worker.

Two hypotheses speak of the behaviour and not of the deployment.
`RetriesDoNotOverlap`: with two overlapping retries of a task the second re-opens
what a worker has claimed, or completed, since the first, as `MCA2A_retries`
shows; `RetriesAloneReopen` does without it.  `RepairsDoNotOverlap`:
of two overlapping repairs the second writes the list that it computed from the
row before the first, and gives back a dependency which the first has removed; a
worker may by then run the task.  With three tasks, the third depending on the
others, and two repairs that remove one dependency each, TLC finds a task under
way whose upstream is not completed; `CompletedIsFinal` and
`AttemptsNeverRollBack` hold of the same instance, as the theorems say.  Both
overlaps are listed as hazards, since the endpoints exclude neither.

**Model-checked only.**  Liveness (`ReadyTasksSettle`, `ClaimsAreReleased`,
`DueProfilesBeat`, `LocksAreReleased`, `InterruptsSettle`) is out of the prover's
reach, and so is ENABLED.  All other properties of passing runs are stated by a
theorem.  Of what the runs refute, `AttemptsNeverRollBack` and
`LeaseIsItsHolders` are proved under the assumption that is missing there.
`RetryOpensStoppedTasks` could be saved only by excluding the interleaving that
breaks it, so what is proved instead is `OnlyRetriesReopen`; of
`FollowupsCatchUp` nothing is proved.

## 6. Findings

1. **Write-back rolls back a claim** (`agent_worker.py:1015`).  A worker that
   finds a listed message waiting writes the whole listed row back; a claim by
   another worker of the agent in between is undone and its attempt is lost.
2. **A late heartbeat clears its successor's lease** (`postgres.py:2278`).  The
   record goes by profile only, and leases are not renewed.
3. **A follow-up stays behind the final transcript** (`app.py:4045`).  Follow-ups
   are brought up to date when a pending turn is promoted.  One that was created
   before its turn was recorded, or is inserted after the promotion has listed
   the messages, quotes the transcript as pending until the transcript is
   delivered once more.
4. **A retry re-opens a task that is being run** (`app.py:2207`).  The endpoint
   refuses all but blocked, failed and canceled tasks, by the row it has read;
   the write that follows asks for the id only.  Of two retries that overlap the
   second takes the task from the worker that has claimed, or completed, it since
   the first, and it can be claimed again while that worker is alive.

## 7. What the model leaves out of the parts it has

* What a specialist step writes: its artifacts, ledgers and packets.  Tasks it
  creates enter as `Send`.  `run_cycle` is repeated passes; the profile of a
  heartbeat and its claim are one step.
* The order within a pass's agenda is free (a superset of the code's order).
* `paused` is merged with `stopped`; profiles are not created in the model.
* Run statuses `created`, `failed` and `canceled`; the resolution ledger; items
  that feedback routing records as routed.  Resolved and rejected items are one
  status, since only the request tells them apart.
* `PostStatus` is one step for the read that authorises and the write: claimants
  are recipients or senders, so the answer does not depend on when the row is
  read.  A message is sent and sent again with the defaults, not with a status
  or a count of attempts that the client makes up.
* Whether a task is stopped is one flag in `RunGates`; the 200-message limit of
  the resume plan is a listed hazard.
* `resume_run` has its heartbeats and its worker cycle enabled, as by default.
* The policy that asks for a confirmation is a free choice, and checkpoints are
  not read back.
* Voice events: session records, tokens, presence, and the kinds of event that
  leave only a row of the log.
* Voice agent: capture of an utterance, binding of a session, pruning of the
  history, what a provider's stream contains.
* Supervisors: being disabled by settings, logs and reader tasks.  All of them
  share one bound on the lives of the API.
* Speech detector: scoring, the energy gate, the slots of a pool (one stands for
  each), the HTTP layer.
* Page: what answers contain; the event stream and the voice panel call the page
  at any time.  `MutationsExclude` leaves out the running of a work plan, which
  looks at two of the flags only.  The status token of the background runner
  (`page.tsx:1499`) is not there: only its start and stop move it, and their gate
  keeps them apart in one view, so an answer that passes the check of version
  and gate always passes this one too.
* Revision loop: items of older releases without targets, the provider's call
  and its events, other writers of the run's status.  Items are found in the
  order of their recording, where the code orders by `created_at`.
* Autonomous pass: the verdicts on health, graph, freshness and retrieval are
  free choices; worker cycles are specialists that write at any time; sources and
  retrieval evidence count as the claims' support; publish channels, targets by
  name, the request's switches but the one for the package, and the run status
  are left out, and so are ledgers, work plan, pulse and notes at the end.  All
  drafts are an expert model's: one that is not is blocked for good, as a
  revision without the model is.
* Authorisation, missing runs and malformed requests end a handler before its
  first write, and are not modelled.

## 8. Plan

Done: task ledger, worker and endpoints with their abstract specification;
profiles, heartbeats, resumed runs and gates; voice events with theirs; the voice
agent; supervisors; the speech detector; the page; the revision loop; the
autonomous pass with audit and readiness.  The types of all of them, the
invariants and action properties that the runs check, the refinements of the
ledger and of the voice events, and the compositions are proved.

What would come next, in this order:

1. Tasks and gates in one module, for the status of the run against what holds
   it up; overlapping repairs; the two listing limits.
2. The producers of tasks (feedback routing, work plan, sync pulse), whose tasks
   enter the ledger as `Send` now.
3. Autopilot launch with the creation of profiles; the browser's event stream.
4. Theorems under less than `Orderly`: what an id sent again and a forced status
   can undo, and how far the rollback of a claim and overlapping retries reach.
   Overlapping calls, slow workers of an agent that has one, failing events and
   overlapping repairs are covered where their theorems say so.
