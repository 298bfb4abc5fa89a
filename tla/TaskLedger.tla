----------------------------- MODULE TaskLedger -----------------------------
(***************************************************************************)
(* The durable A2A task ledger of one run: the rows of agent_messages and  *)
(* the status column of runs, with the statements PostgresStore executes   *)
(* on them.  Every method of the store is one autocommitted statement, so  *)
(* each operator below is one atomic write; what happens between two of    *)
(* them is the business of the modules that extend this one.               *)
(*                                                                         *)
(* Tasks are numbered in created_at order.  updated_at is abstracted to    *)
(* aged[t], "updated_at is older than stale_task_after_seconds": every     *)
(* write clears it and the passage of time sets it.  Payloads, results,    *)
(* errors and the handoff trace are left out.                              *)
(***************************************************************************)
EXTENDS Naturals, FiniteSets

CONSTANTS NumTasks,     \* tasks 1 .. NumTasks of the run, in created_at order
          Agents,       \* agent ids
          NoAgent,      \* the null of claimed_by_agent_id
          Recipient,    \* recipient_agent_id of each task
          Sender,       \* sender_agent_id of each task
          InitialDeps,  \* depends_on_message_ids of each task as it is sent
          MaxAttempts,  \* max_attempts of each task as it is sent
          BatchLimit,   \* max_tasks of a worker request
          SnapshotLimit \* limit of the dependency snapshot (1000 in the code)

Task == 1 .. NumTasks

ASSUME LedgerAssumption ==
    /\ NumTasks \in Nat \ {0}
    /\ NoAgent \notin Agents
    /\ Recipient \in [Task -> Agents]
    /\ Sender \in [Task -> Agents]
    /\ InitialDeps \in [Task -> SUBSET Task]
    /\ MaxAttempts \in Nat \ {0}
    /\ BatchLimit \in Nat \ {0}
    /\ SnapshotLimit \in Nat \ {0}

VARIABLES ledger,    \* ledger[t]: the row of task t
          aged,      \* aged[t]: updated_at of the row lies before stale_before
          runStatus  \* runs.status

ledgerVars == <<ledger, aged, runStatus>>

-----------------------------------------------------------------------------
TaskStatus == {"absent", "accepted", "claimed", "in_progress",
               "waiting_for_human", "completed", "failed", "blocked",
               "canceled"}

\* STALE_RECOVERABLE_AGENT_TASK_STATUSES
StaleRecoverable == {"claimed", "in_progress"}

\* Faulty variant of Retriable: finished work may be retried too.
RetriableOrDone == {"blocked", "failed", "canceled", "completed"}

\* The statuses from which the retry endpoint re-opens a task.
Retriable == {"blocked", "failed", "canceled"}

RunStatus == {"running", "waiting_for_human"}

Row == [status      : TaskStatus,
        claimedBy   : Agents \cup {NoAgent},
        attempts    : 0 .. MaxAttempts,
        maxAttempts : 1 .. MaxAttempts,
        deps        : SUBSET Task]

NoRow == [status |-> "absent", claimedBy |-> NoAgent, attempts |-> 0,
          maxAttempts |-> MaxAttempts, deps |-> {}]

\* The AgentMessage a client constructs for task t: the defaults of the model.
NewMessage(t) == [NoRow EXCEPT !.status = "accepted", !.deps = InitialDeps[t]]

LedgerTypeOK ==
    /\ ledger \in [Task -> Row]
    /\ aged \in [Task -> BOOLEAN]
    /\ runStatus \in RunStatus

LedgerInit ==
    /\ ledger = [t \in Task |-> NoRow]
    /\ aged = [t \in Task |-> FALSE]
    /\ runStatus = "running"

-----------------------------------------------------------------------------
(* Queries *)

Status(t) == ledger[t].status

Sent == {t \in Task : Status(t) # "absent"}

\* order by created_at asc limit n
Oldest(S, n) == {t \in S : Cardinality({u \in S : u < t}) < n}

\* for update ... limit BatchLimit: which rows go first follows updated_at,
\* which is abstracted away.
Batches(S) ==
    {B \in SUBSET S : Cardinality(B) = BatchLimit
                      \/ (B = S /\ Cardinality(S) < BatchLimit)}

\* list_agent_messages(direction = "inbox", status = ACCEPTED)
AcceptedInbox(a) == {t \in Task : Recipient[t] = a /\ Status(t) = "accepted"}

\* _unmet_dependency_message_ids, against the messages listed with a limit
Unmet(row) ==
    {d \in row.deps : d \notin Oldest(Sent, SnapshotLimit)
                      \/ Status(d) # "completed"}

\* Faulty variants of Claimable: without the status guard, and without the
\* attempt guard.
ClaimableInAnyStatus(t, a) ==
    /\ Recipient[t] = a
    /\ ledger[t].attempts < ledger[t].maxAttempts
    /\ \A d \in ledger[t].deps : Status(d) = "completed"

ClaimableForEver(t, a) ==
    /\ Recipient[t] = a
    /\ Status(t) = "accepted"
    /\ \A d \in ledger[t].deps : Status(d) = "completed"

Claimable(t, a) ==
    /\ Recipient[t] = a
    /\ Status(t) = "accepted"
    /\ ledger[t].attempts < ledger[t].maxAttempts
    /\ \A d \in ledger[t].deps : Status(d) = "completed"

\* Faulty variant of StaleTasks: one of the two statuses is forgotten.
StaleClaimedTasks(a) ==
    {t \in Task : Recipient[t] = a /\ Status(t) = "claimed" /\ aged[t]}

StaleTasks(a) ==
    {t \in Task : Recipient[t] = a /\ Status(t) \in StaleRecoverable /\ aged[t]}

\* Faulty variants of ExhaustedTasks: without the status guard, and with the
\* comparison off by one.
ExhaustedInAnyStatus(a) ==
    {t \in Task : Recipient[t] = a /\ ledger[t].attempts >= ledger[t].maxAttempts}

OverExhaustedTasks(a) ==
    {t \in AcceptedInbox(a) : ledger[t].attempts > ledger[t].maxAttempts}

ExhaustedTasks(a) ==
    {t \in AcceptedInbox(a) : ledger[t].attempts >= ledger[t].maxAttempts}

-----------------------------------------------------------------------------
(* Statements *)

\* rows maps the ids a statement writes to their new rows; updated_at = now()
\* on each of them.
UpdateRows(rows) ==
    /\ ledger' = [t \in Task |-> IF t \in DOMAIN rows THEN rows[t] ELSE ledger[t]]
    /\ aged' = [t \in Task |-> aged[t] /\ t \notin DOMAIN rows]

\* coalesce(claimed_by_agent_id, a)
ClaimantOr(t, a) ==
    IF ledger[t].claimedBy = NoAgent THEN a ELSE ledger[t].claimedBy

\* record_agent_message: an upsert that takes every column from its argument.
RecordAgentMessage(t, row) == UpdateRows([u \in {t} |-> row])

\* try_claim_agent_message
TryClaimAgentMessage(t, a) ==
    /\ Claimable(t, a)
    /\ UpdateRows([u \in {t} |->
         [ledger[u] EXCEPT !.status = "claimed", !.claimedBy = a, !.attempts = @ + 1]])

\* Faulty variant of RecoverStaleAgentMessages: a recovered task starts from
\* zero attempts.
RecoverAndResetAttempts(S) ==
    UpdateRows([u \in S |->
        [ledger[u] EXCEPT !.status = "accepted", !.claimedBy = NoAgent, !.attempts = 0]])

\* recover_stale_agent_messages
RecoverStaleAgentMessages(S) ==
    UpdateRows([u \in S |->
        [ledger[u] EXCEPT !.status = "accepted", !.claimedBy = NoAgent]])

\* block_exhausted_agent_messages
BlockExhaustedAgentMessages(S) ==
    UpdateRows([u \in S |->
        [ledger[u] EXCEPT !.status = "blocked",
                          !.claimedBy = ClaimantOr(u, Recipient[u])]])

\* update_agent_message_status: no guard on the status or the claimant.
UpdateAgentMessageStatus(t, s, a) ==
    UpdateRows([u \in {t} |->
        [ledger[u] EXCEPT !.status = s, !.claimedBy = ClaimantOr(u, a)]])

\* authorize_agent_message_retry: no guard on the status either.
AuthorizeAgentMessageRetry(t, reset, max) ==
    UpdateRows([u \in {t} |->
        [ledger[u] EXCEPT !.status = "accepted",
                          !.claimedBy = NoAgent,
                          !.attempts = IF reset THEN 0 ELSE @,
                          !.maxAttempts = max]])

\* Faulty variant of WriteRemainingDependencies: the repair re-opens the task.
WriteAndReopen(t, remaining) ==
    UpdateRows([u \in {t} |->
        [ledger[u] EXCEPT !.deps = remaining, !.status = "accepted", !.claimedBy = NoAgent]])

\* The write of repair_agent_message_dependencies.
WriteRemainingDependencies(t, remaining) ==
    UpdateRows([u \in {t} |->
        [ledger[u] EXCEPT !.deps = remaining,
                          !.claimedBy = IF Status(u) = "accepted" THEN NoAgent ELSE @]])

\* updated_at of a claimed or in-progress row falls behind stale_before.
GrowStale(t) ==
    /\ Status(t) \in StaleRecoverable
    /\ ~aged[t]
    /\ aged' = [aged EXCEPT ![t] = TRUE]
    /\ UNCHANGED <<ledger, runStatus>>
=============================================================================
