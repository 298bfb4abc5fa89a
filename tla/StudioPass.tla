----------------------------- MODULE StudioPass -----------------------------
(***************************************************************************)
(* The autonomous pass over a run (AutonomousStudioPassWorkflow.run) with  *)
(* the workflows it calls one after the other: media plans, distribution   *)
(* package, guardrail audit, publish readiness.  The last two are          *)
(* endpoints of their own.  Meanwhile specialists write drafts, creators   *)
(* revise them and answer feedback, claims gain and lose their support.    *)
(*                                                                         *)
(* That a check parks or completes the run is left to RunGates: nothing    *)
(* here reads the run's status, and other handlers write it too.           *)
(*                                                                         *)
(* Artifacts are numbered in the order of their creation and never change, *)
(* so that what was listed at some moment is a number.                     *)
(***************************************************************************)
EXTENDS Integers, Sequences, FiniteSets

CONSTANTS Passers,    \* callers of the pass
          Checkers,   \* callers of the audit and of the readiness check
          MediaTypes, \* the kinds of media plans, in the order they are made
          Slots,      \* room for feedback items that are open or routed
          MaxWritten  \* bound on drafts and on revisions, taken together

ASSUME PassAssumption ==
    /\ MediaTypes \in Seq(STRING)
    /\ MaxWritten \in Nat

VARIABLES artifacts, \* the artifacts of the run
          approved,  \* those whose latest audit approves them
          supported, \* are all claims of the run supported
          items,     \* items[s]: the feedback item in slot s
          caller,    \* caller[c]: where c awaits, and what it has read
          standing   \* standing[c]: what was wrong all through c's check

passVars == <<artifacts, approved, supported, items, caller, standing>>

Callers == Passers \cup Checkers

Media == {MediaTypes[i] : i \in DOMAIN MediaTypes}

\* Of an artifact: is it linked to claims, and may an expert model have written it.
Artifact == [type : Media \cup {"draft", "package"}, from : SUBSET Nat, parent : Nat,
             linked : BOOLEAN, expert : BOOLEAN]

\* The four awaits of a readiness check up to its verdict.
Checking == {"readiness", "listing", "audits", "decide"}

\* The awaits of a pass.
Passing == {"feedback", "evidence", "media", "make", "package", "bundle"}

CallerState ==
    [at : {"idle", "audit", "claims", "auditing", "gate"} \cup Passing \cup Checking,
     job : {"none", "pass", "audit", "readiness"}, seen : Nat, todo : Nat,
     plans : SUBSET Media, claims : BOOLEAN, audits : SUBSET Nat]

IdleCaller == [at |-> "idle", job |-> "none", seen |-> 0, todo |-> 0, plans |-> {},
               claims |-> FALSE, audits |-> {}]

-----------------------------------------------------------------------------
\* What the first n artifacts leave current, of some types.
LeavesAmong(types, n) ==
    {a \in 1..n : artifacts[a].type \in types} \ {artifacts[a].parent : a \in 1..n}

Drafts(n) == LeavesAmong({"draft"}, n)

Publishable(n) == LeavesAmong(Media \cup {"draft", "package"}, n)

PlannedFor(type, drafts, n) ==
    \E a \in 1..n : artifacts[a].type = type /\ artifacts[a].from = drafts

\* Faulty variant of MissingMedia: every kind is planned by every pass.
AllMedia(n) == Media

\* _media_request_for_current_content
MissingMedia(n) == {t \in Media : ~PlannedFor(t, Drafts(n), n)}

Linked(drafts) == \E a \in drafts : artifacts[a].linked

Plan(type, drafts) ==
    [type |-> type, from |-> drafts, parent |-> 0, linked |-> Linked(drafts),
     expert |-> type # "package"]

\* _audit_artifact
Approves(a, claims) == artifacts[a].linked /\ claims

\* Faulty variant of Unresolved.
StillOpen(s) == items[s] = "open"

\* _open_feedback_count
Unresolved(s) == items[s] \in {"open", "routed"}

\* _assess_readiness, of what was listed, with the claims and audits as read.
Ready(n, claims, audits) ==
    /\ Publishable(n) # {}
    /\ claims
    /\ \A a \in Publishable(n) :
         artifacts[a].linked /\ artifacts[a].expert /\ a \in audits
    /\ \A s \in Slots : ~Unresolved(s)

-----------------------------------------------------------------------------
PassTypeOK ==
    /\ artifacts \in Seq(Artifact)
    /\ \A a \in DOMAIN artifacts : artifacts[a].parent < a /\ artifacts[a].from \subseteq 1..(a - 1)
    /\ approved \subseteq DOMAIN artifacts
    /\ supported \in BOOLEAN
    /\ items \in [Slots -> {"none", "open", "routed"}]
    /\ caller \in [Callers -> CallerState]
    /\ \A c \in Callers :
         /\ caller[c].seen \in 0..Len(artifacts)
         /\ caller[c].audits \subseteq DOMAIN artifacts

PassInit ==
    /\ artifacts = <<>>
    /\ approved = {}
    /\ supported \in BOOLEAN
    /\ items = [s \in Slots |-> "none"]
    /\ caller = [c \in Callers |-> IdleCaller]
    /\ standing = [c \in Callers |-> {}]

Goto(c, label) == caller' = [caller EXCEPT ![c].at = label]

\* An audit is followed by the readiness check in a pass.  What comes after the
\* check, or is left of a pass that is blocked, are ledgers, notes and packets.
AfterAudit(c) ==
    [IdleCaller EXCEPT !.job = IF caller[c].job = "pass" THEN "pass" ELSE "none",
                       !.at = IF caller[c].job = "pass" THEN "readiness" ELSE "idle"]

\* The health of the providers, cycles and tasks without attempts left are
\* checked first and may end the pass, or keep it from more than audit and
\* readiness; both are choices of CheckEvidence.
BeginPass(c) ==
    /\ caller[c].at = "idle"
    /\ caller' = [caller EXCEPT ![c] = [IdleCaller EXCEPT !.at = "feedback", !.job = "pass"]]
    /\ UNCHANGED <<artifacts, approved, supported, items>>

\* Read once, for all that follows.
ReadOpenFeedback(c) ==
    /\ caller[c].at = "feedback"
    /\ caller' = [caller EXCEPT ![c] =
                    IF \E s \in Slots : items[s] = "open"
                      THEN IdleCaller ELSE [@ EXCEPT !.at = "evidence"]]
    /\ UNCHANGED <<artifacts, approved, supported, items>>

\* The worker cycles are other workers' too: Draft stands for what they write.
CheckEvidence(c) ==
    /\ caller[c].at = "evidence"
    /\ \/ caller' = [caller EXCEPT ![c] = IdleCaller]
       \/ Goto(c, "audit")
       \/ Goto(c, "media")
    /\ UNCHANGED <<artifacts, approved, supported, items>>

SelectMedia(c) ==
    /\ caller[c].at = "media"
    /\ LET n == Len(artifacts) IN
       IF Drafts(n) = {} \/ MissingMedia(n) = {}
         THEN Goto(c, "package")
         ELSE caller' = [caller EXCEPT ![c].at = "make", ![c].seen = n, ![c].plans = MissingMedia(n)]
    /\ UNCHANGED <<artifacts, approved, supported, items>>

\* The kinds that are missing, one after the other.
MakeMedia(c) ==
    /\ caller[c].at = "make"
    /\ \E i \in DOMAIN MediaTypes :
         LET left == caller[c].plans \ {MediaTypes[i]} IN
         /\ MediaTypes[i] \in caller[c].plans
         /\ \A j \in 1..(i - 1) : MediaTypes[j] \notin caller[c].plans
         /\ artifacts' = Append(artifacts, Plan(MediaTypes[i], Drafts(caller[c].seen)))
         /\ caller' = [caller EXCEPT ![c] =
                         IF left = {} THEN [IdleCaller EXCEPT !.at = "package", !.job = "pass"]
                         ELSE [@ EXCEPT !.plans = left]]
    /\ UNCHANGED <<approved, supported, items>>

\* The request says whether a package is wanted.
SelectPackage(c) ==
    /\ caller[c].at = "package"
    /\ LET n == Len(artifacts) IN
       \/ Goto(c, "audit")
       \/ /\ Drafts(n) # {}
          /\ ~PlannedFor("package", Drafts(n), n)
          /\ caller' = [caller EXCEPT ![c].at = "bundle", ![c].seen = n]
    /\ UNCHANGED <<artifacts, approved, supported, items>>

Bundle(c) ==
    /\ caller[c].at = "bundle"
    /\ artifacts' = Append(artifacts, Plan("package", Drafts(caller[c].seen)))
    /\ caller' = [caller EXCEPT ![c].at = "audit", ![c].seen = 0]
    /\ UNCHANGED <<approved, supported, items>>

\* POST /api/runs/{id}/guardrail-audit
CallAudit(c) ==
    /\ caller[c].at = "idle"
    /\ caller' = [caller EXCEPT ![c].at = "audit", ![c].job = "audit"]
    /\ UNCHANGED <<artifacts, approved, supported, items>>

ListAuditable(c) ==
    /\ caller[c].at = "audit"
    /\ caller' = [caller EXCEPT ![c] =
                    IF artifacts = <<>> THEN AfterAudit(c)
                    ELSE [@ EXCEPT !.at = "claims", !.seen = Len(artifacts), !.todo = 1]]
    /\ UNCHANGED <<artifacts, approved, supported, items>>

ReadClaims(c) ==
    /\ caller[c].at = "claims"
    /\ caller' = [caller EXCEPT ![c].at = "auditing", ![c].claims = supported]
    /\ UNCHANGED <<artifacts, approved, supported, items>>

RecordAudit(c) ==
    /\ caller[c].at = "auditing"
    /\ LET a == caller[c].todo IN
          /\ approved' = IF Approves(a, caller[c].claims) THEN approved \cup {a} ELSE approved \ {a}
          /\ caller' = [caller EXCEPT ![c] =
                 IF a = @.seen THEN AfterAudit(c) ELSE [@ EXCEPT !.todo = a + 1]]
    /\ UNCHANGED <<artifacts, supported, items>>

\* POST /api/runs/{id}/publish-readiness
CallReadiness(c) ==
    /\ caller[c].at = "idle"
    /\ caller' = [caller EXCEPT ![c].at = "readiness", ![c].job = "readiness"]
    /\ UNCHANGED <<artifacts, approved, supported, items>>

ReadSupport(c) ==
    /\ caller[c].at = "readiness"
    /\ caller' = [caller EXCEPT ![c].at = "listing", ![c].claims = supported]
    /\ UNCHANGED <<artifacts, approved, supported, items>>

ListPublishable(c) ==
    /\ caller[c].at = "listing"
    /\ caller' = [caller EXCEPT ![c].at = "audits", ![c].seen = Len(artifacts)]
    /\ UNCHANGED <<artifacts, approved, supported, items>>

ReadAudits(c) ==
    /\ caller[c].at = "audits"
    /\ caller' = [caller EXCEPT ![c].at = "decide", ![c].audits = approved]
    /\ UNCHANGED <<artifacts, approved, supported, items>>

\* The feedback items are read last.
CallsItReady(c) == Ready(caller[c].seen, caller[c].claims, caller[c].audits)

Decide(c) ==
    /\ caller[c].at = "decide"
    /\ \/ CallsItReady(c) /\ caller' = [caller EXCEPT ![c] = IdleCaller]
       \/ ~CallsItReady(c) /\ caller[c].job = "readiness" /\ caller' = [caller EXCEPT ![c] = IdleCaller]
       \/ ~CallsItReady(c) /\ caller' = [caller EXCEPT ![c] =
                                   [IdleCaller EXCEPT !.at = "gate", !.job = caller[c].job]]
    /\ UNCHANGED <<artifacts, approved, supported, items>>

OpenReadinessGate(c) ==
    /\ caller[c].at = "gate"
    /\ \E s \in Slots :
         /\ items[s] = "none"
         /\ items' = [items EXCEPT ![s] = "open"]
    /\ caller' = [caller EXCEPT ![c] = IdleCaller]
    /\ UNCHANGED <<artifacts, approved, supported>>

Die(c) ==
    /\ caller[c].at # "idle"
    /\ caller' = [caller EXCEPT ![c] = IdleCaller]
    /\ UNCHANGED <<artifacts, approved, supported, items>>

-----------------------------------------------------------------------------
Written ==
    Cardinality({a \in DOMAIN artifacts : artifacts[a].type = "draft" \/ artifacts[a].parent # 0})

\* A specialist writes a draft, a new one or a version of one; it keeps the claims.
Draft ==
    /\ Written < MaxWritten
    /\ \E parent \in {0} \cup Drafts(Len(artifacts)) :
         artifacts' = Append(artifacts, [type |-> "draft", from |-> {}, parent |-> parent,
                                         linked |-> TRUE, expert |-> TRUE])
    /\ UNCHANGED <<approved, supported, items, caller>>

\* The revision loop (RevisionLoop).  What the model writes names no claims, what
\* is written without it names those in the parent's content, where plans have none.
Revise ==
    /\ Written < MaxWritten
    /\ \E a \in Publishable(Len(artifacts)), byModel \in BOOLEAN :
         artifacts' = Append(artifacts,
            [type |-> artifacts[a].type, from |-> {}, parent |-> a,
             linked |-> artifacts[a].linked /\ ~byModel /\ artifacts[a].type \notin Media,
             expert |-> byModel \/ artifacts[a].type \in Media])
    /\ UNCHANGED <<approved, supported, items, caller>>

VerifyClaims ==
    /\ supported' = ~supported
    /\ UNCHANGED <<artifacts, approved, items, caller>>

\* A creator's or an agent's item is filed, routed to a specialist, resolved.
AnswerFeedback ==
    /\ \E s \in Slots :
         \/ items[s] = "none" /\ items' = [items EXCEPT ![s] = "open"]
         \/ items[s] = "open" /\ items' = [items EXCEPT ![s] = "routed"]
         \/ Unresolved(s) /\ items' = [items EXCEPT ![s] = "none"]
    /\ UNCHANGED <<artifacts, approved, supported, caller>>

-----------------------------------------------------------------------------
\* What keeps a run from being ready, as it is at this moment.
Faults ==
    (IF supported THEN {} ELSE {[kind |-> "claims", of |-> 0]})
    \cup {[kind |-> "item", of |-> s] : s \in {s \in Slots : items[s] # "none"}}
    \cup {[kind |-> "artifact", of |-> a] : a \in
            {a \in Publishable(Len(artifacts)) :
                ~(artifacts[a].linked /\ artifacts[a].expert /\ a \in approved)}}

WatchFaults ==
    standing' = [c \in Callers |->
        CASE caller'[c].at \notin Checking -> {}
          [] caller'[c].at \in Checking /\ caller[c].at \notin Checking -> Faults'
          [] OTHER -> standing[c] \cap Faults']

PassStep(c) ==
    \/ BeginPass(c)
    \/ ReadOpenFeedback(c)
    \/ CheckEvidence(c)
    \/ SelectMedia(c)
    \/ MakeMedia(c)
    \/ SelectPackage(c)
    \/ Bundle(c)

CheckStep(c) ==
    \/ ListAuditable(c)
    \/ ReadClaims(c)
    \/ RecordAudit(c)
    \/ ReadSupport(c)
    \/ ListPublishable(c)
    \/ ReadAudits(c)
    \/ Decide(c)
    \/ OpenReadinessGate(c)
    \/ Die(c)

PassNext ==
    /\ \/ \E c \in Passers : PassStep(c)
       \/ \E c \in Checkers : CallAudit(c) \/ CallReadiness(c)
       \/ \E c \in Callers : CheckStep(c)
       \/ Draft
       \/ Revise
       \/ VerifyClaims
       \/ AnswerFeedback
    /\ WatchFaults

PassSpec == PassInit /\ [][PassNext]_passVars

-----------------------------------------------------------------------------
\* A run is called ready only if nothing was wrong with it all through the
\* check: claims, artifacts, audits and feedback are read one after the other
\* while all of them change, yet no open or routed item, no claim without
\* support and no current artifact without an approving audit is overlooked
\* that was there from beginning to end (PublishReadinessWorkflow.run).
ReadyOverlooksNothing ==
    \A c \in Callers : caller[c].at = "decide" /\ CallsItReady(c) => standing[c] = {}

\* Passes made again and again do not pile up their work: wherever the earlier
\* ones died and whatever was written since, there is one plan of a kind and one
\* package for the same drafts (_media_request_for_current_content,
\* _distribution_request_for_current_content).
PassesDoNotPileUp ==
    \A a, b \in DOMAIN artifacts :
        /\ artifacts[a].from # {}
        /\ artifacts[a].type = artifacts[b].type
        /\ artifacts[a].from = artifacts[b].from
        => a = b
=============================================================================
