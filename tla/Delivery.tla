------------------------------ MODULE Delivery ------------------------------
(***************************************************************************)
(* The delivery pipeline of WebhookHub: the rows of the tables webhooks,    *)
(* delivery_attempts and forwarding_rules, the worker pool that claims,     *)
(* delivers and settles them, and the operator's requests (replay, delete,  *)
(* rule edits, pause) and retention that change the same rows.              *)
(*                                                                          *)
(* Every database transaction is one step; between two transactions of a    *)
(* worker anything else may happen.  Time is abstracted to what the queries *)
(* compare: a retry is still "waiting" or "due", a lease is "live" or       *)
(* "expired".  Everything the environment may do without end (crashes,      *)
(* failed calls, stalls, operator requests) draws on one budget,            *)
(* MaxInterference.                                                         *)
(***************************************************************************)
EXTENDS Integers, Sequences, FiniteSets

CONSTANTS
    Hooks,            \* ids of webhooks, never reused (serial primary key)
    Sources,          \* names under /hook/
    SourceOf,         \* the source a webhook was received for; never changes
    Workers,          \* goroutines of all delivery pools
    Pools,            \* the set of pools, one per process: each a set of workers
    RuleAttempts,     \* values of retry_max_attempts stored in rules
    Replies,          \* bodies a target may answer with
    MaxInterference   \* bound: total of faults, restarts and operator requests

ASSUME PoolsAssumption == \A w \in Workers : \E P \in Pools : \A Q \in Pools : w \in Q <=> Q = P
ASSUME HooksAssumption == SourceOf \in [Hooks -> Sources]
ASSUME RuleAssumption == RuleAttempts \subseteq Int /\ RuleAttempts # {}
ASSUME RepliesAssumption == Replies \subseteq {"none", "whole", "cut"} /\ "none" \in Replies
ASSUME BoundAssumption == MaxInterference \in Nat

VARIABLES
    hooks,       \* table webhooks
    attempts,    \* table delivery_attempts, per webhook in order of id
    rules,       \* table forwarding_rules
    pc,          \* where each worker is in runWorker/Forward
    claim,       \* the *model.Webhook each worker holds in memory
    plan,        \* the rule it loaded
    attempt,     \* the attempt id it was given
    result,      \* the DeliveryResult it computed
    stopping,    \* the pools whose context is cancelled
    replayedAt,  \* history: attempts recorded when the webhook was last replayed
    spent        \* used part of MaxInterference

tables == <<hooks, attempts, rules>>
locals == <<pc, claim, plan, attempt, result>>
vars   == <<tables, locals, stopping, replayedAt, spent>>

-----------------------------------------------------------------------------
(* Data.  A body "cut" is one longer than maxBody: its first MiB is stored   *)
(* with the attempt's response_truncated set.                                *)

Bodies       == Replies
Queued       == {"pending", "retrying"}
Settled      == {"success", "skipped", "dead_lettered"}
Statuses     == Queued \cup Settled \cup {"processing", "unsaved", "deleted"}
Outcomes     == {"success", "failed", "cancelled", "skipped"}
AttemptState == Outcomes \cup {"pending", "interrupted"}

Row     == [status   : Statuses,
            failures : Nat,                             \* failure_count
            retry    : {"none", "waiting", "due"},      \* next_retry_at
            lease    : {"none", "live", "expired"},     \* delivery_lease_until
            version  : Nat,                             \* delivery_lease_version
            response : Bodies,
            dead     : {"none", "set"}]                 \* dead_lettered_at
Attempt == [status : AttemptState, body : Bodies]
Rule    == [max : RuleAttempts, paused : BOOLEAN]
Claim   == [hook : Hooks, version : Nat, failures : Nat]
Result  == [status : Outcomes, retry : {"none", "set"}, body : Bodies]  \* retry: NextRetryAt

NoRule   == [none |-> "rule"]
NoClaim  == [none |-> "claim"]
NoResult == [none |-> "result"]

EmptyRow(status, version) ==
    [status |-> status, failures |-> 0, retry |-> "none", lease |-> "none",
     version |-> version, response |-> "none", dead |-> "none"]

Stored(h)  == hooks[h].status \notin {"unsaved", "deleted"}
RuleOf(h)  == rules[SourceOf[h]]
Held(s)    == rules[s] # NoRule /\ rules[s].paused
Active(w)  == pc[w] # "idle"
Stopped(w) == \E P \in stopping : w \in P
Owns(w, h) == Active(w) /\ claim[w].hook = h /\ claim[w].version = hooks[h].version

\* normalizeMaxAttempts: an unset or negative maximum falls back to the default.
DefaultMaxAttempts == 3
NormalizeMaxAttempts(value) == IF value <= 0 THEN DefaultMaxAttempts ELSE value

Interfere == spent < MaxInterference /\ spent' = spent + 1

Init == /\ hooks      = [h \in Hooks |-> EmptyRow("unsaved", 0)]
        /\ attempts   = [h \in Hooks |-> <<>>]
        /\ rules      \in [Sources -> Rule \cup {NoRule}]
        /\ pc         = [w \in Workers |-> "idle"]
        /\ claim      = [w \in Workers |-> NoClaim]
        /\ plan       = [w \in Workers |-> NoRule]
        /\ attempt    = [w \in Workers |-> 0]
        /\ result     = [w \in Workers |-> NoResult]
        /\ stopping   = {}
        /\ replayedAt = [h \in Hooks |-> 0]
        /\ spent      = 0

-----------------------------------------------------------------------------
(* Intake.                                                                   *)

\* ReceiveWebhook's last step: the event is persisted before 202 is answered.
Save(h) ==
    /\ hooks[h].status = "unsaved"
    /\ hooks' = [hooks EXCEPT ![h] = EmptyRow("pending", 0)]
    /\ UNCHANGED <<attempts, rules, locals, stopping, replayedAt, spent>>

-----------------------------------------------------------------------------
(* A worker: claim, load the rule, create the attempt, deliver, finish.      *)

\* (Eligible_... and the like, here and below: slips of the code that the
\* properties must notice; no action uses them.)
Eligible_liveLeases(row) == \/ row.status \in {"pending", "processing"}
                            \/ row.status = "retrying" /\ row.retry = "due"

Eligible_neverReclaims(row) == \/ row.status = "pending"
                               \/ row.status = "retrying" /\ row.retry = "due"

Eligible_skippedToo(row) == \/ row.status \in {"pending", "skipped"}
                            \/ row.status = "retrying" /\ row.retry = "due"
                            \/ row.status = "processing" /\ row.lease = "expired"

Eligible(row) == \/ row.status = "pending"
                 \/ row.status = "retrying" /\ row.retry = "due"
                 \/ row.status = "processing" /\ row.lease = "expired"

ClaimedRow_clearsFailures(row) ==
    [row EXCEPT !.status = "processing", !.retry = "none", !.lease = "live",
                !.version = @ + 1, !.failures = 0]

ClaimedRow(row) == [row EXCEPT !.status = "processing", !.retry = "none",
                               !.lease = "live", !.version = @ + 1]

Interrupted_wholeHistory(history) ==
    [i \in DOMAIN history |-> [history[i] EXCEPT !.status = "interrupted"]]

\* A stale processing row's open attempt is closed by the claim that takes over.
Interrupted(history) ==
    [i \in DOMAIN history |->
        IF history[i].status = "pending" THEN [history[i] EXCEPT !.status = "interrupted"]
                                         ELSE history[i]]

\* Forget the delivery; what is stored stays as it is.
Forget(w) ==
    /\ pc'      = [pc      EXCEPT ![w] = "idle"]
    /\ claim'   = [claim   EXCEPT ![w] = NoClaim]
    /\ plan'    = [plan    EXCEPT ![w] = NoRule]
    /\ attempt' = [attempt EXCEPT ![w] = 0]
    /\ result'  = [result  EXCEPT ![w] = NoResult]

\* SKIP LOCKED: which of the eligible rows is taken depends on the others' locks.
ClaimDeliverable(w, h) ==
    /\ pc[w] = "idle"
    /\ ~Stopped(w)
    /\ Eligible(hooks[h])
    /\ ~Held(SourceOf[h])
    /\ attempts' = IF hooks[h].status = "processing"
                   THEN [attempts EXCEPT ![h] = Interrupted(@)] ELSE attempts
    /\ hooks' = [hooks EXCEPT ![h] = ClaimedRow(@)]
    /\ claim' = [claim EXCEPT ![w] = [hook     |-> h,
                                      version  |-> hooks[h].version + 1,
                                      failures |-> hooks[h].failures]]
    /\ pc' = [pc EXCEPT ![w] = "claimed"]
    /\ UNCHANGED <<rules, plan, attempt, result, stopping, replayedAt, spent>>

LoadRule(w) ==
    /\ pc[w] = "claimed"
    /\ ~Stopped(w)
    /\ plan' = [plan EXCEPT ![w] = RuleOf(claim[w].hook)]
    /\ pc'   = [pc EXCEPT ![w] = "prepared"]
    /\ UNCHANGED <<tables, claim, attempt, result, stopping, replayedAt, spent>>

HoldsLease_ignoresVersion(c) ==
    /\ hooks[c.hook].status = "processing"
    /\ hooks[c.hook].lease = "live"

\* lockDeliveryLease: the version fences off a previous owner.
HoldsLease(c) ==
    /\ hooks[c.hook].version = c.version
    /\ hooks[c.hook].status = "processing"
    /\ hooks[c.hook].lease = "live"

NoOpenAttempt(h) == \A i \in DOMAIN attempts[h] : attempts[h][i].status # "pending"

CreateAttempt(w) ==
    LET h == claim[w].hook IN
    /\ pc[w] = "prepared"
    /\ ~Stopped(w)
    /\ HoldsLease(claim[w])
    /\ NoOpenAttempt(h)
    /\ attempts' = [attempts EXCEPT ![h] = Append(@, [status |-> "pending", body |-> "none"])]
    /\ attempt'  = [attempt EXCEPT ![w] = Len(attempts[h]) + 1]
    /\ pc'       = [pc EXCEPT ![w] = "attempted"]
    /\ UNCHANGED <<hooks, rules, claim, plan, result, stopping, replayedAt, spent>>

\* ErrLeaseLost, "delivery attempt already in progress", or a context that was
\* cancelled before the attempt exists: Forward returns and stores nothing.
RefuseAttempt(w) ==
    /\ \/ pc[w] = "prepared" /\ ~(HoldsLease(claim[w]) /\ NoOpenAttempt(claim[w].hook))
       \/ pc[w] \in {"claimed", "prepared"} /\ Stopped(w)
    /\ Forget(w)
    /\ UNCHANGED <<tables, stopping, replayedAt, spent>>

Conclude_interrupted(w, status, retry, body) ==
    /\ result' = [result EXCEPT ![w] =
           IF Stopped(w) THEN [status |-> "interrupted", retry |-> "none", body |-> body]
                         ELSE [status |-> status, retry |-> retry, body |-> body]]
    /\ pc' = [pc EXCEPT ![w] = "finishing"]
    /\ UNCHANGED <<tables, claim, plan, attempt, stopping, replayedAt, spent>>

\* A cancelled context overrides whatever the target answered.
Conclude(w, status, retry, body) ==
    /\ result' = [result EXCEPT ![w] =
           IF Stopped(w) THEN [status |-> "cancelled", retry |-> "none", body |-> body]
                         ELSE [status |-> status, retry |-> retry, body |-> body]]
    /\ pc' = [pc EXCEPT ![w] = "finishing"]
    /\ UNCHANGED <<tables, claim, plan, attempt, stopping, replayedAt, spent>>

\* No rule, hence no target: nothing is sent.
SkipDelivery(w) ==
    /\ pc[w] = "attempted"
    /\ plan[w] = NoRule
    /\ Conclude(w, "skipped", "none", "none")

MayRetry_offByOne(w) == claim[w].failures + 1 <= NormalizeMaxAttempts(plan[w].max)

MayRetry_untilExactly(w) == claim[w].failures + 1 # NormalizeMaxAttempts(plan[w].max)

MayRetry(w) == claim[w].failures + 1 < NormalizeMaxAttempts(plan[w].max)

Send(w, success, body) ==
    /\ pc[w] = "attempted"
    /\ plan[w] # NoRule
    /\ IF success THEN Conclude(w, "success", "none", body)
                  ELSE Conclude(w, "failed", IF MayRetry(w) THEN "set" ELSE "none", body)

FinishedRow_cancelledIsFailed(row, res) ==
    LET saved == [row EXCEPT !.lease = "none",
                             !.response = IF res.status = "skipped" THEN @ ELSE res.body]
    IN CASE res.status \in {"success", "skipped"} ->
              [saved EXCEPT !.status = res.status, !.failures = 0]
         [] res.retry = "set" ->
              [saved EXCEPT !.status = "retrying", !.failures = row.failures + 1, !.retry = "waiting"]
         [] OTHER ->
              [saved EXCEPT !.status = "dead_lettered", !.failures = row.failures + 1, !.dead = "set"]

FinishedRow(row, res) ==
    LET saved == [row EXCEPT !.lease = "none",
                             !.response = IF res.status = "skipped" THEN @ ELSE res.body]
    IN CASE res.status \in {"success", "skipped"} ->
              [saved EXCEPT !.status = res.status, !.failures = 0, !.retry = "none", !.dead = "none"]
         [] res.status = "cancelled" ->
              [saved EXCEPT !.status = "pending"]
         [] res.status = "failed" /\ res.retry = "set" ->
              [saved EXCEPT !.status = "retrying", !.failures = row.failures + 1,
                            !.retry = "waiting", !.dead = "none"]
         [] OTHER ->
              [saved EXCEPT !.status = "dead_lettered", !.failures = row.failures + 1,
                            !.retry = "none", !.dead = "set"]

CanFinish(w) == /\ HoldsLease(claim[w])
                /\ attempt[w] \in DOMAIN attempts[claim[w].hook]
                /\ attempts[claim[w].hook][attempt[w]].status = "pending"

\* Attempt and webhook change in one transaction.
FinishDelivery(w) ==
    LET h == claim[w].hook IN
    /\ pc[w] = "finishing"
    /\ CanFinish(w)
    /\ attempts' = [attempts EXCEPT ![h][attempt[w]] =
                       [status |-> result[w].status, body |-> result[w].body]]
    /\ hooks' = [hooks EXCEPT ![h] = FinishedRow(@, result[w])]
    /\ Forget(w)
    /\ UNCHANGED <<rules, stopping, replayedAt, spent>>

\* ErrLeaseLost: the result of an old owner is dropped.
LoseResult(w) ==
    /\ pc[w] = "finishing"
    /\ ~CanFinish(w)
    /\ Forget(w)
    /\ UNCHANGED <<tables, stopping, replayedAt, spent>>

-----------------------------------------------------------------------------
(* Time.                                                                     *)

RetryDue(h) ==
    /\ hooks[h].status = "retrying" /\ hooks[h].retry = "waiting"
    /\ hooks' = [hooks EXCEPT ![h].retry = "due"]
    /\ UNCHANGED <<attempts, rules, locals, stopping, replayedAt, spent>>

ExpireLease(h) ==
    /\ hooks[h].status = "processing" /\ hooks[h].lease = "live"
    /\ hooks' = [hooks EXCEPT ![h].lease = "expired"]
    /\ UNCHANGED <<attempts, rules, locals, stopping, replayedAt>>

\* Nobody will finish this delivery any more: its lease runs out.
LeaseExpires(h) == ExpireLease(h) /\ (\A w \in Workers : ~Owns(w, h)) /\ UNCHANGED spent

\* Every step of a delivery has a deadline inside the lease, so only a stalled
\* process or database lets the lease of a delivery in progress run out.
LeaseOverrun(h) == ExpireLease(h) /\ (\E w \in Workers : Owns(w, h)) /\ Interfere

-----------------------------------------------------------------------------
(* Failures and restarts of processes.                                       *)

\* A database error, an exhausted preparation deadline, or a commit whose answer
\* was lost: Forward returns early and the row stays as the database has it.
Fault(w) ==
    /\ Active(w)
    /\ Interfere
    /\ Forget(w)
    /\ UNCHANGED <<tables, stopping, replayedAt>>

\* SIGTERM to one process: stopWorkers cancels the context of its pool.
Stop(P) ==
    /\ P \notin stopping
    /\ Interfere
    /\ stopping' = stopping \cup {P}
    /\ UNCHANGED <<tables, locals, replayedAt>>

\* The process ends with whatever its workers had in memory, and is started again.
NewProcess(P) ==
    /\ pc'       = [w \in Workers |-> IF w \in P THEN "idle"   ELSE pc[w]]
    /\ claim'    = [w \in Workers |-> IF w \in P THEN NoClaim  ELSE claim[w]]
    /\ plan'     = [w \in Workers |-> IF w \in P THEN NoRule   ELSE plan[w]]
    /\ attempt'  = [w \in Workers |-> IF w \in P THEN 0        ELSE attempt[w]]
    /\ result'   = [w \in Workers |-> IF w \in P THEN NoResult ELSE result[w]]
    /\ stopping' = stopping \ {P}
    /\ UNCHANGED <<tables, replayedAt>>

\* waitForWorkers is bounded: the process may exit before its workers are done.
Restart(P) == P \in stopping /\ NewProcess(P) /\ UNCHANGED spent

Crash(P) == P \notin stopping /\ Interfere /\ NewProcess(P)

-----------------------------------------------------------------------------
(* Operator requests and retention.                                          *)

ReplayedRow_resetsVersion(row)   == EmptyRow("pending", 0)
ReplayedRow_keepsFailures(row)   == [EmptyRow("pending", row.version) EXCEPT !.failures = row.failures]
ReplayedRow_keepsRetryTime(row)  == [EmptyRow("pending", row.version) EXCEPT !.retry = row.retry]
ReplayedRow_keepsResponse(row)   == [EmptyRow("pending", row.version) EXCEPT !.response = row.response]

\* replayUpdates: the lease version survives, so that older owners stay fenced.
ReplayedRow(row) == EmptyRow("pending", row.version)

Requeue(S) ==
    /\ Interfere
    /\ hooks' = [h \in Hooks |-> IF h \in S THEN ReplayedRow(hooks[h]) ELSE hooks[h]]
    /\ replayedAt' = [h \in Hooks |-> IF h \in S THEN Len(attempts[h]) ELSE replayedAt[h]]
    /\ UNCHANGED <<attempts, rules, locals, stopping>>

MayChange_evenProcessing(h) == Stored(h)

\* ErrNotFound and ErrWebhookProcessing (409) change nothing.
MayChange(h) == Stored(h) /\ hooks[h].status # "processing"

Replay(h) == MayChange(h) /\ Requeue({h})

DeadLettered_wholeSelection(S) == {h \in S : MayChange(h)}

DeadLettered(S) == {h \in S : hooks[h].status = "dead_lettered"}

\* The selected rows that are no longer dead-lettered are skipped.
BulkReplay(S) == DeadLettered(S) # {} /\ Requeue(DeadLettered(S))

Remove(S) ==
    /\ hooks' = [h \in Hooks |-> IF h \in S THEN EmptyRow("deleted", hooks[h].version)
                                            ELSE hooks[h]]
    /\ attempts' = [h \in Hooks |-> IF h \in S THEN <<>> ELSE attempts[h]]
    /\ replayedAt' = [h \in Hooks |-> IF h \in S THEN 0 ELSE replayedAt[h]]
    /\ UNCHANGED <<rules, locals, stopping, spent>>

DeleteWebhook(h) == MayChange(h) /\ Remove({h})

Removable_untilActive(row) == row.status \notin {"unsaved", "deleted", "processing"}

\* One batch of retention: any rows old enough that are not queued or active.
Removable(row) == row.status \notin {"unsaved", "deleted", "pending", "processing", "retrying"}
Cleanup(S) == S # {} /\ (\A h \in S : Removable(hooks[h])) /\ Remove(S)

\* Upsert on source; an existing rule keeps its pause.
SaveForwardingRule(s, rule) ==
    /\ Interfere
    /\ rules' = [rules EXCEPT ![s] = IF @ = NoRule THEN rule ELSE [@ EXCEPT !.max = rule.max]]
    /\ UNCHANGED <<hooks, attempts, locals, stopping, replayedAt>>

SetForwardingPaused(s, paused) ==
    /\ rules[s] # NoRule
    /\ Interfere
    /\ rules' = [rules EXCEPT ![s].paused = paused]
    /\ UNCHANGED <<hooks, attempts, locals, stopping, replayedAt>>

DeleteForwardingRule(s) ==
    /\ rules[s] # NoRule
    /\ Interfere
    /\ rules' = [rules EXCEPT ![s] = NoRule]
    /\ UNCHANGED <<hooks, attempts, locals, stopping, replayedAt>>

-----------------------------------------------------------------------------
WorkerStep(w) ==
    \/ \E h \in Hooks : ClaimDeliverable(w, h)
    \/ LoadRule(w)
    \/ CreateAttempt(w)
    \/ RefuseAttempt(w)
    \/ SkipDelivery(w)
    \/ \E success \in BOOLEAN, body \in Replies : Send(w, success, body)
    \/ FinishDelivery(w)
    \/ LoseResult(w)

Next ==
    \/ \E h \in Hooks : Save(h)
    \/ \E w \in Workers : WorkerStep(w)
    \/ \E h \in Hooks : RetryDue(h)
    \/ \E h \in Hooks : LeaseExpires(h)
    \/ \E h \in Hooks : LeaseOverrun(h)
    \/ \E w \in Workers : Fault(w)
    \/ \E P \in Pools : Stop(P)
    \/ \E P \in Pools : Restart(P)
    \/ \E P \in Pools : Crash(P)
    \/ \E h \in Hooks : Replay(h)
    \/ \E S \in SUBSET Hooks : BulkReplay(S)
    \/ \E h \in Hooks : DeleteWebhook(h)
    \/ \E S \in SUBSET Hooks : Cleanup(S)
    \/ \E s \in Sources, rule \in Rule : SaveForwardingRule(s, rule)
    \/ \E s \in Sources, paused \in BOOLEAN : SetForwardingPaused(s, paused)
    \/ \E s \in Sources : DeleteForwardingRule(s)

Spec == Init /\ [][Next]_vars

\* The pool's goroutines run, timers fire, and Compose restarts a container that
\* stopped (restart: unless-stopped).  Nothing is assumed of targets: an attempt
\* always ends because its HTTP deadline lies inside the lease.
Fairness ==
    /\ \A w \in Workers : WF_vars(WorkerStep(w))
    /\ \A h \in Hooks : WF_vars(RetryDue(h)) /\ WF_vars(LeaseExpires(h))
    /\ \A P \in Pools : WF_vars(Restart(P))

FairSpec == Spec /\ Fairness

-----------------------------------------------------------------------------
(* Properties.                                                               *)

\* Every variable has its type; a worker holds a claim exactly while it is busy.
TypeOK ==
    /\ hooks \in [Hooks -> Row]
    /\ attempts \in [Hooks -> Seq(Attempt)]
    /\ rules \in [Sources -> Rule \cup {NoRule}]
    /\ pc \in [Workers -> {"idle", "claimed", "prepared", "attempted", "finishing"}]
    /\ claim \in [Workers -> Claim \cup {NoClaim}]
    /\ plan \in [Workers -> Rule \cup {NoRule}]
    /\ attempt \in [Workers -> Nat]
    /\ result \in [Workers -> Result \cup {NoResult}]
    /\ stopping \subseteq Pools
    /\ replayedAt \in [Hooks -> Nat]
    /\ spent \in Nat
    /\ \A w \in Workers : Active(w) => claim[w] \in Claim
    /\ \A w \in Workers : pc[w] = "finishing" => result[w] \in Result

\* The attempts recorded since the last replay of h, as indices.
Epoch(h) == {i \in DOMAIN attempts[h] : i > replayedAt[h]}
FailedIn(h) == {i \in Epoch(h) : attempts[h][i].status = "failed"}
LastStatus(h) == attempts[h][Len(attempts[h])].status

\* No two deliveries in progress were claimed under the same lease version of a
\* webhook, and no claim is ahead of its row (the fencing of lockDeliveryLease).
FencingTokens ==
    /\ \A w \in Workers : Active(w) => claim[w].version \in 1 .. hooks[claim[w].hook].version
    /\ \A v, w \in Workers : (Active(v) /\ Active(w) /\ v # w /\ claim[v].hook = claim[w].hook)
                                 => claim[v].version # claim[w].version

\* An open attempt is the newest one of a webhook being processed: whatever dies
\* or is reclaimed, no attempt stays "pending" behind a row that left processing.
OneOpenAttempt ==
    \A h \in Hooks : \A i \in DOMAIN attempts[h] :
        attempts[h][i].status = "pending" => i = Len(attempts[h]) /\ hooks[h].status = "processing"

\* What a row says happened is what its newest attempt, since the last replay, says.
OutcomeMatchesHistory ==
    \A h \in Hooks :
        LET row == hooks[h] IN
        row.status \in Settled \cup {"retrying"} =>
            /\ Epoch(h) # {}
            /\ LastStatus(h) = IF row.status \in {"dead_lettered", "retrying"} THEN "failed"
                                                                              ELSE row.status

\* failure_count is the number of failed attempts since the last replay, except
\* that success and skip reset it.
FailureCountMatchesHistory ==
    \A h \in Hooks : hooks[h].failures =
        IF hooks[h].status \in {"success", "skipped"} THEN 0 ELSE Cardinality(FailedIn(h))

\* The failure count a worker decides a retry with (Forward) is the one its result
\* is added to (FinishDelivery), as long as its lease is the current one.
ClaimIsFresh ==
    \A w \in Workers : \A h \in Hooks :
        Owns(w, h) /\ hooks[h].status = "processing" => claim[w].failures = hooks[h].failures

\* A webhook never fails more often than the most patient rule allows, and one
\* that still waits for a delivery has a failure left.
Patience == {NormalizeMaxAttempts(m) : m \in RuleAttempts}
RetriesBounded ==
    \A h \in Hooks :
        /\ \E m \in Patience : Cardinality(FailedIn(h)) <= m
        /\ hooks[h].status \in Queued \cup {"processing"}
               => \E m \in Patience : hooks[h].failures < m

\* After a failure it is the limit of the rule that was loaded for this delivery, and
\* the count stored with the row, that decide whether there is a retry: what other
\* deliveries, replays or edits of the rule did in between does not matter.
LimitDecides ==
    [][\A w \in Workers, h \in Hooks :
          /\ Owns(w, h) /\ hooks[h].status = "processing"
          /\ hooks'[h].status \in {"retrying", "dead_lettered"}
          => /\ plan[w] # NoRule
             /\ hooks'[h].status = "retrying"
                    <=> hooks'[h].failures < NormalizeMaxAttempts(plan[w].max)]_vars

\* No row is stuck: a retrying row has a retry time and a processing row a lease,
\* the only things the claim query wakes them up by; no other row keeps either.
\* dead_lettered_at is set exactly on dead-lettered rows.
RowsWakeUp ==
    \A h \in Hooks :
        /\ hooks[h].status = "processing" <=> hooks[h].lease # "none"
        /\ hooks[h].status = "retrying" <=> hooks[h].retry # "none"
        /\ hooks[h].status = "dead_lettered" <=> hooks[h].dead = "set"

\* After a recorded success or skip nothing is attempted again before a replay.
SettledIsFinal ==
    \A h \in Hooks : \A i, j \in Epoch(h) :
        i < j => attempts[h][i].status \notin {"success", "skipped"}

\* The response saved with a webhook is the body of its newest attempt that a
\* worker finished with an exchange, and nothing directly after a replay.
Exchanged(h) == {i \in Epoch(h) : attempts[h][i].status \in {"success", "failed", "cancelled"}}
ResponseFollowsHistory ==
    \A h \in Hooks : hooks[h].response =
        IF Exchanged(h) = {} THEN "none"
        ELSE LET last == CHOOSE i \in Exchanged(h) : \A j \in Exchanged(h) : j <= i
             IN attempts[h][last].body

\* A completed attempt is never rewritten, and history only ever grows until the
\* webhook itself is deleted.
HistoryIsAppendOnly ==
    [][\A h \in Hooks : hooks'[h].status # "deleted" =>
          /\ Len(attempts'[h]) >= Len(attempts[h])
          /\ \A i \in DOMAIN attempts[h] :
                attempts'[h][i] # attempts[h][i] => attempts[h][i].status = "pending"]_vars

\* Nobody but the owner changes a row under a live lease ("an active delivery cannot
\* be changed underneath a worker"); all that can happen is that the lease runs out.
ActiveDeliveryUntouched ==
    [][\A h \in Hooks :
          hooks[h].lease = "live" /\ hooks'[h] # hooks[h] =>
              \/ hooks'[h] = [hooks[h] EXCEPT !.lease = "expired"]
              \/ \E w \in Workers : Owns(w, h) /\ pc[w] = "finishing" /\ pc'[w] = "idle"]_vars

\* Once the faults and the operator's requests end, every stored webhook is settled
\* for good or waits behind a paused rule.
AllSettle ==
    <>[](\A h \in Hooks : Stored(h) => hooks[h].status \in Settled \/ Held(SourceOf[h]))

\* inspectDeliveryData: the page's truncation note comes from the newest completed
\* attempt that was not skipped, provided there is a body to show.
ShownTruncated(h) ==
    LET completed == {i \in DOMAIN attempts[h] : attempts[h][i].status \notin {"pending", "skipped"}}
    IN /\ hooks[h].response # "none"
       /\ \E i \in completed : (\A j \in completed : j <= i) /\ attempts[h][i].body = "cut"

\* The inspect page says that the response it shows was cut exactly when it was.
TruncationIsShown ==
    \A h \in Hooks : Stored(h) => (ShownTruncated(h) <=> hooks[h].response = "cut")

\* The pipeline is a queue with leases: rows are items, versions lease numbers, and
\* what a worker believes to hold is its claim.
Phase(row) ==
    CASE row.status = "unsaved" -> "new"
      [] row.status \in Queued -> "queued"
      [] row.status = "processing" -> IF row.lease = "live" THEN "held" ELSE "lapsed"
      [] row.status \in {"success", "skipped"} -> "done"
      [] row.status = "dead_lettered" -> "dead"
      [] OTHER -> "gone"

TakenBy(w) == IF Active(w) THEN [item |-> claim[w].hook, lease |-> claim[w].version]
                           ELSE [none |-> "taken"]

Queue == INSTANCE LeasedQueue WITH
    Items  <- Hooks,
    Takers <- Workers,
    phase  <- [h \in Hooks |-> Phase(hooks[h])],
    lease  <- [h \in Hooks |-> hooks[h].version],
    taken  <- [w \in Workers |-> TakenBy(w)]

\* Every step of the pipeline is a step of the queue or changes nothing it shows.
ImplementsQueue == Queue!Spec

=============================================================================
