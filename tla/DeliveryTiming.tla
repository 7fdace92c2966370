--------------------------- MODULE DeliveryTiming ---------------------------
(***************************************************************************)
(* The durations of a delivery, as numbers: the lease, the HTTP timeout,    *)
(* the reserve kept for storing the result, and the retry delay, for one    *)
(* webhook row and workers whose machines' clocks differ by a constant.     *)
(* Delivery abstracts all of this to "expired or not"; here it is shown     *)
(* that the deadlines Forward computes keep two HTTP exchanges of one       *)
(* webhook apart, and that the reserve is there when it is needed.          *)
(*                                                                          *)
(* An operation under a context deadline ends by that deadline: time does   *)
(* not pass it while the operation is unfinished.  Everything else takes    *)
(* any time: the claim, its answer, and the steps in between.               *)
(***************************************************************************)
EXTENDS Integers

CONSTANTS
    Workers,     \* goroutines of the pools of all processes
    Lease,       \* DELIVERY_LEASE_DURATION
    Timeout,     \* DELIVERY_TIMEOUT
    Reserve,     \* DeliveryFinalizationReserve
    Bases,       \* backoffs stored in rules
    Cap,         \* maxBackoffDelay
    MaxInt,      \* the longest time.Duration
    Skew,        \* clocks differ by at most this much
    MaxClaims,   \* bound: claims of the row
    Horizon      \* bound: the time everything stops

\* The durations that loadConfig accepts: a lease of at least 10 s, twice the reserve,
\* and a timeout that leaves the reserve.
Accepted == /\ Timeout > 0
            /\ Lease >= 2 * Reserve
            /\ Timeout <= Lease - Reserve

\* Clocks differ by less than the reserve.
ASSUME TimingAssumption ==
    /\ Lease \in Nat /\ Timeout \in Nat /\ Reserve \in Nat \ {0}
    /\ Accepted
    /\ Skew \in Nat /\ Skew < Reserve
    /\ MaxClaims \in Nat /\ Horizon \in Nat

\* Bases are normalized (normalizeBackoffSeconds), and the cap can be doubled.
ASSUME BackoffAssumption ==
    /\ Bases \subseteq Nat \ {0}
    /\ Cap \in Nat /\ MaxInt \in Nat /\ 2 * Cap <= MaxInt

VARIABLES
    time,      \* real time
    offset,    \* how far each worker's clock is ahead of it; never changes
    status,    \* columns of the webhook: status,
    retryAt,   \*   next_retry_at,
    until,     \*   delivery_lease_until,
    version,   \*   delivery_lease_version,
    failures,  \*   failure_count (0 also once the webhook is dead-lettered)
    failed,    \* history: when the exchange of the waiting retry ended, and its backoff
    pc,        \* where each worker is
    seen,      \* the time it read before its claim
    claim,     \* its claim's lease version,
    count,     \*   FailureCount,
    expiry,    \*   and DeliveryLeaseUntil
    deadline,  \* of the operation it is in
    result     \* of its exchange: what the row will be, and when to retry

clocks == <<time, offset>>
row    == <<status, retryAt, until, version, failures, failed>>
worker == <<pc, seen, claim, count, expiry, deadline, result>>
vars   == <<clocks, row, worker>>

NotFailed == [at |-> 0, base |-> 0]

\* A result without a retry.
Settled(outcome) == [status |-> outcome, retryAt |-> 0, failed |-> NotFailed]
NoResult == Settled("pending")

Clock(w) == time + offset[w]
MinOf(a, b) == IF a <= b THEN a ELSE b

Init == /\ time = 0
        /\ offset \in [Workers -> 0 .. Skew]
        /\ status = "pending"
        /\ retryAt = 0 /\ until = 0 /\ version = 0 /\ failures = 0
        /\ failed = NotFailed
        /\ pc = [w \in Workers |-> "idle"]
        /\ seen = [w \in Workers |-> 0]
        /\ claim = [w \in Workers |-> 0]
        /\ count = [w \in Workers |-> 0]
        /\ expiry = [w \in Workers |-> 0]
        /\ deadline = [w \in Workers |-> 0]
        /\ result = [w \in Workers |-> NoResult]

\* Back to the loop of runWorker.
Forget(w) == /\ pc'       = [pc       EXCEPT ![w] = "idle"]
             /\ seen'     = [seen     EXCEPT ![w] = 0]
             /\ claim'    = [claim    EXCEPT ![w] = 0]
             /\ count'    = [count    EXCEPT ![w] = 0]
             /\ expiry'   = [expiry   EXCEPT ![w] = 0]
             /\ deadline' = [deadline EXCEPT ![w] = 0]
             /\ result'   = [result   EXCEPT ![w] = NoResult]

-----------------------------------------------------------------------------
(* Claiming.  The lease and the queries use the time read before the claim.   *)

\* The row was due, by a clock that read t.  (Eligible_anyLease and the like, here and
\* below: slips of the code that the properties must notice; no action uses them.)
Eligible_anyLease(t) == \/ status \in {"pending", "processing"}
                        \/ status = "retrying" /\ retryAt <= t

Eligible(t) == \/ status = "pending"
               \/ status = "retrying" /\ retryAt <= t
               \/ status = "processing" /\ until <= t

Poll(w) ==
    /\ pc[w] = "idle"
    /\ pc' = [pc EXCEPT ![w] = "claiming"]
    /\ seen' = [seen EXCEPT ![w] = Clock(w)]
    /\ UNCHANGED <<clocks, row, claim, count, expiry, deadline, result>>

Claim(w) ==
    /\ pc[w] = "claiming"
    /\ Eligible(seen[w])
    /\ version < MaxClaims
    /\ status' = "processing"
    /\ until' = seen[w] + Lease
    /\ retryAt' = 0
    /\ version' = version + 1
    /\ pc' = [pc EXCEPT ![w] = "claimed"]
    /\ claim' = [claim EXCEPT ![w] = version + 1]
    /\ count' = [count EXCEPT ![w] = failures]
    /\ expiry' = [expiry EXCEPT ![w] = seen[w] + Lease]
    /\ failed' = NotFailed
    /\ UNCHANGED <<clocks, failures, seen, deadline, result>>

-----------------------------------------------------------------------------
(* Forward.                                                                   *)

PreparationEnd_noReserve(w) == expiry[w]

\* Everything before storing the result ends while the reserve is still whole.
PreparationEnd(w) == expiry[w] - Reserve

\* preparationCtx: not started too late, and bounded.
Prepare(w) ==
    /\ pc[w] = "claimed"
    /\ Clock(w) < PreparationEnd(w)
    /\ pc' = [pc EXCEPT ![w] = "preparing"]
    /\ deadline' = [deadline EXCEPT ![w] = PreparationEnd(w)]
    /\ UNCHANGED <<clocks, row, seen, claim, count, expiry, result>>

HoldsLease(w) == version = claim[w] /\ status = "processing" /\ Clock(w) < until

\* The rule is loaded and the attempt created, under the same deadline.
CreateAttempt(w) ==
    /\ pc[w] = "preparing"
    /\ HoldsLease(w)
    /\ pc' = [pc EXCEPT ![w] = "attempted"]
    /\ UNCHANGED <<clocks, row, seen, claim, count, expiry, deadline, result>>

ExchangeEnd_timeoutOnly(w) == Clock(w) + Timeout

ExchangeEnd(w) == MinOf(Clock(w) + Timeout, PreparationEnd(w))

\* The HTTP request is sent.
StartExchange(w) ==
    /\ pc[w] = "attempted"
    /\ Clock(w) < ExchangeEnd(w)
    /\ pc' = [pc EXCEPT ![w] = "sending"]
    /\ deadline' = [deadline EXCEPT ![w] = ExchangeEnd(w)]
    /\ UNCHANGED <<clocks, row, seen, claim, count, expiry, result>>

\* What a delivery leaves behind, without a retry: success, skipped and dead_lettered
\* are one here; a cancelled delivery is pending again.
Outcomes_asReported == {"done", "cancelled"}

Outcomes == {"done", "pending"}

\* Arithmetic of time.Duration.
Wrapped(n) == ((n + MaxInt + 1) % (2 * (MaxInt + 1))) - (MaxInt + 1)
Doubled(base, times) == Wrapped(base * 2 ^ times)

RetryDelay_capAtEnd(base, attemptNumber) == MinOf(Doubled(base, attemptNumber - 1), Cap)

\* retryDelay: doubling stops at the cap.
RetryDelay(base, attemptNumber) ==
    IF \E times \in 1 .. attemptNumber - 1 : Doubled(base, times) >= Cap
    THEN Cap
    ELSE MinOf(Doubled(base, attemptNumber - 1), Cap)

\* A failure with attempts left is retried after a delay that starts now.
Retry(w, base) == [status  |-> "retrying",
                   retryAt |-> Clock(w) + RetryDelay(base, count[w] + 1),
                   failed  |-> [at |-> Clock(w), base |-> base]]

Results(w) == {Settled(outcome) : outcome \in Outcomes} \cup {Retry(w, base) : base \in Bases}

\* An answer, an error or the deadline; or nothing was sent, for want of a target
\* or of time.  The result is decided before it is stored, and the pool's cancellation is
\* looked at once, here.  Storing it has a deadline of its own.
EndExchange(w) ==
    /\ pc[w] \in {"attempted", "sending"}
    /\ pc' = [pc EXCEPT ![w] = "finishing"]
    /\ \E r \in Results(w) : result' = [result EXCEPT ![w] = r]
    /\ deadline' = [deadline EXCEPT ![w] = MinOf(Clock(w) + Reserve, expiry[w])]
    /\ UNCHANGED <<clocks, row, seen, claim, count, expiry>>

Finish(w) ==
    /\ pc[w] = "finishing"
    /\ HoldsLease(w)
    /\ status' = result[w].status
    /\ retryAt' = result[w].retryAt
    /\ failed' = result[w].failed
    /\ failures' = CASE status' = "done"     -> 0
                     [] status' = "retrying" -> failures + 1
                     [] OTHER                -> failures
    /\ until' = 0
    /\ Forget(w)
    /\ UNCHANGED <<clocks, version>>

\* No row to claim, an error, a lost lease, a crash.
GiveUp(w) ==
    /\ pc[w] # "idle"
    /\ Forget(w)
    /\ UNCHANGED <<clocks, row>>

\* Replay of a webhook that is not being processed.
Replay ==
    /\ status # "processing"
    /\ status' = "pending" /\ retryAt' = 0 /\ until' = 0 /\ failures' = 0
    /\ failed' = NotFailed
    /\ UNCHANGED <<clocks, version, worker>>

Timed == {"preparing", "attempted", "sending", "finishing"}

Tick ==
    /\ time < Horizon
    /\ \A w \in Workers : pc[w] \in Timed => Clock(w) < deadline[w]
    /\ time' = time + 1
    /\ UNCHANGED <<offset, row, worker>>

Next == \/ \E w \in Workers : \/ Poll(w) \/ Claim(w)
                              \/ Prepare(w) \/ CreateAttempt(w)
                              \/ StartExchange(w) \/ EndExchange(w)
                              \/ Finish(w) \/ GiveUp(w)
        \/ Replay
        \/ Tick

Spec == Init /\ [][Next]_vars

-----------------------------------------------------------------------------
(* Properties.                                                                *)

\* Every variable has its type.
TypeOK ==
    /\ time \in Nat
    /\ offset \in [Workers -> 0 .. Skew]
    /\ status \in {"pending", "processing", "retrying", "done"}
    /\ retryAt \in Int /\ until \in Nat /\ version \in Nat /\ failures \in Nat
    /\ failed \in [at : Nat, base : Nat]
    /\ pc \in [Workers -> {"idle", "claiming", "claimed"} \cup Timed]
    /\ seen \in [Workers -> Nat]
    /\ claim \in [Workers -> Nat]
    /\ count \in [Workers -> Nat]
    /\ expiry \in [Workers -> Nat]
    /\ deadline \in [Workers -> Nat]
    /\ result \in [Workers -> [status  : {"pending", "retrying", "done"},
                               retryAt : Int,
                               failed  : [at : Nat, base : Nat]]]

\* The target never serves two requests for one delivery at a time: an exchange is
\* over before the lease that covers it can be taken over, on any machine's clock.
OneExchange ==
    \A v, w \in Workers : pc[v] = "sending" /\ pc[w] = "sending" => v = w

\* Whenever an exchange ends, or is given up before it began, storing its result has the
\* whole reserve: the lease never cuts it short ("must leave at least 5 seconds").
ReserveIsWhole ==
    [][\A w \in Workers : pc[w] # "finishing" /\ pc'[w] = "finishing"
                              => deadline'[w] = Clock(w) + Reserve]_vars

\* Where clocks agree, a worker that has an attempt open holds the lease until it runs
\* out: no result of a worker that keeps its deadlines is refused.
LeaseCoversDelivery ==
    (\A v, w \in Workers : offset[v] = offset[w]) =>
        \A w \in Workers : pc[w] \in {"attempted", "sending", "finishing"} /\ Clock(w) < expiry[w]
                               => HoldsLease(w)

\* A retry waits for its whole backoff, counted from the end of the failed exchange on
\* the clock of the worker that made it, however long that worker took to store its
\* result: the base, doubled for every failure before, but no more than the cap, which
\* holds for any number of failures.  Said of backoffs whose double is a Duration (they
\* are shorter than 146 years); a longer one can wrap to no delay at all.
RetriesBackOff ==
    [][(/\ status = "retrying" /\ status' = "processing"
        /\ 2 * failed.base <= MaxInt) =>
           \E w \in Workers : /\ claim[w] # claim'[w]
                              /\ seen[w] >= failed.at + MinOf(failed.base * 2 ^ (failures - 1), Cap)]_vars

=============================================================================
