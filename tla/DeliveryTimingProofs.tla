------------------------ MODULE DeliveryTimingProofs ------------------------
(***************************************************************************)
(* Machine-checked theorems about DeliveryTiming, for any workers and any   *)
(* durations that loadConfig accepts, with clocks that differ by less than  *)
(* the reserve.                                                             *)
(***************************************************************************)
EXTENDS DeliveryTiming, TLAPS

USE DEF Accepted

\* The worker has a claim in memory.
Leased(w) == pc[w] \in {"claimed", "preparing", "attempted", "sending", "finishing"}

\* A claim is not ahead of the row, and no two are under one version.
Versions ==
    /\ \A w \in Workers : Leased(w) => claim[w] \in 1 .. version
    /\ \A v, w \in Workers : Leased(v) /\ Leased(w) /\ v # w => claim[v] # claim[w]

\* The current claim's copy of the lease is the stored one.
CopyIsStored ==
    \A w \in Workers : Leased(w) /\ claim[w] = version /\ status = "processing" => until = expiry[w]

\* Deadlines are kept, up to the result they leave the whole reserve, and the time a
\* claim is made with is in the past.
DeadlinesKept ==
    \A w \in Workers :
        /\ pc[w] = "claiming" => seen[w] <= Clock(w)
        /\ pc[w] \in {"preparing", "attempted", "sending"}
               => Clock(w) <= deadline[w] /\ deadline[w] <= expiry[w] - Reserve

\* Nobody takes the row over while an exchange can be in progress.
AttemptIsCurrent ==
    \A w \in Workers : pc[w] \in {"attempted", "sending"} => claim[w] = version /\ status = "processing"

\* Nor, where clocks agree, while the result can be stored.
FinishIsCurrent ==
    (\A v, w \in Workers : offset[v] = offset[w]) =>
        \A w \in Workers : pc[w] = "finishing" /\ Clock(w) < expiry[w]
                               => claim[w] = version /\ status = "processing"

IInv == TypeOK /\ Versions /\ CopyIsStored /\ DeadlinesKept /\ AttemptIsCurrent /\ FinishIsCurrent

-----------------------------------------------------------------------------
\* The smaller of two numbers.
LEMMA MinOfIsLeast ==
    ASSUME NEW a \in Int, NEW b \in Int
    PROVE  MinOf(a, b) \in {a, b} /\ MinOf(a, b) <= a /\ MinOf(a, b) <= b
  BY DEF MinOf

\* A retry delay is a number.
LEMMA RetryDelayType ==
    ASSUME NEW base \in Nat, NEW n \in Nat \ {0}
    PROVE  RetryDelay(base, n) \in Int
<1>1. Doubled(base, n - 1) \in Int
  <2>1. 2 ^ (n - 1) \in Int
    OBVIOUS
  <2>2. base * 2 ^ (n - 1) \in Int
    BY <2>1
  <2>3. \A k \in Int : Wrapped(k) \in Int
    BY BackoffAssumption DEF Wrapped
  <2>. QED
    BY <2>2, <2>3 DEF Doubled
<1>. QED
  BY <1>1, BackoffAssumption, MinOfIsLeast DEF RetryDelay

\* What a worker keeps of its exchange.
ResultRecords == [status  : {"pending", "retrying", "done"},
                  retryAt : Int,
                  failed  : [at : Nat, base : Nat]]

\* A worker without a result has a record of one all the same.
LEMMA NoResultIsRecord == NoResult \in ResultRecords
  BY DEF NoResult, Settled, NotFailed, ResultRecords

\* Whatever an exchange comes to is such a record.
LEMMA ResultsAreRecords ==
    ASSUME NEW w \in Workers, Clock(w) \in Nat, count[w] \in Nat, NEW r \in Results(w)
    PROVE  r \in ResultRecords
<1>1. CASE \E outcome \in Outcomes : r = Settled(outcome)
  BY <1>1 DEF Outcomes, Settled, NotFailed, ResultRecords
<1>2. CASE \E base \in Bases : r = Retry(w, base)
  <2>1. PICK base \in Bases : r = Retry(w, base)
    BY <1>2
  <2>2. base \in Nat
    BY BackoffAssumption
  <2>3. RetryDelay(base, count[w] + 1) \in Int
    BY <2>2, RetryDelayType
  <2>. QED
    BY <2>1, <2>2, <2>3 DEF Retry, ResultRecords
<1>. QED
  BY <1>1, <1>2 DEF Results

\* Every step preserves the types.
LEMMA TypeStep ==
    ASSUME TypeOK, [Next]_vars
    PROVE  TypeOK'
<1>. USE TimingAssumption DEF TypeOK, Timed, clocks, row, worker
<1>1. ASSUME NEW w \in Workers PROVE Clock(w) \in Nat
  BY DEF Clock
<1>2. ASSUME NEW w \in Workers, Poll(w) PROVE TypeOK'
  BY <1>1, <1>2 DEF Poll
<1>3. ASSUME NEW w \in Workers, Claim(w) PROVE TypeOK'
  BY <1>3 DEF Claim, NotFailed
<1>4. ASSUME NEW w \in Workers, Prepare(w) PROVE TypeOK'
  <2>1. PreparationEnd(w) \in Nat
    BY <1>1, <1>4 DEF Prepare, PreparationEnd
  <2>. QED
    BY <1>4, <2>1 DEF Prepare
<1>5. ASSUME NEW w \in Workers, CreateAttempt(w) PROVE TypeOK'
  BY <1>5 DEF CreateAttempt
<1>6. ASSUME NEW w \in Workers, StartExchange(w) PROVE TypeOK'
  <2>1. Clock(w) + Timeout \in Int /\ PreparationEnd(w) \in Int
    BY <1>1 DEF PreparationEnd
  <2>2. ExchangeEnd(w) \in Nat
    BY <1>1, <1>6, <2>1, MinOfIsLeast DEF StartExchange, ExchangeEnd
  <2>. QED
    BY <1>6, <2>2 DEF StartExchange
<1>7. ASSUME NEW w \in Workers, EndExchange(w) PROVE TypeOK'
  <2>1. MinOf(Clock(w) + Reserve, expiry[w]) \in Nat
    BY <1>1 DEF MinOf
  <2>2. PICK r \in Results(w) : result' = [result EXCEPT ![w] = r]
    BY <1>7 DEF EndExchange
  <2>3. r \in ResultRecords
    BY <1>1, <2>2, ResultsAreRecords
  <2>. QED
    BY <1>7, <2>1, <2>2, <2>3 DEF EndExchange, ResultRecords
<1>8. ASSUME NEW w \in Workers, Finish(w) PROVE TypeOK'
  <2>1. /\ status' \in {"pending", "retrying", "done"}
        /\ retryAt' \in Int /\ failed' \in [at : Nat, base : Nat]
    BY <1>8 DEF Finish
  <2>2. failures' \in Nat
    BY <1>8, <2>1 DEF Finish
  <2>. QED
    BY <1>8, <2>1, <2>2, NoResultIsRecord DEF Finish, Forget, ResultRecords
<1>9. ASSUME NEW w \in Workers, GiveUp(w) PROVE TypeOK'
  BY <1>9, NoResultIsRecord DEF GiveUp, Forget, ResultRecords
<1>10. CASE Replay
  BY <1>10 DEF Replay, NotFailed
<1>11. CASE Tick
  BY <1>11 DEF Tick
<1>12. CASE UNCHANGED vars
  BY <1>12 DEF vars
<1>. QED
  BY <1>2, <1>3, <1>4, <1>5, <1>6, <1>7, <1>8, <1>9, <1>10, <1>11, <1>12 DEF Next

\* A claim that takes over a processing row finds its lease ended by the claimer's clock.
LEMMA TakeoverIsLate ==
    ASSUME IInv, NEW v \in Workers, Claim(v), NEW w \in Workers, Leased(w),
           claim[w] = version, status = "processing"
    PROVE  expiry[w] <= Clock(v)
  BY TimingAssumption DEF IInv, TypeOK, CopyIsStored, DeadlinesKept, Claim, Eligible, Clock

\* Clocks differ by no more than Skew.
LEMMA ClocksAreClose ==
    ASSUME TypeOK, NEW v \in Workers, NEW w \in Workers
    PROVE  Clock(v) <= Clock(w) + Skew
  BY TimingAssumption DEF TypeOK, Clock

-----------------------------------------------------------------------------
(* One lemma per conjunct of the invariant.                                  *)

\* A new claim takes a version above all others.
LEMMA VersionsStep ==
    ASSUME IInv, [Next]_vars
    PROVE  Versions'
<1>. USE DEF IInv, TypeOK, Versions, Leased, clocks, row, worker
<1>1. ASSUME NEW u \in Workers,
             \/ Poll(u) \/ Prepare(u) \/ CreateAttempt(u) \/ StartExchange(u) \/ EndExchange(u)
      PROVE  Versions'
  <2>1. version' = version /\ claim' = claim
    BY <1>1 DEF Poll, Prepare, CreateAttempt, StartExchange, EndExchange
  <2>2. ASSUME NEW w \in Workers, Leased(w)' PROVE Leased(w)
    BY <1>1, <2>2 DEF Poll, Prepare, CreateAttempt, StartExchange, EndExchange
  <2>. QED
    BY <2>1, <2>2
<1>2. ASSUME NEW u \in Workers, Claim(u) PROVE Versions'
  BY <1>2 DEF Claim
<1>3. ASSUME NEW u \in Workers, Finish(u) PROVE Versions'
  <2>1. version' = version /\ Forget(u)
    BY <1>3 DEF Finish
  <2>. QED
    BY <2>1 DEF Forget
<1>4. ASSUME NEW u \in Workers, GiveUp(u) PROVE Versions'
  BY <1>4 DEF GiveUp, Forget
<1>5. CASE Replay \/ Tick \/ UNCHANGED vars
  BY <1>5 DEF Replay, Tick, vars
<1>. QED
  BY <1>1, <1>2, <1>3, <1>4, <1>5 DEF Next

\* Only a claim writes the lease of a processing row, and it keeps a copy.
LEMMA CopyIsStoredStep ==
    ASSUME IInv, [Next]_vars
    PROVE  CopyIsStored'
<1>. USE DEF IInv, TypeOK, Versions, CopyIsStored, Leased, clocks, row, worker
<1>1. ASSUME NEW u \in Workers,
             \/ Poll(u) \/ Prepare(u) \/ CreateAttempt(u) \/ StartExchange(u) \/ EndExchange(u)
      PROVE  CopyIsStored'
  BY <1>1 DEF Poll, Prepare, CreateAttempt, StartExchange, EndExchange
<1>2. ASSUME NEW u \in Workers, Claim(u) PROVE CopyIsStored'
  BY <1>2 DEF Claim
<1>3. ASSUME NEW u \in Workers, Finish(u) \/ GiveUp(u) PROVE CopyIsStored'
  BY <1>3 DEF Finish, GiveUp, Forget
<1>4. CASE Replay \/ Tick \/ UNCHANGED vars
  BY <1>4 DEF Replay, Tick, vars
<1>. QED
  BY <1>1, <1>2, <1>3, <1>4 DEF Next

\* Time does not pass the deadline of an operation in progress.
LEMMA DeadlinesKeptStep ==
    ASSUME IInv, [Next]_vars
    PROVE  DeadlinesKept'
<1>. USE TimingAssumption DEF IInv, TypeOK, DeadlinesKept, Clock, clocks, row, worker
<1>1. ASSUME NEW u \in Workers, Poll(u) \/ CreateAttempt(u) PROVE DeadlinesKept'
  BY <1>1 DEF Poll, CreateAttempt
<1>2. ASSUME NEW u \in Workers, Claim(u) PROVE DeadlinesKept'
  BY <1>2 DEF Claim
<1>3. ASSUME NEW u \in Workers, Prepare(u) PROVE DeadlinesKept'
  BY <1>3 DEF Prepare, PreparationEnd
<1>4. ASSUME NEW u \in Workers, StartExchange(u) PROVE DeadlinesKept'
  <2>1. /\ ExchangeEnd(u) \in Int
        /\ ExchangeEnd(u) <= expiry[u] - Reserve
        /\ Clock(u) <= ExchangeEnd(u)
    BY <1>4, MinOfIsLeast DEF StartExchange, ExchangeEnd, PreparationEnd
  <2>. QED
    BY <1>4, <2>1 DEF StartExchange
<1>5. ASSUME NEW u \in Workers, EndExchange(u) PROVE DeadlinesKept'
  BY <1>5 DEF EndExchange
<1>6. ASSUME NEW u \in Workers, Finish(u) \/ GiveUp(u) PROVE DeadlinesKept'
  BY <1>6 DEF Finish, GiveUp, Forget
<1>7. CASE Tick
  BY <1>7 DEF Tick, Timed
<1>8. CASE Replay \/ UNCHANGED vars
  BY <1>8 DEF Replay, vars
<1>. QED
  BY <1>1, <1>2, <1>3, <1>4, <1>5, <1>6, <1>7, <1>8 DEF Next

\* A takeover comes after the lease by the claimer's clock, hence after the reserve began
\* by the owner's: its exchange is over by then.
LEMMA AttemptIsCurrentStep ==
    ASSUME IInv, [Next]_vars
    PROVE  AttemptIsCurrent'
<1>. USE DEF AttemptIsCurrent, clocks, row, worker
<1>1. ASSUME NEW u \in Workers,
             \/ Poll(u) \/ Prepare(u) \/ CreateAttempt(u) \/ StartExchange(u) \/ EndExchange(u)
      PROVE  AttemptIsCurrent'
  BY <1>1 DEF IInv, TypeOK, Poll, Prepare, CreateAttempt, HoldsLease, StartExchange, EndExchange
\* The exchange ends before the lease less the reserve, by its own clock; a claimer's
\* clock is ahead by less than the reserve.
<1>2. ASSUME NEW u \in Workers, Claim(u) PROVE AttemptIsCurrent'
  <2>1. ASSUME NEW w \in Workers, pc[w] \in {"attempted", "sending"} PROVE FALSE
    <3>1. claim[w] = version /\ status = "processing" /\ Leased(w)
      BY <2>1 DEF IInv, Leased
    <3>2. expiry[w] <= Clock(u)
      BY <1>2, <3>1, TakeoverIsLate
    <3>3. Clock(u) <= Clock(w) + Skew
      BY ClocksAreClose DEF IInv
    <3>4. Clock(w) <= deadline[w] /\ deadline[w] <= expiry[w] - Reserve
      BY <2>1 DEF IInv, DeadlinesKept
    <3>5. Clock(u) \in Nat /\ Clock(w) \in Nat /\ deadline[w] \in Nat /\ expiry[w] \in Nat
      BY TimingAssumption DEF IInv, TypeOK, Clock
    <3>. QED
      BY <3>2, <3>3, <3>4, <3>5, TimingAssumption
  <2>2. \A w \in Workers : pc'[w] \notin {"attempted", "sending"}
    BY <1>2, <2>1 DEF IInv, TypeOK, Claim
  <2>. QED
    BY <2>2
\* Only the owner of the current version finishes, and no other worker has that version.
<1>3. ASSUME NEW u \in Workers, Finish(u) PROVE AttemptIsCurrent'
  <2>1. ASSUME NEW w \in Workers, w # u, pc[w] \in {"attempted", "sending"} PROVE FALSE
    BY <1>3, <2>1 DEF Finish, HoldsLease, IInv, Versions, Leased
  <2>. QED
    BY <1>3, <2>1 DEF Finish, Forget, IInv, TypeOK
<1>4. ASSUME NEW u \in Workers, GiveUp(u) PROVE AttemptIsCurrent'
  BY <1>4 DEF GiveUp, Forget, IInv, TypeOK
<1>5. CASE Replay \/ Tick \/ UNCHANGED vars
  BY <1>5 DEF IInv, Replay, Tick, vars
<1>. QED
  BY <1>1, <1>2, <1>3, <1>4, <1>5 DEF Next

\* Where clocks agree, a takeover comes after the lease by the owner's clock too.
LEMMA FinishIsCurrentStep ==
    ASSUME IInv, [Next]_vars
    PROVE  FinishIsCurrent'
<1>. USE DEF FinishIsCurrent, Clock, clocks, row, worker
<1>1. ASSUME NEW u \in Workers,
             Poll(u) \/ Prepare(u) \/ CreateAttempt(u) \/ StartExchange(u)
      PROVE  FinishIsCurrent'
  BY <1>1 DEF IInv, TypeOK, Poll, Prepare, CreateAttempt, StartExchange
<1>2. ASSUME NEW u \in Workers, EndExchange(u) PROVE FinishIsCurrent'
  BY <1>2 DEF IInv, TypeOK, AttemptIsCurrent, EndExchange
<1>3. ASSUME NEW u \in Workers, Claim(u) PROVE FinishIsCurrent'
  <2>1. ASSUME \A v, w \in Workers : offset[v] = offset[w],
               NEW w \in Workers, pc[w] = "finishing", Clock(w) < expiry[w]
        PROVE  FALSE
    <3>1. claim[w] = version /\ status = "processing" /\ Leased(w)
      BY <2>1 DEF IInv, Leased
    <3>2. expiry[w] <= Clock(u)
      BY <1>3, <3>1, TakeoverIsLate
    <3>3. Clock(u) = Clock(w) /\ Clock(w) \in Nat /\ expiry[w] \in Nat
      BY <2>1, TimingAssumption DEF IInv, TypeOK
    <3>. QED
      BY <2>1, <3>2, <3>3
  <2>2. ASSUME NEW w \in Workers, pc'[w] = "finishing"
        PROVE  pc[w] = "finishing" /\ expiry'[w] = expiry[w]
    BY <1>3, <2>2 DEF IInv, TypeOK, Claim
  <2>. QED
    BY <1>3, <2>1, <2>2 DEF Claim
<1>4. ASSUME NEW u \in Workers, Finish(u) PROVE FinishIsCurrent'
  <2>1. ASSUME NEW w \in Workers, w # u, pc[w] = "finishing" PROVE claim[w] # version
    BY <1>4, <2>1 DEF Finish, HoldsLease, IInv, Versions, Leased
  <2>2. ASSUME NEW w \in Workers, pc'[w] = "finishing"
        PROVE  w # u /\ pc[w] = "finishing" /\ expiry'[w] = expiry[w]
    BY <1>4, <2>2 DEF Finish, Forget, IInv, TypeOK
  <2>. QED
    BY <1>4, <2>1, <2>2 DEF Finish, IInv
<1>5. ASSUME NEW u \in Workers, GiveUp(u) PROVE FinishIsCurrent'
  BY <1>5 DEF GiveUp, Forget, IInv, TypeOK
<1>6. CASE Tick
  BY <1>6, TimingAssumption DEF IInv, TypeOK, Tick
<1>7. CASE Replay \/ UNCHANGED vars
  BY <1>7 DEF IInv, Replay, vars
<1>. QED
  BY <1>1, <1>2, <1>3, <1>4, <1>5, <1>6, <1>7 DEF Next

-----------------------------------------------------------------------------
\* The inductive invariant, from which the theorems below follow.
THEOREM TimingInvariance == Spec => []IInv
<1>1. Init => IInv
  <2>. SUFFICES ASSUME Init PROVE IInv
    OBVIOUS
  <2>1. TypeOK
    BY TimingAssumption, NoResultIsRecord DEF Init, TypeOK, NotFailed, ResultRecords
  <2>2. \A w \in Workers : pc[w] = "idle"
    BY DEF Init
  <2>. QED
    BY <2>1, <2>2 DEF IInv, Versions, CopyIsStored, DeadlinesKept, AttemptIsCurrent,
                      FinishIsCurrent, Leased
<1>2. IInv /\ [Next]_vars => IInv'
  <2>. SUFFICES ASSUME IInv, [Next]_vars PROVE IInv'
    OBVIOUS
  <2>1. TypeOK'
    BY TypeStep DEF IInv
  <2>. QED
    BY <2>1, VersionsStep, CopyIsStoredStep, DeadlinesKeptStep, AttemptIsCurrentStep,
       FinishIsCurrentStep DEF IInv
<1>. QED
  BY <1>1, <1>2, PTL DEF Spec

\* TypeOK: times, versions and deadlines stay natural numbers, whatever is subtracted.
THEOREM TimingTypes == Spec => []TypeOK
<1>1. IInv => TypeOK
  BY DEF IInv
<1>. QED
  BY <1>1, TimingInvariance, PTL

\* Two HTTP exchanges of one webhook never overlap.
THEOREM ExchangesApart == Spec => []OneExchange
<1>1. IInv => OneExchange
  BY DEF IInv, Versions, AttemptIsCurrent, OneExchange, Leased
<1>. QED
  BY <1>1, TimingInvariance, PTL

\* Where clocks agree, a worker with an open attempt holds the lease until it runs out.
THEOREM LeaseCovers == Spec => []LeaseCoversDelivery
<1>1. IInv => LeaseCoversDelivery
  BY DEF IInv, CopyIsStored, AttemptIsCurrent, FinishIsCurrent, LeaseCoversDelivery, HoldsLease,
         Leased
<1>. QED
  BY <1>1, TimingInvariance, PTL

\* Storing a result always starts with the whole reserve before it.
THEOREM WholeReserve == Spec => ReserveIsWhole
<1>. DEFINE Whole == \A w \in Workers : pc[w] # "finishing" /\ pc'[w] = "finishing"
                                            => deadline'[w] = Clock(w) + Reserve
<1>1. IInv /\ [Next]_vars => [Whole]_vars
  <2>. SUFFICES ASSUME IInv, [Next]_vars, NEW w \in Workers,
                       pc[w] # "finishing", pc'[w] = "finishing"
                PROVE  deadline'[w] = Clock(w) + Reserve
    OBVIOUS
  <2>1. EndExchange(w)
    BY DEF IInv, TypeOK, Next, Poll, Claim, Prepare, CreateAttempt, StartExchange, EndExchange,
           Finish, GiveUp, Forget, Replay, Tick, clocks, row, worker, vars
  <2>2. Clock(w) + Reserve <= expiry[w] /\ Clock(w) + Reserve \in Nat
    BY <2>1, TimingAssumption DEF EndExchange, IInv, TypeOK, DeadlinesKept, Clock
  <2>. QED
    BY <2>1, <2>2 DEF EndExchange, MinOf, IInv, TypeOK
<1>. QED
  BY <1>1, TimingInvariance, PTL DEF Spec, ReserveIsWhole

=============================================================================
