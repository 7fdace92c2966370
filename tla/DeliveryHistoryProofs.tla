------------------------ MODULE DeliveryHistoryProofs ------------------------
(***************************************************************************)
(* Machine-checked theorems about Delivery that relate a webhook's row to   *)
(* the history of its attempts: outcome, failure count, retry budget,       *)
(* response, and that nothing follows a success.  The properties are first  *)
(* stated of one row and one history, where each way to change them is a    *)
(* lemma; then of the steps of Delivery.                                    *)
(***************************************************************************)
EXTENDS DeliveryProofs, FiniteSetTheorems

-----------------------------------------------------------------------------
(* A row and its history.  All that follows is about one webhook: its row,    *)
(* its attempts, and how many of them were there at its last replay.          *)

Since(history, n)     == {i \in DOMAIN history : i > n}
Failures(history, n)  == {i \in Since(history, n) : history[i].status = "failed"}
Exchanges(history, n) ==
    {i \in Since(history, n) : history[i].status \in {"success", "failed", "cancelled"}}
Ended == {"success", "skipped"}

\* The replay lies in the past, an open attempt is the newest and later than the
\* replay, and an event that is not stored has no history.
WellKept(row, history, n) ==
    /\ n <= Len(history)
    /\ \A i \in DOMAIN history :
           history[i].status = "pending" => i = Len(history) /\ i > n /\ row.status = "processing"
    /\ row.status \in {"unsaved", "deleted"} => history = <<>>

\* OutcomeMatchesHistory of one webhook.
OutcomeMatches(row, history, n) ==
    row.status \in Settled \cup {"retrying"} =>
        /\ Since(history, n) # {}
        /\ history[Len(history)].status =
               IF row.status \in {"dead_lettered", "retrying"} THEN "failed" ELSE row.status

\* SettledIsFinal of one webhook; and while it is not settled, nothing ended it.
EndsOnce(row, history, n) ==
    /\ \A i, j \in Since(history, n) : i < j => history[i].status \notin Ended
    /\ row.status \notin Ended => \A i \in Since(history, n) : history[i].status \notin Ended

\* FailureCountMatchesHistory of one webhook.
CountMatches(row, history, n) ==
    row.failures = IF row.status \in Ended THEN 0 ELSE Cardinality(Failures(history, n))

\* RetriesBounded of one webhook.
WithinPatience(row, history, n) ==
    /\ \E m \in Patience : Cardinality(Failures(history, n)) <= m
    /\ row.status \in Queued \cup {"processing"} => \E m \in Patience : row.failures < m

\* ResponseFollowsHistory of one webhook.
ResponseFollows(row, history, n) ==
    \/ Exchanges(history, n) = {} /\ row.response = "none"
    \/ \E i \in Exchanges(history, n) : /\ \A j \in Exchanges(history, n) : j <= i
                                        /\ row.response = history[i].body

Accords(row, history, n) ==
    /\ WellKept(row, history, n)
    /\ OutcomeMatches(row, history, n)
    /\ EndsOnce(row, history, n)
    /\ CountMatches(row, history, n)
    /\ WithinPatience(row, history, n)
    /\ ResponseFollows(row, history, n)

\* A history has finitely many failures.
LEMMA FailuresFinite ==
    ASSUME NEW history \in Seq(Attempt), NEW n \in Nat
    PROVE  /\ IsFiniteSet(Failures(history, n))
           /\ Cardinality(Failures(history, n)) \in Nat
           /\ Failures(history, n) \subseteq 1 .. Len(history)
  <1>1. IsFiniteSet(1 .. Len(history))
    BY FS_Interval
  <1>2. Failures(history, n) \subseteq 1 .. Len(history)
    BY DEF Failures, Since
  <1>. QED
    BY <1>1, <1>2, FS_Subset, FS_CardinalityType

\* Some rule is patient, and every rule allows at least one attempt.
LEMMA PatienceIsPositive ==
    /\ Patience # {}
    /\ \A m \in Patience : m \in Nat /\ m >= 1
  <1>1. \A v \in Int : NormalizeMaxAttempts(v) \in Nat /\ NormalizeMaxAttempts(v) >= 1
    BY DEF NormalizeMaxAttempts, DefaultMaxAttempts
  <1>2. PICK v \in RuleAttempts : TRUE
    BY RuleAssumption
  <1>3. NormalizeMaxAttempts(v) \in Patience
    BY DEF Patience
  <1>. QED
    BY <1>1, <1>3, RuleAssumption DEF Patience

\* A webhook with an empty history since its last replay accords with a fresh row.
LEMMA FreshRowAccords ==
    ASSUME NEW status \in {"pending", "unsaved", "deleted"}, NEW version \in Nat,
           NEW history \in Seq(Attempt), NEW n \in Nat, n = Len(history),
           \A i \in DOMAIN history : history[i].status # "pending",
           status \in {"unsaved", "deleted"} => history = <<>>
    PROVE  Accords(EmptyRow(status, version), history, n)
  <1>1. Since(history, n) = {}
    BY DEF Since
  <1>2. Failures(history, n) = {} /\ Exchanges(history, n) = {}
    BY <1>1 DEF Failures, Exchanges
  <1>3. Cardinality(Failures(history, n)) = 0
    BY <1>2, FS_EmptySet
  <1>4. WellKept(EmptyRow(status, version), history, n)
    BY DEF WellKept, EmptyRow
  <1>5. OutcomeMatches(EmptyRow(status, version), history, n)
    BY DEF OutcomeMatches, EmptyRow, Settled
  <1>6. EndsOnce(EmptyRow(status, version), history, n)
    BY <1>1 DEF EndsOnce
  <1>7. CountMatches(EmptyRow(status, version), history, n)
    BY <1>3 DEF CountMatches, EmptyRow
  <1>8. WithinPatience(EmptyRow(status, version), history, n)
    BY <1>3, PatienceIsPositive DEF WithinPatience, EmptyRow
  <1>9. ResponseFollows(EmptyRow(status, version), history, n)
    BY <1>2 DEF ResponseFollows, EmptyRow
  <1>. QED
    BY <1>4, <1>5, <1>6, <1>7, <1>8, <1>9 DEF Accords

\* A row that changes neither its outcome, its count nor its response, or that leaves
\* the queue for a worker, still accords with its history.
LEMMA QuietChangeAccords ==
    ASSUME NEW row \in Row, NEW new \in Row, NEW history \in Seq(Attempt), NEW n \in Nat,
           Accords(row, history, n),
           \/ new.status = row.status
           \/ row.status \in Queued /\ new.status = "processing",
           new.failures = row.failures, new.response = row.response
    PROVE  Accords(new, history, n)
  <1>1. WellKept(new, history, n)
    BY DEF WellKept, Accords, Queued
  <1>2. OutcomeMatches(new, history, n)
    BY DEF OutcomeMatches, Accords, Settled
  <1>3. EndsOnce(new, history, n)
    BY DEF EndsOnce, Accords, Queued, Ended
  <1>4. CountMatches(new, history, n)
    BY DEF CountMatches, Accords, Queued, Ended
  <1>5. WithinPatience(new, history, n)
    BY DEF WithinPatience, Accords, Queued
  <1>6. ResponseFollows(new, history, n)
    BY DEF ResponseFollows, Accords
  <1>. QED
    BY <1>1, <1>2, <1>3, <1>4, <1>5, <1>6 DEF Accords

\* Closing the open attempt of a row that is taken over leaves failures, ends and
\* exchanges as they are.
LEMMA InterruptedAccords ==
    ASSUME NEW row \in Row, NEW new \in Row, NEW history \in Seq(Attempt), NEW n \in Nat,
           Accords(row, history, n), row.status = "processing", new.status = "processing",
           new.failures = row.failures, new.response = row.response
    PROVE  Accords(new, Interrupted(history), n)
  <1>. DEFINE closed == Interrupted(history)
  <1>1. /\ closed \in Seq(Attempt) /\ Len(closed) = Len(history)
        /\ DOMAIN closed = DOMAIN history
    BY InterruptedType
  <1>2. \A i \in DOMAIN history :
            IF history[i].status = "pending" THEN closed[i].status = "interrupted"
                                             ELSE closed[i] = history[i]
    BY DEF Interrupted, Attempt
  <1>. HIDE DEF closed
  <1>3. Since(closed, n) = Since(history, n)
    BY <1>1 DEF Since
  <1>4. Failures(closed, n) = Failures(history, n)
    BY <1>2, <1>3 DEF Failures, Since
  <1>5. Exchanges(closed, n) = Exchanges(history, n)
    BY <1>2, <1>3 DEF Exchanges, Since
  <1>6. WellKept(new, closed, n)
    BY <1>1, <1>2 DEF WellKept, Accords
  <1>7. OutcomeMatches(new, closed, n)
    BY DEF OutcomeMatches, Settled
  <1>8. EndsOnce(new, closed, n)
    BY <1>2, <1>3 DEF EndsOnce, Accords, Ended, Since
  <1>9. CountMatches(new, closed, n)
    BY <1>4 DEF CountMatches, Accords, Ended
  <1>10. WithinPatience(new, closed, n)
    BY <1>4 DEF WithinPatience, Accords
  <1>11. ResponseFollows(new, closed, n)
    BY <1>2, <1>5 DEF ResponseFollows, Accords, Exchanges, Since
  <1>. QED
    BY <1>6, <1>7, <1>8, <1>9, <1>10, <1>11 DEF Accords, closed

\* Opening an attempt leaves failures, ends and exchanges as they are.
LEMMA OpenedAccords ==
    ASSUME NEW row \in Row, NEW history \in Seq(Attempt), NEW n \in Nat,
           Accords(row, history, n), row.status = "processing",
           \A i \in DOMAIN history : history[i].status # "pending",
           NEW new \in Attempt, new.status = "pending"
    PROVE  Accords(row, Append(history, new), n)
  <1>. DEFINE longer == Append(history, new)
  <1>1. /\ longer \in Seq(Attempt) /\ Len(longer) = Len(history) + 1
        /\ DOMAIN longer = 1 .. Len(history) + 1 /\ DOMAIN history = 1 .. Len(history)
        /\ \A i \in 1 .. Len(history) : longer[i] = history[i]
        /\ longer[Len(history) + 1] = new
        /\ Len(history) \in Nat
    OBVIOUS
  <1>. HIDE DEF longer
  <1>2. n <= Len(history)
    BY DEF Accords, WellKept
  <1>3. Since(longer, n) = Since(history, n) \cup {Len(history) + 1}
    BY <1>1, <1>2 DEF Since
  <1>4. Failures(longer, n) = Failures(history, n)
    BY <1>1, <1>3 DEF Failures, Since
  <1>5. Exchanges(longer, n) = Exchanges(history, n)
    BY <1>1, <1>3 DEF Exchanges, Since
  <1>6. WellKept(row, longer, n)
    BY <1>1, <1>2 DEF WellKept
  <1>7. OutcomeMatches(row, longer, n)
    BY DEF OutcomeMatches, Settled
  <1>8. EndsOnce(row, longer, n)
    <2>1. \A i \in Since(longer, n) : longer[i].status \notin Ended
      BY <1>1, <1>3 DEF EndsOnce, Accords, Ended, Since
    <2>. QED
      BY <2>1 DEF EndsOnce
  <1>9. CountMatches(row, longer, n)
    BY <1>4 DEF CountMatches, Accords
  <1>10. WithinPatience(row, longer, n)
    BY <1>4 DEF WithinPatience, Accords
  <1>11. ResponseFollows(row, longer, n)
    BY <1>1, <1>5 DEF ResponseFollows, Accords, Exchanges, Since
  <1>. QED
    BY <1>6, <1>7, <1>8, <1>9, <1>10, <1>11 DEF Accords, longer

\* Completing the open attempt and settling the row with the same result: the new
\* outcome is that of the newest attempt, the count and the set of failures grow
\* together, and a retry is scheduled only with a failure to spare.
LEMMA CompletedAccords ==
    ASSUME NEW row \in Row, NEW history \in Seq(Attempt), NEW n \in Nat,
           Accords(row, history, n), row.status = "processing",
           NEW last \in DOMAIN history, history[last].status = "pending",
           NEW res \in Result,
           res.status = "failed" /\ res.retry = "set"
               => \E m \in Patience : row.failures + 1 < m
    PROVE  Accords(FinishedRow(row, res),
                   [history EXCEPT ![last] = [status |-> res.status, body |-> res.body]], n)
  <1>. DEFINE new  == FinishedRow(row, res)
              done == [history EXCEPT ![last] = [status |-> res.status, body |-> res.body]]
  <1>1. /\ last = Len(history) /\ last > n /\ last \in Nat /\ n <= Len(history)
        /\ DOMAIN history = 1 .. last
    BY DEF Accords, WellKept
  <1>2. /\ DOMAIN done = 1 .. last /\ done \in Seq(Attempt) /\ Len(done) = last
        /\ done[last].status = res.status /\ done[last].body = res.body
        /\ \A i \in 1 .. last : i # last => done[i] = history[i]
    <2>1. [status |-> res.status, body |-> res.body] \in Attempt
      BY DEF Result, Attempt, AttemptState
    <2>2. done \in Seq(Attempt) /\ Len(done) = last
      BY <1>1, <2>1
    <2>. QED
      BY <1>1, <2>2
  <1>3. /\ res.status \in Ended => new.status = res.status
        /\ res.status = "cancelled" => new.status = "pending"
        /\ res.status = "failed" /\ res.retry = "set" => new.status = "retrying"
        /\ res.status = "failed" /\ res.retry # "set" => new.status = "dead_lettered"
        /\ res.status \in Ended => new.failures = 0
        /\ res.status = "cancelled" => new.failures = row.failures
        /\ res.status = "failed" => new.failures = row.failures + 1
        /\ res.status \in Ended \cup {"cancelled", "failed"}
        /\ new.response = IF res.status = "skipped" THEN row.response ELSE res.body
    <2>. HIDE DEF done
    <2>. QED
      BY FinishedRowFields DEF Result, Outcomes, Ended
  <1>. HIDE DEF new, done
  <1>4. Since(done, n) = Since(history, n) /\ last \in Since(done, n)
    BY <1>1, <1>2 DEF Since
  <1>5. \A i \in Since(done, n) : i \in 1 .. last /\ (i # last => done[i] = history[i])
    BY <1>1, <1>2 DEF Since
  <1>6. last \notin Failures(history, n) /\ last \notin Exchanges(history, n)
    BY DEF Failures, Exchanges
  <1>7. row.failures = Cardinality(Failures(history, n)) /\ row.failures \in Nat
    BY DEF Accords, CountMatches, Ended, Row
  <1>8. ASSUME res.status = "failed"
        PROVE  CountMatches(new, done, n) /\ WithinPatience(new, done, n)
    <2>1. Failures(done, n) = Failures(history, n) \cup {last}
      BY <1>1, <1>2, <1>4, <1>5, <1>8 DEF Failures
    <2>2. Cardinality(Failures(done, n)) = row.failures + 1
      <3>1. IsFiniteSet(Failures(history, n))
        BY FailuresFinite
      <3>. QED
        BY <1>6, <1>7, <2>1, <3>1, FS_AddElement
    <2>3. PICK m \in Patience : row.failures < m
      BY DEF Accords, WithinPatience
    <2>4. m \in Nat
      BY PatienceIsPositive
    <2>5. Cardinality(Failures(done, n)) <= m
      BY <1>7, <2>2, <2>3, <2>4
    <2>6. CountMatches(new, done, n)
      BY <1>3, <1>8, <2>2 DEF CountMatches, Ended
    <2>7. WithinPatience(new, done, n)
      BY <1>3, <1>8, <2>5 DEF WithinPatience, Queued
    <2>. QED
      BY <2>6, <2>7
  <1>9. ASSUME res.status # "failed"
        PROVE  CountMatches(new, done, n) /\ WithinPatience(new, done, n)
    <2>1. Failures(done, n) = Failures(history, n)
      BY <1>1, <1>2, <1>4, <1>5, <1>6, <1>9 DEF Failures
    <2>2. CountMatches(new, done, n)
      BY <1>3, <1>7, <1>9, <2>1 DEF CountMatches, Ended
    <2>3. WithinPatience(new, done, n)
      BY <1>3, <1>9, <2>1 DEF Accords, WithinPatience, Queued, Ended
    <2>. QED
      BY <2>2, <2>3
  <1>10. WellKept(new, done, n)
    BY <1>1, <1>2, <1>3 DEF Accords, WellKept, Ended
  <1>11. OutcomeMatches(new, done, n)
    BY <1>2, <1>3, <1>4 DEF OutcomeMatches, Ended, Settled
  <1>12. EndsOnce(new, done, n)
    <2>1. \A i \in Since(done, n) : i # last => done[i].status \notin Ended
      BY <1>4, <1>5 DEF Accords, EndsOnce, Ended
    <2>2. \A i, j \in Since(done, n) : i < j => i # last
      BY <1>1, <1>5
    <2>3. new.status \notin Ended => done[last].status \notin Ended
      BY <1>2, <1>3
    <2>. QED
      BY <2>1, <2>2, <2>3 DEF EndsOnce
  <1>13. ResponseFollows(new, done, n)
    <2>1. CASE res.status = "skipped"
      <3>1. Exchanges(done, n) = Exchanges(history, n)
        BY <1>1, <1>2, <1>4, <1>5, <1>6, <2>1 DEF Exchanges
      <3>2. \A i \in Exchanges(history, n) : done[i] = history[i]
        BY <1>4, <1>5, <1>6 DEF Exchanges
      <3>. QED
        BY <1>3, <2>1, <3>1, <3>2 DEF Accords, ResponseFollows
    <2>2. CASE res.status # "skipped"
      <3>1. last \in Exchanges(done, n)
        BY <1>2, <1>3, <1>4, <2>2 DEF Exchanges, Ended
      <3>2. \A j \in Exchanges(done, n) : j <= last
        BY <1>1, <1>5 DEF Exchanges
      <3>. QED
        BY <1>2, <1>3, <2>2, <3>1, <3>2 DEF ResponseFollows
    <2>. QED
      BY <2>1, <2>2
  <1>. QED
    BY <1>8, <1>9, <1>10, <1>11, <1>12, <1>13 DEF Accords, new, done

-----------------------------------------------------------------------------
(* What a step may do to a webhook's history.                                 *)

SameHistory(h) == attempts'[h] = attempts[h] /\ replayedAt'[h] = replayedAt[h]

QuietRow(h) ==
    \/ hooks'[h] = hooks[h]
    \/ hooks[h].status = "retrying" /\ hooks'[h] = [hooks[h] EXCEPT !.retry = "due"]
    \/ hooks[h].status = "processing" /\ hooks'[h] = [hooks[h] EXCEPT !.lease = "expired"]
    \/ hooks[h].status \in Queued /\ hooks'[h] = ClaimedRow(hooks[h])

HistoryStep(h) ==
    \/ SameHistory(h) /\ QuietRow(h)
    \/ SameHistory(h) /\ hooks[h].status = "unsaved" /\ hooks'[h] = EmptyRow("pending", 0)
    \/ /\ hooks[h].status = "processing" /\ hooks'[h] = ClaimedRow(hooks[h])
       /\ attempts'[h] = Interrupted(attempts[h]) /\ replayedAt'[h] = replayedAt[h]
    \/ /\ hooks[h].status = "processing" /\ NoOpenAttempt(h) /\ hooks'[h] = hooks[h]
       /\ attempts'[h] = Append(attempts[h], [status |-> "pending", body |-> "none"])
       /\ replayedAt'[h] = replayedAt[h]
    \/ \E w \in Workers :
           /\ FinishDelivery(w) /\ claim[w].hook = h
           /\ hooks'[h] = FinishedRow(hooks[h], result[w])
           /\ attempts'[h] = [attempts[h] EXCEPT ![attempt[w]] =
                                  [status |-> result[w].status, body |-> result[w].body]]
           /\ replayedAt'[h] = replayedAt[h]
    \/ /\ MayChange(h) /\ hooks'[h] = EmptyRow("pending", hooks[h].version)
       /\ attempts'[h] = attempts[h] /\ replayedAt'[h] = Len(attempts[h])
    \/ /\ MayChange(h) /\ hooks'[h] = EmptyRow("deleted", hooks[h].version)
       /\ attempts'[h] = <<>> /\ replayedAt'[h] = 0

\* Every step changes a row and its history in one of these ways.
LEMMA HistorySteps ==
    ASSUME TypeOK, [Next]_vars, NEW h \in Hooks
    PROVE  HistoryStep(h)
  <1>1. ASSUME UNCHANGED <<hooks, attempts, replayedAt>> PROVE HistoryStep(h)
    BY <1>1 DEF HistoryStep, SameHistory, QuietRow
  <1>2. ASSUME NEW g \in Hooks, Save(g) PROVE HistoryStep(h)
    BY <1>2 DEF Save, HistoryStep, SameHistory, QuietRow, TypeOK
  <1>3. ASSUME NEW w \in Workers, NEW g \in Hooks, ClaimDeliverable(w, g) PROVE HistoryStep(h)
    <2>1. /\ hooks' = [hooks EXCEPT ![g] = ClaimedRow(hooks[g])]
          /\ attempts' = IF hooks[g].status = "processing"
                         THEN [attempts EXCEPT ![g] = Interrupted(attempts[g])] ELSE attempts
          /\ replayedAt' = replayedAt
          /\ hooks[g].status \in Queued \cup {"processing"}
      BY <1>3 DEF ClaimDeliverable, Eligible, Queued
    <2>2. CASE g # h
      BY <2>1, <2>2 DEF HistoryStep, SameHistory, QuietRow, TypeOK
    <2>3. CASE g = h /\ hooks[h].status = "processing"
      BY <2>1, <2>3 DEF HistoryStep, TypeOK
    <2>4. CASE g = h /\ hooks[h].status # "processing"
      BY <2>1, <2>4 DEF HistoryStep, SameHistory, QuietRow, TypeOK
    <2>. QED
      BY <2>2, <2>3, <2>4
  <1>4. ASSUME NEW w \in Workers, CreateAttempt(w) PROVE HistoryStep(h)
    <2>1. /\ hooks' = hooks /\ replayedAt' = replayedAt
          /\ attempts' = [attempts EXCEPT ![claim[w].hook] =
                              Append(attempts[claim[w].hook], [status |-> "pending", body |-> "none"])]
          /\ hooks[claim[w].hook].status = "processing" /\ NoOpenAttempt(claim[w].hook)
      BY <1>4 DEF CreateAttempt, HoldsLease
    <2>2. CASE claim[w].hook = h
      BY <2>1, <2>2 DEF HistoryStep, TypeOK
    <2>3. CASE claim[w].hook # h
      BY <2>1, <2>3 DEF HistoryStep, SameHistory, QuietRow, TypeOK
    <2>. QED
      BY <2>2, <2>3
  <1>5. ASSUME NEW w \in Workers, FinishDelivery(w) PROVE HistoryStep(h)
    <2>. DEFINE g    == claim[w].hook
                done == [attempts[g] EXCEPT ![attempt[w]] =
                             [status |-> result[w].status, body |-> result[w].body]]
    <2>1. /\ hooks' = [hooks EXCEPT ![g] = FinishedRow(hooks[g], result[w])]
          /\ attempts' = [attempts EXCEPT ![g] = done]
          /\ replayedAt' = replayedAt
      BY <1>5 DEF FinishDelivery
    <2>2. CASE g = h
      <3>1. hooks'[h] = FinishedRow(hooks[h], result[w]) /\ attempts'[h] = done
        BY <2>1, <2>2 DEF TypeOK
      <3>. QED
        BY <1>5, <2>1, <2>2, <3>1 DEF HistoryStep
    <2>3. CASE g # h
      <3>1. hooks'[h] = hooks[h] /\ attempts'[h] = attempts[h]
        BY <2>1, <2>3 DEF TypeOK
      <3>. QED
        BY <2>1, <3>1 DEF HistoryStep, SameHistory, QuietRow
    <2>. QED
      BY <2>2, <2>3
  <1>6. ASSUME NEW g \in Hooks, RetryDue(g) PROVE HistoryStep(h)
    BY <1>6 DEF RetryDue, HistoryStep, SameHistory, QuietRow, TypeOK
  <1>7. ASSUME NEW g \in Hooks, LeaseExpires(g) \/ LeaseOverrun(g) PROVE HistoryStep(h)
    BY <1>7 DEF LeaseExpires, LeaseOverrun, ExpireLease, HistoryStep, SameHistory, QuietRow, TypeOK
  <1>8. ASSUME NEW S \in SUBSET Hooks, Requeue(S), \A g \in S : MayChange(g) PROVE HistoryStep(h)
    BY <1>8 DEF Requeue, ReplayedRow, HistoryStep, SameHistory, QuietRow
  <1>9. ASSUME NEW S \in SUBSET Hooks, Remove(S), \A g \in S : MayChange(g) PROVE HistoryStep(h)
    BY <1>9 DEF Remove, HistoryStep, SameHistory, QuietRow
  <1>10. ASSUME NEW g \in Hooks, Replay(g) \/ DeleteWebhook(g) PROVE HistoryStep(h)
    BY <1>8, <1>9, <1>10 DEF Replay, DeleteWebhook
  <1>11. ASSUME NEW S \in SUBSET Hooks, BulkReplay(S) PROVE HistoryStep(h)
    BY <1>8, <1>11 DEF BulkReplay, DeadLettered, MayChange, Stored
  <1>12. ASSUME NEW S \in SUBSET Hooks, Cleanup(S) PROVE HistoryStep(h)
    BY <1>9, <1>12 DEF Cleanup, Removable, MayChange, Stored
  <1>13. CASE \/ \E P \in Pools : Stop(P) \/ Restart(P) \/ Crash(P)
              \/ \E w \in Workers : Fault(w)
              \/ \E s \in Sources, rule \in Rule : SaveForwardingRule(s, rule)
              \/ \E s \in Sources, paused \in BOOLEAN : SetForwardingPaused(s, paused)
              \/ \E s \in Sources : DeleteForwardingRule(s)
              \/ UNCHANGED vars
    BY <1>1, <1>13 DEF Stop, Restart, Crash, NewProcess, Fault, SaveForwardingRule,
                       SetForwardingPaused, DeleteForwardingRule, vars, tables
  <1>14. ASSUME NEW w \in Workers, WorkerStep(w) PROVE HistoryStep(h)
    <2>1. \/ \E g \in Hooks : ClaimDeliverable(w, g)
          \/ CreateAttempt(w) \/ FinishDelivery(w)
          \/ UNCHANGED <<hooks, attempts, replayedAt>>
      BY <1>14 DEF WorkerStep, LoadRule, RefuseAttempt, SkipDelivery, Send, Conclude, LoseResult,
                   tables
    <2>. QED
      BY <2>1, <1>1, <1>3, <1>4, <1>5
  <1>. QED
    BY <1>2, <1>6, <1>7, <1>10, <1>11, <1>12, <1>13, <1>14 DEF Next

-----------------------------------------------------------------------------
(* Results of finishing workers.                                              *)

\* A failure was decided by the count of the claim and the limit of the rule loaded.
FailureFollowsPlan(w) == plan[w] # NoRule /\ (result[w].retry = "set" <=> MayRetry(w))

FailuresFollowPlans ==
    \A w \in Workers : pc[w] = "finishing" /\ result[w].status = "failed" => FailureFollowsPlan(w)

\* FailuresFollowPlans is inductive: Send compares the count of the claim with the limit
\* of the rule it loaded, and neither changes afterwards.
LEMMA FailuresFollowPlansStep ==
    ASSUME TypeOK, FailuresFollowPlans, [Next]_vars
    PROVE  FailuresFollowPlans'
  <1>. SUFFICES ASSUME NEW w \in Workers, pc'[w] = "finishing", result'[w].status = "failed"
                PROVE  FailureFollowsPlan(w)'
    BY DEF FailuresFollowPlans
  <1>1. ASSUME pc'[w] = pc[w], claim'[w] = claim[w], plan'[w] = plan[w], result'[w] = result[w]
        PROVE  FailureFollowsPlan(w)'
    BY <1>1 DEF FailuresFollowPlans, FailureFollowsPlan, MayRetry
  <1>2. ASSUME NEW v \in Workers,
               SkipDelivery(v) \/ \E success \in BOOLEAN, body \in Replies : Send(v, success, body)
        PROVE  FailureFollowsPlan(w)'
    <2>1. CASE v # w
      BY <1>1, <1>2, <2>1 DEF SkipDelivery, Send, Conclude, TypeOK
    <2>2. CASE v = w
      <3>1. claim' = claim /\ plan' = plan /\ plan[w] # NoRule
            /\ result'[w].retry = IF MayRetry(w) THEN "set" ELSE "none"
        BY <1>2, <2>2 DEF SkipDelivery, Send, Conclude, TypeOK
      <3>. QED
        BY <3>1 DEF FailureFollowsPlan, MayRetry
    <2>. QED
      BY <2>1, <2>2
  <1>3. ASSUME NEW v \in Workers, Forget(v) PROVE FailureFollowsPlan(w)'
    <2>1. v # w
      BY <1>3 DEF Forget, TypeOK
    <2>. QED
      BY <1>1, <1>3, <2>1 DEF Forget, TypeOK
  <1>4. ASSUME NEW v \in Workers,
               LoadRule(v) \/ CreateAttempt(v) \/ \E g \in Hooks : ClaimDeliverable(v, g)
        PROVE  FailureFollowsPlan(w)'
    <2>1. v # w
      BY <1>4 DEF LoadRule, CreateAttempt, ClaimDeliverable, TypeOK
    <2>. QED
      BY <1>1, <1>4, <2>1 DEF LoadRule, CreateAttempt, ClaimDeliverable, TypeOK
  <1>5. ASSUME NEW v \in Workers, WorkerStep(v) PROVE FailureFollowsPlan(w)'
    BY <1>2, <1>3, <1>4, <1>5 DEF WorkerStep, RefuseAttempt, FinishDelivery, LoseResult
  <1>6. ASSUME NEW P \in Pools, Restart(P) \/ Crash(P) PROVE FailureFollowsPlan(w)'
    <2>1. NewProcess(P) /\ w \notin P
      BY <1>6 DEF Restart, Crash, NewProcess
    <2>. QED
      BY <1>1, <2>1 DEF NewProcess
  <1>7. CASE \/ \E h \in Hooks : Save(h) \/ RetryDue(h) \/ LeaseExpires(h) \/ LeaseOverrun(h)
                                     \/ Replay(h) \/ DeleteWebhook(h)
             \/ \E S \in SUBSET Hooks : BulkReplay(S) \/ Cleanup(S)
    BY <1>1, <1>7 DEF Save, RetryDue, LeaseExpires, LeaseOverrun, ExpireLease, Replay,
                      DeleteWebhook, BulkReplay, Cleanup, Requeue, Remove, locals
  <1>8. CASE \/ \E P \in Pools : Stop(P)
             \/ \E s \in Sources, rule \in Rule : SaveForwardingRule(s, rule)
             \/ \E s \in Sources, paused \in BOOLEAN : SetForwardingPaused(s, paused)
             \/ \E s \in Sources : DeleteForwardingRule(s)
             \/ UNCHANGED vars
    BY <1>1, <1>8 DEF Stop, SaveForwardingRule, SetForwardingPaused, DeleteForwardingRule, vars,
                      locals
  <1>. QED
    BY <1>3, <1>5, <1>6, <1>7, <1>8 DEF Next, Fault

\* A failure that is to be retried leaves one to spare under some rule.
LEMMA RetriesHaveRoom ==
    ASSUME TypeOK, FailuresFollowPlans, NEW w \in Workers, pc[w] = "finishing",
           result[w].status = "failed", result[w].retry = "set"
    PROVE  \E m \in Patience : claim[w].failures + 1 < m
  <1>1. plan[w] # NoRule /\ MayRetry(w)
    BY DEF FailuresFollowPlans, FailureFollowsPlan
  <1>2. NormalizeMaxAttempts(plan[w].max) \in Patience
    BY <1>1 DEF Patience, TypeOK, Rule
  <1>. QED
    BY <1>1, <1>2 DEF MayRetry

-----------------------------------------------------------------------------
(* The inductive invariant and the theorems.                                  *)

HistoriesAccord == \A h \in Hooks : Accords(hooks[h], attempts[h], replayedAt[h])

HInv == IInv /\ FailuresFollowPlans /\ HistoriesAccord

\* Every step keeps the accord of one webhook with its history.
LEMMA AccordsStep ==
    ASSUME HInv, IInv', [Next]_vars, NEW h \in Hooks
    PROVE  Accords(hooks'[h], attempts'[h], replayedAt'[h])
  <1>1. /\ hooks[h] \in Row /\ hooks'[h] \in Row /\ attempts[h] \in Seq(Attempt)
        /\ replayedAt[h] \in Nat /\ hooks[h].version \in Nat
        /\ Accords(hooks[h], attempts[h], replayedAt[h])
    BY DEF HInv, IInv, TypeOK, HistoriesAccord, Row
  <1>2. HistoryStep(h)
    BY HistorySteps DEF HInv, IInv
  <1>3. CASE SameHistory(h) /\ QuietRow(h)
    <2>1. /\ \/ hooks'[h].status = hooks[h].status
             \/ hooks[h].status \in Queued /\ hooks'[h].status = "processing"
          /\ hooks'[h].failures = hooks[h].failures /\ hooks'[h].response = hooks[h].response
      <3>1. CASE hooks[h].status \in Queued /\ hooks'[h] = ClaimedRow(hooks[h])
        BY <1>1, <3>1, ClaimedRowType
      <3>2. CASE hooks'[h] = hooks[h]
        BY <1>1, <3>2
      <3>3. CASE hooks'[h] = [hooks[h] EXCEPT !.retry = "due"]
        BY <1>1, <3>3 DEF Row
      <3>4. CASE hooks'[h] = [hooks[h] EXCEPT !.lease = "expired"]
        BY <1>1, <3>4 DEF Row
      <3>. QED
        BY <1>3, <3>1, <3>2, <3>3, <3>4 DEF QuietRow
    <2>2. Accords(hooks'[h], attempts[h], replayedAt[h])
      BY <1>1, <2>1, QuietChangeAccords
    <2>. QED
      BY <1>3, <2>2 DEF SameHistory
  <1>4. CASE SameHistory(h) /\ hooks[h].status = "unsaved" /\ hooks'[h] = EmptyRow("pending", 0)
    <2>1. attempts[h] = <<>> /\ replayedAt[h] = 0 /\ Len(<<>>) = 0 /\ DOMAIN <<>> = {}
      BY <1>1, <1>4 DEF Accords, WellKept
    <2>. QED
      BY <1>1, <1>4, <2>1, FreshRowAccords DEF SameHistory
  <1>5. CASE /\ hooks[h].status = "processing" /\ hooks'[h] = ClaimedRow(hooks[h])
             /\ attempts'[h] = Interrupted(attempts[h]) /\ replayedAt'[h] = replayedAt[h]
    <2>1. /\ hooks'[h].status = "processing" /\ hooks'[h].failures = hooks[h].failures
          /\ hooks'[h].response = hooks[h].response
      BY <1>1, <1>5, ClaimedRowType
    <2>. QED
      BY <1>1, <1>5, <2>1, InterruptedAccords
  <1>6. CASE /\ hooks[h].status = "processing" /\ NoOpenAttempt(h) /\ hooks'[h] = hooks[h]
             /\ attempts'[h] = Append(attempts[h], [status |-> "pending", body |-> "none"])
             /\ replayedAt'[h] = replayedAt[h]
    <2>1. [status |-> "pending", body |-> "none"] \in Attempt
      BY RepliesAssumption DEF Attempt, AttemptState, Bodies
    <2>. QED
      BY <1>1, <1>6, <2>1, OpenedAccords DEF NoOpenAttempt
  <1>7. ASSUME NEW w \in Workers, FinishDelivery(w), claim[w].hook = h,
               hooks'[h] = FinishedRow(hooks[h], result[w]),
               attempts'[h] = [attempts[h] EXCEPT ![attempt[w]] =
                                  [status |-> result[w].status, body |-> result[w].body]],
               replayedAt'[h] = replayedAt[h]
        PROVE  Accords(hooks'[h], attempts'[h], replayedAt'[h])
    <2>1. /\ result[w] \in Result /\ pc[w] = "finishing"
          /\ attempt[w] \in DOMAIN attempts[h] /\ attempts[h][attempt[w]].status = "pending"
          /\ hooks[h].status = "processing" /\ Owns(w, h)
      BY <1>7 DEF FinishDelivery, CanFinish, HoldsLease, HInv, IInv, TypeOK, Owns, Active
    <2>2. claim[w].failures = hooks[h].failures
      BY <2>1 DEF HInv, IInv, ClaimIsFresh
    <2>3. result[w].status = "failed" /\ result[w].retry = "set"
              => \E m \in Patience : hooks[h].failures + 1 < m
      BY <2>1, <2>2, RetriesHaveRoom DEF HInv, IInv
    <2>. QED
      BY <1>1, <1>7, <2>1, <2>3, CompletedAccords
  <1>8. CASE /\ MayChange(h) /\ hooks'[h] = EmptyRow("pending", hooks[h].version)
             /\ attempts'[h] = attempts[h] /\ replayedAt'[h] = Len(attempts[h])
    <2>1. \A i \in DOMAIN attempts[h] : attempts[h][i].status # "pending"
      BY <1>1, <1>8 DEF Accords, WellKept, MayChange
    <2>2. Len(attempts[h]) \in Nat
      BY <1>1
    <2>. QED
      BY <1>1, <1>8, <2>1, <2>2, FreshRowAccords
  <1>9. CASE /\ MayChange(h) /\ hooks'[h] = EmptyRow("deleted", hooks[h].version)
             /\ attempts'[h] = <<>> /\ replayedAt'[h] = 0
    <2>1. <<>> \in Seq(Attempt) /\ Len(<<>>) = 0 /\ DOMAIN <<>> = {}
      OBVIOUS
    <2>. QED
      BY <1>1, <1>9, <2>1, FreshRowAccords
  <1>. QED
    BY <1>2, <1>3, <1>4, <1>5, <1>6, <1>7, <1>8, <1>9 DEF HistoryStep

\* Rows accord with their histories in every reachable state.
THEOREM HistoryInvariance == Spec => []HInv
<1>1. Init => FailuresFollowPlans /\ HistoriesAccord
  <2>. SUFFICES ASSUME Init PROVE FailuresFollowPlans /\ HistoriesAccord
    OBVIOUS
  <2>1. FailuresFollowPlans
    BY DEF Init, FailuresFollowPlans
  <2>2. ASSUME NEW h \in Hooks PROVE Accords(hooks[h], attempts[h], replayedAt[h])
    <3>1. hooks[h] = EmptyRow("unsaved", 0) /\ attempts[h] = <<>> /\ replayedAt[h] = 0
      BY DEF Init
    <3>2. <<>> \in Seq(Attempt) /\ Len(<<>>) = 0 /\ DOMAIN <<>> = {}
      OBVIOUS
    <3>. QED
      BY <3>1, <3>2, FreshRowAccords
  <2>. QED
    BY <2>1, <2>2 DEF HistoriesAccord
<1>2. IInv /\ IInv' /\ FailuresFollowPlans /\ HistoriesAccord /\ [Next]_vars
          => (FailuresFollowPlans /\ HistoriesAccord)'
  BY AccordsStep, FailuresFollowPlansStep DEF HInv, IInv, HistoriesAccord
<1>. QED
  BY <1>1, <1>2, Invariance, PTL DEF Spec, HInv

\* The status of a row is the outcome of its newest attempt.
THEOREM OutcomesMatch == Spec => []OutcomeMatchesHistory
<1>1. HInv => OutcomeMatchesHistory
  BY DEF HInv, HistoriesAccord, Accords, OutcomeMatches, OutcomeMatchesHistory, Epoch, Since,
         LastStatus
<1>. QED
  BY <1>1, HistoryInvariance, PTL

\* After a recorded success or skip nothing is attempted again before a replay.
THEOREM SettledStays == Spec => []SettledIsFinal
<1>1. HInv => SettledIsFinal
  BY DEF HInv, HistoriesAccord, Accords, EndsOnce, SettledIsFinal, Epoch, Since, Ended
<1>. QED
  BY <1>1, HistoryInvariance, PTL

\* failure_count is the number of failed attempts since the last replay.
THEOREM FailuresCounted == Spec => []FailureCountMatchesHistory
<1>1. HInv => FailureCountMatchesHistory
  BY DEF HInv, HistoriesAccord, Accords, CountMatches, FailureCountMatchesHistory, FailedIn,
         Failures, Epoch, Since, Ended
<1>. QED
  BY <1>1, HistoryInvariance, PTL

\* Whatever crashes, lost leases and rule changes come in between, a webhook fails at
\* most as often as the most patient rule allows.
THEOREM BoundedRetries == Spec => []RetriesBounded
<1>1. HInv => RetriesBounded
  BY DEF HInv, HistoriesAccord, Accords, WithinPatience, RetriesBounded, FailedIn, Failures,
         Epoch, Since
<1>. QED
  BY <1>1, HistoryInvariance, PTL

\* A worker's failure becomes a retry exactly while the count that is stored with it lies
\* below the limit of the rule the worker loaded.
LEMMA FailureIsDecided ==
    ASSUME HInv, [Next]_vars, NEW w \in Workers, NEW h \in Hooks, Owns(w, h),
           hooks[h].status = "processing", hooks'[h].status \in {"retrying", "dead_lettered"}
    PROVE  /\ plan[w] # NoRule
           /\ hooks'[h].status = "retrying"
                  <=> hooks'[h].failures < NormalizeMaxAttempts(plan[w].max)
  <1>1. RowStep(h) /\ hooks[h] \in Row
    BY RowSteps DEF HInv, IInv, TypeOK
  <1>2. PICK v \in Workers : /\ FinishDelivery(v) /\ claim[v].hook = h
                             /\ hooks'[h] = FinishedRow(hooks[h], result[v])
    BY <1>1 DEF RowStep, ClaimDeliverable, ClaimedRow, Eligible, RetryDue, ExpireLease, Replaced,
                MayChange, EmptyRow, Row
  <1>3. v = w
    BY <1>2 DEF FinishDelivery, CanFinish, HoldsLease, Owns, Active, HInv, IInv, FencingTokens
  <1>4. pc[w] = "finishing" /\ result[w] \in Result
    BY <1>2, <1>3 DEF FinishDelivery, HInv, IInv, TypeOK
  <1>5. hooks'[h].status = CASE result[w].status \in {"success", "skipped"} -> result[w].status
                             [] result[w].status = "cancelled" -> "pending"
                             [] result[w].status = "failed" /\ result[w].retry = "set" -> "retrying"
                             [] OTHER -> "dead_lettered"
    BY <1>1, <1>2, <1>3, <1>4, FinishedRowFields
  <1>6. result[w].status = "failed"
    BY <1>4, <1>5 DEF Result, Outcomes
  <1>7. FailureFollowsPlan(w)
    BY <1>4, <1>6 DEF HInv, FailuresFollowPlans
  <1>8. claim[w].failures = hooks[h].failures
    BY DEF HInv, IInv, ClaimIsFresh
  <1>9. hooks'[h].failures = hooks[h].failures + 1
    BY <1>1, <1>2, <1>3, <1>4, <1>6, FinishedRowFields
  <1>10. hooks'[h].status = "retrying" <=> result[w].retry = "set"
    BY <1>4, <1>5, <1>6 DEF Result
  <1>. QED
    BY <1>7, <1>8, <1>9, <1>10 DEF FailureFollowsPlan, MayRetry

\* Whatever comes in between, a failure is retried or not by the limit of the rule loaded
\* for it and by the count stored with the row.
THEOREM LimitsDecide == Spec => LimitDecides
<1>. DEFINE Decided(w, h) ==
              /\ Owns(w, h) /\ hooks[h].status = "processing"
              /\ hooks'[h].status \in {"retrying", "dead_lettered"}
              => /\ plan[w] # NoRule
                 /\ hooks'[h].status = "retrying"
                        <=> hooks'[h].failures < NormalizeMaxAttempts(plan[w].max)
<1>1. HInv /\ [Next]_vars => \A w \in Workers, h \in Hooks : Decided(w, h)
  BY FailureIsDecided
<1>2. (\A w \in Workers, h \in Hooks : Decided(w, h))
          => [\A w \in Workers, h \in Hooks : Decided(w, h)]_vars
  OBVIOUS
<1>. QED
  BY <1>1, HistoryInvariance, PTL DEF Spec, LimitDecides

\* The response kept with a row is that of its newest exchange.
THEOREM ResponsesFollow == Spec => []ResponseFollowsHistory
<1>1. ASSUME HInv, NEW h \in Hooks
      PROVE  hooks[h].response =
                IF Exchanged(h) = {} THEN "none"
                ELSE LET last == CHOOSE i \in Exchanged(h) : \A j \in Exchanged(h) : j <= i
                     IN attempts[h][last].body
  <2>1. Exchanged(h) = Exchanges(attempts[h], replayedAt[h])
    BY DEF Exchanged, Exchanges, Epoch, Since
  <2>2. ResponseFollows(hooks[h], attempts[h], replayedAt[h])
    BY <1>1 DEF HInv, HistoriesAccord, Accords
  <2>3. \A i \in Exchanged(h) : i \in Nat
    <3>1. attempts[h] \in Seq(Attempt)
      BY <1>1 DEF HInv, IInv, TypeOK
    <3>. QED
      BY <3>1 DEF Exchanged, Epoch
  <2>4. CASE Exchanged(h) = {}
    BY <2>1, <2>2, <2>4 DEF ResponseFollows
  <2>5. CASE Exchanged(h) # {}
    <3>1. PICK i \in Exchanged(h) : /\ \A j \in Exchanged(h) : j <= i
                                    /\ hooks[h].response = attempts[h][i].body
      BY <2>1, <2>2, <2>5 DEF ResponseFollows
    <3>2. \A k \in Exchanged(h) : (\A j \in Exchanged(h) : j <= k) => k = i
      BY <2>3, <3>1
    <3>3. (CHOOSE k \in Exchanged(h) : \A j \in Exchanged(h) : j <= k) = i
      BY <3>1, <3>2
    <3>. QED
      BY <2>5, <3>1, <3>3
  <2>. QED
    BY <2>4, <2>5
<1>2. HInv => ResponseFollowsHistory
  BY <1>1 DEF ResponseFollowsHistory
<1>. QED
  BY <1>2, HistoryInvariance, PTL

\* A completed attempt is never rewritten, and attempts disappear only with their
\* webhook.
THEOREM AppendOnlyHistory == Spec => HistoryIsAppendOnly
<1>. DEFINE Grows(h) == hooks'[h].status # "deleted" =>
                          /\ Len(attempts'[h]) >= Len(attempts[h])
                          /\ \A i \in DOMAIN attempts[h] :
                                attempts'[h][i] # attempts[h][i]
                                    => attempts[h][i].status = "pending"
<1>1. IInv /\ [Next]_vars => \A h \in Hooks : Grows(h)
  <2>. SUFFICES ASSUME IInv, [Next]_vars, NEW h \in Hooks PROVE Grows(h)
    OBVIOUS
  <2>1. HistoryStep(h) /\ attempts[h] \in Seq(Attempt) /\ Len(attempts[h]) \in Nat
    BY HistorySteps DEF IInv, TypeOK
  <2>2. CASE attempts'[h] = attempts[h]
    BY <2>1, <2>2
  <2>3. CASE attempts'[h] = Interrupted(attempts[h])
    <3>1. \A i \in DOMAIN attempts[h] : attempts[h][i].status # "pending"
              => Interrupted(attempts[h])[i] = attempts[h][i]
      BY DEF Interrupted
    <3>. QED
      BY <2>1, <2>3, <3>1, InterruptedType
  <2>4. CASE attempts'[h] = Append(attempts[h], [status |-> "pending", body |-> "none"])
    BY <2>1, <2>4
  <2>5. ASSUME NEW w \in Workers, FinishDelivery(w), claim[w].hook = h,
               attempts'[h] = [attempts[h] EXCEPT ![attempt[w]] =
                                  [status |-> result[w].status, body |-> result[w].body]]
        PROVE  Grows(h)
    <3>1. attempt[w] \in DOMAIN attempts[h] /\ attempts[h][attempt[w]].status = "pending"
      BY <2>5 DEF FinishDelivery, CanFinish
    <3>2. attempts'[h] \in Seq(Attempt) /\ DOMAIN attempts'[h] = DOMAIN attempts[h]
      BY <2>5, TypeStep DEF IInv, TypeOK
    <3>3. Len(attempts'[h]) = Len(attempts[h])
      BY <2>1, <3>2
    <3>4. \A i \in DOMAIN attempts[h] : i # attempt[w] => attempts'[h][i] = attempts[h][i]
      BY <2>5
    <3>. QED
      BY <2>1, <3>1, <3>3, <3>4
  <2>6. CASE hooks'[h] = EmptyRow("deleted", hooks[h].version)
    BY <2>6 DEF EmptyRow
  <2>. QED
    BY <2>1, <2>2, <2>3, <2>4, <2>5, <2>6 DEF HistoryStep, SameHistory
<1>2. (\A h \in Hooks : Grows(h)) => [\A h \in Hooks : Grows(h)]_vars
  OBVIOUS
<1>. QED
  BY <1>1, Invariance, PTL DEF Spec, HistoryIsAppendOnly

=============================================================================
