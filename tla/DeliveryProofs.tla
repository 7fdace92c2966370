--------------------------- MODULE DeliveryProofs ---------------------------
(***************************************************************************)
(* Machine-checked theorems about Delivery, for any webhooks, sources,      *)
(* workers, rules, replies and bounds.                                      *)
(***************************************************************************)
EXTENDS Delivery, TLAPS

-----------------------------------------------------------------------------
(* What the row and history helpers return.                                  *)

\* A fresh, replayed or deleted row is a row.
LEMMA EmptyRowType ==
    ASSUME NEW status \in Statuses, NEW version \in Nat
    PROVE  EmptyRow(status, version) \in Row
  BY RepliesAssumption DEF EmptyRow, Row, Bodies

\* Claiming a row gives a row, under the next lease version, with its failures kept.
LEMMA ClaimedRowType ==
    ASSUME NEW row \in Row
    PROVE  /\ ClaimedRow(row) \in Row
           /\ ClaimedRow(row).status = "processing"
           /\ ClaimedRow(row).failures = row.failures
           /\ ClaimedRow(row).retry = "none"
           /\ ClaimedRow(row).lease = "live"
           /\ ClaimedRow(row).version = row.version + 1
           /\ ClaimedRow(row).response = row.response
           /\ ClaimedRow(row).dead = row.dead
  <1>. DEFINE next == [row EXCEPT !.version = @ + 1]
  <1>1. next \in Row
    BY DEF Row
  <1>2. [next EXCEPT !.status = "processing", !.retry = "none", !.lease = "live"] \in Row
    BY <1>1 DEF Row, Statuses
  <1>3. ClaimedRow(row) = [next EXCEPT !.status = "processing", !.retry = "none", !.lease = "live"]
    BY <1>1 DEF ClaimedRow, Row
  <1>4. /\ ClaimedRow(row).status = "processing"
        /\ ClaimedRow(row).failures = row.failures
        /\ ClaimedRow(row).retry = "none"
        /\ ClaimedRow(row).lease = "live"
        /\ ClaimedRow(row).version = row.version + 1
        /\ ClaimedRow(row).response = row.response
        /\ ClaimedRow(row).dead = row.dead
    BY DEF ClaimedRow, Row
  <1>. QED
    BY <1>2, <1>3, <1>4

\* What a delivery result makes of each field of a row.
LEMMA FinishedRowFields ==
    ASSUME NEW row \in Row, NEW res \in Result
    PROVE  LET new == FinishedRow(row, res) IN
           /\ new.status = CASE res.status \in {"success", "skipped"} -> res.status
                             [] res.status = "cancelled" -> "pending"
                             [] res.status = "failed" /\ res.retry = "set" -> "retrying"
                             [] OTHER -> "dead_lettered"
           /\ new.failures = CASE res.status \in {"success", "skipped"} -> 0
                               [] res.status = "cancelled" -> row.failures
                               [] OTHER -> row.failures + 1
           /\ new.retry = CASE res.status \in {"success", "skipped"} -> "none"
                            [] res.status = "cancelled" -> row.retry
                            [] res.status = "failed" /\ res.retry = "set" -> "waiting"
                            [] OTHER -> "none"
           /\ new.lease = "none"
           /\ new.version = row.version
           /\ new.response = IF res.status = "skipped" THEN row.response ELSE res.body
           /\ new.dead = CASE res.status \in {"success", "skipped"} -> "none"
                           [] res.status = "cancelled" -> row.dead
                           [] res.status = "failed" /\ res.retry = "set" -> "none"
                           [] OTHER -> "set"
  <1>. DEFINE new == FinishedRow(row, res)
  <1>1. CASE res.status \in {"success", "skipped"}
    BY <1>1 DEF FinishedRow, Row
  <1>2. CASE res.status = "cancelled"
    BY <1>2 DEF FinishedRow, Row
  <1>3. CASE res.status = "failed" /\ res.retry = "set"
    BY <1>3 DEF FinishedRow, Row
  <1>4. CASE res.status = "failed" /\ res.retry # "set"
    BY <1>4 DEF FinishedRow, Row
  <1>. QED
    BY <1>1, <1>2, <1>3, <1>4 DEF Result, Outcomes

\* Applying a delivery result to a row gives a row.
LEMMA FinishedRowType ==
    ASSUME NEW row \in Row, NEW res \in Result
    PROVE  FinishedRow(row, res) \in Row
  <1>. DEFINE saved == [row EXCEPT !.lease = "none",
                                   !.response = IF res.status = "skipped" THEN @ ELSE res.body]
  <1>1. saved \in Row
    BY DEF Row, Result
  <1>2. CASE res.status \in {"success", "skipped"}
    <2>. DEFINE part == [saved EXCEPT !.status = res.status, !.failures = 0]
    <2>1. part \in Row
      <3>1. res.status \in Statuses
        BY <1>2 DEF Statuses, Settled
      <3>. HIDE DEF saved
      <3>. QED  BY <1>1, <3>1 DEF Row
    <2>2. [part EXCEPT !.retry = "none", !.dead = "none"] \in Row
      <3>. HIDE DEF part
      <3>. QED  BY <2>1 DEF Row
    <2>3. FinishedRow(row, res) = [saved EXCEPT !.status = res.status, !.failures = 0,
                                                !.retry = "none", !.dead = "none"]
      BY <1>2 DEF FinishedRow
    <2>4. FinishedRow(row, res) = [part EXCEPT !.retry = "none", !.dead = "none"]
      BY <2>3, Zenon
    <2>. QED
      BY <2>2, <2>4
  <1>3. CASE res.status = "cancelled"
    <2>1. FinishedRow(row, res) = [saved EXCEPT !.status = "pending"]
      BY <1>3 DEF FinishedRow
    <2>2. [saved EXCEPT !.status = "pending"] \in Row
      <3>. HIDE DEF saved
      <3>. QED  BY <1>1 DEF Row, Statuses, Queued
    <2>. QED
      BY <2>1, <2>2
  <1>4. CASE res.status = "failed" /\ res.retry = "set"
    <2>. DEFINE part == [saved EXCEPT !.status = "retrying", !.failures = row.failures + 1]
    <2>1. part \in Row
      <3>1. row.failures + 1 \in Nat
        BY DEF Row
      <3>. HIDE DEF saved
      <3>. QED  BY <1>1, <3>1 DEF Row, Statuses, Queued
    <2>2. [part EXCEPT !.retry = "waiting", !.dead = "none"] \in Row
      <3>. HIDE DEF part
      <3>. QED  BY <2>1 DEF Row
    <2>3. FinishedRow(row, res) = [saved EXCEPT !.status = "retrying", !.failures = row.failures + 1,
                                                !.retry = "waiting", !.dead = "none"]
      BY <1>4 DEF FinishedRow
    <2>4. FinishedRow(row, res) = [part EXCEPT !.retry = "waiting", !.dead = "none"]
      BY <2>3, Zenon
    <2>. QED
      BY <2>2, <2>4
  <1>5. CASE res.status = "failed" /\ res.retry # "set"
    <2>. DEFINE part == [saved EXCEPT !.status = "dead_lettered", !.failures = row.failures + 1]
    <2>1. part \in Row
      <3>1. row.failures + 1 \in Nat
        BY DEF Row
      <3>. HIDE DEF saved
      <3>. QED  BY <1>1, <3>1 DEF Row, Statuses, Settled
    <2>2. [part EXCEPT !.retry = "none", !.dead = "set"] \in Row
      <3>. HIDE DEF part
      <3>. QED  BY <2>1 DEF Row
    <2>3. FinishedRow(row, res) = [saved EXCEPT !.status = "dead_lettered", !.failures = row.failures + 1,
                                                !.retry = "none", !.dead = "set"]
      BY <1>5 DEF FinishedRow
    <2>4. FinishedRow(row, res) = [part EXCEPT !.retry = "none", !.dead = "set"]
      BY <2>3, Zenon
    <2>. QED
      BY <2>2, <2>4
  <1>. QED
    BY <1>2, <1>3, <1>4, <1>5 DEF Result, Outcomes

\* Closing the open attempts of a history keeps its length and its other attempts.
LEMMA InterruptedType ==
    ASSUME NEW history \in Seq(Attempt)
    PROVE  /\ Interrupted(history) \in Seq(Attempt)
           /\ Len(Interrupted(history)) = Len(history)
           /\ DOMAIN Interrupted(history) = DOMAIN history
  <1>1. DOMAIN history = 1 .. Len(history) /\ Len(history) \in Nat
    OBVIOUS
  <1>2. \A i \in 1 .. Len(history) : history[i] \in Attempt
    OBVIOUS
  <1>3. \A i \in 1 .. Len(history) : Interrupted(history)[i] \in Attempt
    BY <1>1, <1>2 DEF Interrupted, Attempt, AttemptState
  <1>4. Interrupted(history) = [i \in 1 .. Len(history) |-> Interrupted(history)[i]]
    BY <1>1 DEF Interrupted
  <1>5. Interrupted(history) \in Seq(Attempt)
    BY <1>1, <1>3, <1>4
  <1>6. DOMAIN Interrupted(history) = 1 .. Len(history)
    BY <1>1 DEF Interrupted
  <1>7. Len(Interrupted(history)) = Len(history)
    BY <1>1, <1>5, <1>6
  <1>. QED
    BY <1>1, <1>5, <1>6, <1>7

-----------------------------------------------------------------------------
(* Type correctness.                                                         *)

\* Forgetting a delivery keeps the workers' variables in their types.
LEMMA ForgetType ==
    ASSUME TypeOK, NEW w \in Workers, Forget(w)
    PROVE  /\ pc' \in [Workers -> {"idle", "claimed", "prepared", "attempted", "finishing"}]
           /\ claim' \in [Workers -> Claim \cup {NoClaim}]
           /\ plan' \in [Workers -> Rule \cup {NoRule}]
           /\ attempt' \in [Workers -> Nat]
           /\ result' \in [Workers -> Result \cup {NoResult}]
           /\ \A v \in Workers : Active(v)' => claim'[v] \in Claim
           /\ \A v \in Workers : pc'[v] = "finishing" => result'[v] \in Result
  BY DEF TypeOK, Forget, Active

\* A result computed from a loaded rule is a result.
LEMMA ConcludeType ==
    ASSUME TypeOK, NEW w \in Workers, pc[w] = "attempted",
           NEW status \in Outcomes, NEW retry \in {"none", "set"}, NEW body \in Replies,
           Conclude(w, status, retry, body)
    PROVE  TypeOK'
  <1>1. [status |-> status, retry |-> retry, body |-> body] \in Result
    BY DEF Result, Bodies
  <1>2. [status |-> "cancelled", retry |-> "none", body |-> body] \in Result
    BY DEF Result, Bodies, Outcomes
  <1>3. result' \in [Workers -> Result \cup {NoResult}] /\ result'[w] \in Result
    BY <1>1, <1>2 DEF Conclude, TypeOK
  <1>4. \A v \in Workers : pc'[v] = "finishing" => result'[v] \in Result
    BY <1>3 DEF Conclude, TypeOK
  <1>. QED
    BY <1>3, <1>4 DEF TypeOK, Conclude, Active, tables

\* The initial states are well-typed.
LEMMA TypeInit ==
    ASSUME Init
    PROVE  TypeOK
  <1>1. hooks \in [Hooks -> Row]
    BY EmptyRowType DEF Init, Statuses
  <1>2. attempts \in [Hooks -> Seq(Attempt)]
    BY DEF Init
  <1>. QED
    BY <1>1, <1>2 DEF Init, TypeOK, Active

\* A row stays a row when its retry falls due or its lease runs out.
LEMMA PassingTimeType ==
    ASSUME NEW row \in Row
    PROVE  [row EXCEPT !.retry = "due"] \in Row /\ [row EXCEPT !.lease = "expired"] \in Row
  BY DEF Row

\* Every step keeps the types.
LEMMA TypeStep ==
    ASSUME TypeOK, [Next]_vars
    PROVE  TypeOK'
  <1>1. ASSUME NEW h \in Hooks, Save(h) PROVE TypeOK'
    BY <1>1, EmptyRowType DEF Save, TypeOK, Active, locals, Statuses, Queued
  <1>2. ASSUME NEW w \in Workers, NEW h \in Hooks, ClaimDeliverable(w, h) PROVE TypeOK'
    <2>1. hooks' \in [Hooks -> Row]
      BY <1>2, ClaimedRowType DEF ClaimDeliverable, TypeOK
    <2>2. attempts' \in [Hooks -> Seq(Attempt)]
      BY <1>2, InterruptedType DEF ClaimDeliverable, TypeOK
    <2>3. [hook |-> h, version |-> hooks[h].version + 1, failures |-> hooks[h].failures] \in Claim
      BY DEF TypeOK, Row, Claim
    <2>. QED
      BY <1>2, <2>1, <2>2, <2>3 DEF ClaimDeliverable, TypeOK, Active
  <1>3. ASSUME NEW w \in Workers, LoadRule(w) PROVE TypeOK'
    BY <1>3, HooksAssumption DEF LoadRule, TypeOK, Active, RuleOf, tables, Claim
  <1>4. ASSUME NEW w \in Workers, CreateAttempt(w) PROVE TypeOK'
    <2>1. claim[w].hook \in Hooks
      BY <1>4 DEF CreateAttempt, TypeOK, Active, Claim
    <2>2. [status |-> "pending", body |-> "none"] \in Attempt
      BY RepliesAssumption DEF Attempt, AttemptState, Bodies
    <2>3. attempts' \in [Hooks -> Seq(Attempt)]
      BY <1>4, <2>1, <2>2 DEF CreateAttempt, TypeOK
    <2>4. attempt' \in [Workers -> Nat]
      BY <1>4, <2>1 DEF CreateAttempt, TypeOK
    <2>. QED
      BY <1>4, <2>3, <2>4 DEF CreateAttempt, TypeOK, Active
  <1>5. ASSUME NEW w \in Workers, RefuseAttempt(w) PROVE TypeOK'
    BY <1>5, ForgetType DEF RefuseAttempt, TypeOK, tables
  <1>6. ASSUME NEW w \in Workers, SkipDelivery(w) PROVE TypeOK'
    BY <1>6, ConcludeType, RepliesAssumption DEF SkipDelivery, Outcomes
  <1>7. ASSUME NEW w \in Workers, NEW success \in BOOLEAN, NEW body \in Replies,
               Send(w, success, body)
        PROVE TypeOK'
    <2>1. CASE success
      BY <1>7, <2>1, ConcludeType DEF Send, Outcomes
    <2>2. CASE ~success
      BY <1>7, <2>2, ConcludeType DEF Send, Outcomes
    <2>. QED
      BY <2>1, <2>2
  <1>8. ASSUME NEW w \in Workers, FinishDelivery(w) PROVE TypeOK'
    <2>1. claim[w].hook \in Hooks /\ result[w] \in Result
      BY <1>8 DEF FinishDelivery, TypeOK, Active, Claim
    <2>2. hooks' \in [Hooks -> Row]
      BY <1>8, <2>1, FinishedRowType DEF FinishDelivery, TypeOK
    <2>3. [status |-> result[w].status, body |-> result[w].body] \in Attempt
      BY <2>1 DEF Result, Attempt, AttemptState
    <2>4. attempts' \in [Hooks -> Seq(Attempt)]
      <3>. DEFINE h == claim[w].hook
                  new == [status |-> result[w].status, body |-> result[w].body]
      <3>1. attempts[h] \in Seq(Attempt) /\ attempt[w] \in 1 .. Len(attempts[h])
        BY <1>8, <2>1 DEF FinishDelivery, CanFinish, TypeOK
      <3>2. [attempts[h] EXCEPT ![attempt[w]] = new] \in Seq(Attempt)
        BY <3>1, <2>3
      <3>3. attempts' = [attempts EXCEPT ![h] = [attempts[h] EXCEPT ![attempt[w]] = new]]
        BY <1>8 DEF FinishDelivery
      <3>. QED
        BY <3>2, <3>3, <2>1 DEF TypeOK
    <2>. QED
      BY <1>8, <2>2, <2>4, ForgetType DEF FinishDelivery, TypeOK
  <1>9. ASSUME NEW w \in Workers, LoseResult(w) PROVE TypeOK'
    BY <1>9, ForgetType DEF LoseResult, TypeOK, tables
  <1>10. ASSUME NEW h \in Hooks, RetryDue(h) PROVE TypeOK'
    <2>1. hooks' \in [Hooks -> Row]
      BY <1>10, PassingTimeType DEF RetryDue, TypeOK
    <2>. QED
      BY <1>10, <2>1 DEF RetryDue, TypeOK, Active, locals
  <1>11. ASSUME NEW h \in Hooks, LeaseExpires(h) PROVE TypeOK'
    <2>1. hooks' \in [Hooks -> Row]
      BY <1>11, PassingTimeType DEF LeaseExpires, ExpireLease, TypeOK
    <2>. QED
      BY <1>11, <2>1 DEF LeaseExpires, ExpireLease, TypeOK, Active, locals
  <1>12. ASSUME NEW h \in Hooks, LeaseOverrun(h) PROVE TypeOK'
    <2>1. hooks' \in [Hooks -> Row]
      BY <1>12, PassingTimeType DEF LeaseOverrun, ExpireLease, TypeOK
    <2>2. spent' \in Nat
      BY <1>12 DEF LeaseOverrun, Interfere, TypeOK
    <2>. QED
      BY <1>12, <2>1, <2>2 DEF LeaseOverrun, ExpireLease, TypeOK, Active, locals
  <1>13. ASSUME NEW w \in Workers, Fault(w) PROVE TypeOK'
    BY <1>13, ForgetType DEF Fault, Interfere, TypeOK, tables
  <1>14. ASSUME NEW P \in Pools, Stop(P) PROVE TypeOK'
    BY <1>14 DEF Stop, Interfere, TypeOK, Active, tables, locals
  <1>15. ASSUME NEW P \in Pools, Restart(P) \/ Crash(P) PROVE TypeOK'
    <2>1. NewProcess(P) /\ spent' \in Nat
      BY <1>15 DEF Restart, Crash, Interfere, TypeOK
    <2>2. \A w \in Workers : Active(w)' => w \notin P /\ Active(w) /\ claim'[w] = claim[w]
      BY <2>1 DEF NewProcess, TypeOK, Active
    <2>3. \A w \in Workers : pc'[w] = "finishing" => pc[w] = "finishing" /\ result'[w] = result[w]
      BY <2>1 DEF NewProcess, TypeOK
    <2>. QED
      BY <2>1, <2>2, <2>3 DEF NewProcess, TypeOK, tables
  <1>16. ASSUME NEW S \in SUBSET Hooks, Requeue(S) PROVE TypeOK'
    <2>1. hooks' \in [Hooks -> Row]
      <3>1. \A h \in Hooks : ReplayedRow(hooks[h]) \in Row
        BY EmptyRowType DEF TypeOK, Row, ReplayedRow, Statuses, Queued
      <3>. QED
        BY <1>16, <3>1 DEF Requeue, TypeOK
    <2>2. replayedAt' \in [Hooks -> Nat]
      BY <1>16 DEF Requeue, TypeOK
    <2>. QED
      BY <1>16, <2>1, <2>2 DEF Requeue, Interfere, TypeOK, Active, locals
  <1>17. ASSUME NEW S \in SUBSET Hooks, Remove(S) PROVE TypeOK'
    <2>1. hooks' \in [Hooks -> Row]
      <3>1. \A h \in Hooks : EmptyRow("deleted", hooks[h].version) \in Row
        BY EmptyRowType DEF TypeOK, Row, Statuses
      <3>. QED
        BY <1>17, <3>1 DEF Remove, TypeOK
    <2>2. attempts' \in [Hooks -> Seq(Attempt)] /\ replayedAt' \in [Hooks -> Nat]
      BY <1>17 DEF Remove, TypeOK
    <2>. QED
      BY <1>17, <2>1, <2>2 DEF Remove, TypeOK, Active, locals
  <1>18. ASSUME NEW s \in Sources, NEW rule \in Rule, SaveForwardingRule(s, rule) PROVE TypeOK'
    <2>1. rules' \in [Sources -> Rule \cup {NoRule}]
      BY <1>18 DEF SaveForwardingRule, TypeOK, Rule
    <2>. QED
      BY <1>18, <2>1 DEF SaveForwardingRule, Interfere, TypeOK, Active, locals
  <1>19. ASSUME NEW s \in Sources, NEW paused \in BOOLEAN, SetForwardingPaused(s, paused)
         PROVE TypeOK'
    <2>1. rules' \in [Sources -> Rule \cup {NoRule}]
      BY <1>19 DEF SetForwardingPaused, TypeOK, Rule
    <2>. QED
      BY <1>19, <2>1 DEF SetForwardingPaused, Interfere, TypeOK, Active, locals
  <1>20. ASSUME NEW s \in Sources, DeleteForwardingRule(s) PROVE TypeOK'
    BY <1>20 DEF DeleteForwardingRule, Interfere, TypeOK, Active, locals
  <1>21. CASE UNCHANGED vars
    BY <1>21 DEF vars, tables, locals, TypeOK, Active
  <1>22. ASSUME NEW h \in Hooks, Replay(h) PROVE TypeOK'
    BY <1>22, <1>16 DEF Replay
  <1>23. ASSUME NEW S \in SUBSET Hooks, BulkReplay(S) PROVE TypeOK'
    BY <1>23, <1>16 DEF BulkReplay, DeadLettered
  <1>24. ASSUME NEW h \in Hooks, DeleteWebhook(h) PROVE TypeOK'
    BY <1>24, <1>17 DEF DeleteWebhook
  <1>25. ASSUME NEW S \in SUBSET Hooks, Cleanup(S) PROVE TypeOK'
    BY <1>25, <1>17 DEF Cleanup
  <1>. QED
    BY <1>1, <1>2, <1>3, <1>4, <1>5, <1>6, <1>7, <1>8, <1>9, <1>10, <1>11, <1>12, <1>13, <1>14,
       <1>15, <1>18, <1>19, <1>20, <1>21, <1>22, <1>23, <1>24, <1>25
    DEF Next, WorkerStep

\* TypeOK holds in every reachable state.
THEOREM TypeCorrect == Spec => []TypeOK
  BY TypeInit, TypeStep, PTL DEF Spec

-----------------------------------------------------------------------------
(* What a step may do to one row and to one worker's claim: every invariant   *)
(* about rows and leases below follows from these two facts.                  *)

Replaced(h, row) == MayChange(h) /\ hooks'[h] = row

RowStep(h) ==
    \/ hooks'[h] = hooks[h]
    \/ hooks[h].status = "unsaved" /\ hooks'[h] = EmptyRow("pending", 0)
    \/ \E w \in Workers : ClaimDeliverable(w, h) /\ hooks'[h] = ClaimedRow(hooks[h])
    \/ \E w \in Workers : /\ FinishDelivery(w) /\ claim[w].hook = h
                          /\ hooks'[h] = FinishedRow(hooks[h], result[w])
    \/ RetryDue(h) /\ hooks'[h] = [hooks[h] EXCEPT !.retry = "due"]
    \/ ExpireLease(h) /\ hooks'[h] = [hooks[h] EXCEPT !.lease = "expired"]
    \/ Replaced(h, EmptyRow("pending", hooks[h].version))
    \/ Replaced(h, EmptyRow("deleted", hooks[h].version))

\* Every step changes a row in one of the eight ways of RowStep.
LEMMA RowSteps ==
    ASSUME TypeOK, [Next]_vars, NEW h \in Hooks
    PROVE  RowStep(h)
  <1>1. ASSUME NEW g \in Hooks, Save(g) PROVE RowStep(h)
    BY <1>1 DEF Save, RowStep, TypeOK
  <1>2. ASSUME NEW w \in Workers, NEW g \in Hooks, ClaimDeliverable(w, g) PROVE RowStep(h)
    <2>1. hooks' = [hooks EXCEPT ![g] = ClaimedRow(hooks[g])]
      BY <1>2 DEF ClaimDeliverable
    <2>2. CASE g = h
      BY <1>2, <2>1, <2>2 DEF RowStep, TypeOK
    <2>3. CASE g # h
      BY <2>1, <2>3 DEF RowStep, TypeOK
    <2>. QED
      BY <2>2, <2>3
  <1>3. ASSUME NEW w \in Workers, FinishDelivery(w) PROVE RowStep(h)
    <2>1. hooks' = [hooks EXCEPT ![claim[w].hook] = FinishedRow(hooks[claim[w].hook], result[w])]
      BY <1>3 DEF FinishDelivery
    <2>2. CASE claim[w].hook = h
      BY <1>3, <2>1, <2>2 DEF RowStep, TypeOK
    <2>3. CASE claim[w].hook # h
      BY <2>1, <2>3 DEF RowStep, TypeOK
    <2>. QED
      BY <2>2, <2>3
  <1>4. ASSUME NEW g \in Hooks, RetryDue(g) PROVE RowStep(h)
    <2>1. CASE g = h
      BY <1>4, <2>1 DEF RetryDue, RowStep, TypeOK
    <2>2. CASE g # h
      BY <1>4, <2>2 DEF RetryDue, RowStep, TypeOK
    <2>. QED
      BY <2>1, <2>2
  <1>5. ASSUME NEW g \in Hooks, ExpireLease(g) PROVE RowStep(h)
    <2>1. CASE g = h
      BY <1>5, <2>1 DEF ExpireLease, RowStep, TypeOK
    <2>2. CASE g # h
      BY <1>5, <2>2 DEF ExpireLease, RowStep, TypeOK
    <2>. QED
      BY <2>1, <2>2
  <1>6. ASSUME NEW S \in SUBSET Hooks, Requeue(S), \A g \in S : MayChange(g) PROVE RowStep(h)
    BY <1>6 DEF Requeue, ReplayedRow, Replaced, RowStep
  <1>7. ASSUME NEW S \in SUBSET Hooks, Remove(S), \A g \in S : MayChange(g) PROVE RowStep(h)
    BY <1>7 DEF Remove, Replaced, RowStep
  <1>8. ASSUME hooks' = hooks PROVE RowStep(h)
    BY <1>8 DEF RowStep
  <1>9. ASSUME NEW g \in Hooks, Replay(g) PROVE RowStep(h)
    BY <1>6, <1>9 DEF Replay
  <1>10. ASSUME NEW S \in SUBSET Hooks, BulkReplay(S) PROVE RowStep(h)
    BY <1>6, <1>10 DEF BulkReplay, DeadLettered, MayChange, Stored
  <1>11. ASSUME NEW g \in Hooks, DeleteWebhook(g) PROVE RowStep(h)
    BY <1>7, <1>11 DEF DeleteWebhook
  <1>12. ASSUME NEW S \in SUBSET Hooks, Cleanup(S) PROVE RowStep(h)
    BY <1>7, <1>12 DEF Cleanup, Removable, MayChange, Stored
  <1>13. ASSUME NEW w \in Workers, WorkerStep(w) PROVE RowStep(h)
    <2>1. \/ \E g \in Hooks : ClaimDeliverable(w, g)
          \/ FinishDelivery(w)
          \/ hooks' = hooks
      BY <1>13 DEF WorkerStep, LoadRule, CreateAttempt, RefuseAttempt, SkipDelivery, Send,
                   Conclude, LoseResult, tables
    <2>. QED
      BY <2>1, <1>2, <1>3, <1>8
  <1>14. CASE UNCHANGED vars
    BY <1>8, <1>14 DEF vars, tables
  <1>15. CASE \/ \E w \in Workers : Fault(w)
              \/ \E P \in Pools : Stop(P) \/ Restart(P) \/ Crash(P)
              \/ \E s \in Sources, rule \in Rule : SaveForwardingRule(s, rule)
              \/ \E s \in Sources, paused \in BOOLEAN : SetForwardingPaused(s, paused)
              \/ \E s \in Sources : DeleteForwardingRule(s)
    BY <1>8, <1>15 DEF Fault, Stop, Restart, Crash, NewProcess, SaveForwardingRule,
                       SetForwardingPaused, DeleteForwardingRule, tables
  <1>. QED
    BY <1>1, <1>4, <1>5, <1>9, <1>10, <1>11, <1>12, <1>13, <1>14, <1>15
    DEF Next, LeaseExpires, LeaseOverrun

\* A claim is taken by ClaimDeliverable, kept, or forgotten.
LEMMA ClaimSteps ==
    ASSUME TypeOK, [Next]_vars, NEW w \in Workers, Active(w)'
    PROVE  \/ Active(w) /\ claim'[w] = claim[w]
           \/ \E h \in Hooks : ClaimDeliverable(w, h)
  <1>. DEFINE Kept == Active(w) /\ claim'[w] = claim[w]
              Taken == \E h \in Hooks : ClaimDeliverable(w, h)
  <1>1. ASSUME NEW v \in Workers, NEW h \in Hooks, ClaimDeliverable(v, h) PROVE Kept \/ Taken
    BY <1>1 DEF ClaimDeliverable, TypeOK, Active
  <1>2. ASSUME NEW v \in Workers, Forget(v) PROVE Kept
    BY <1>2 DEF Forget, TypeOK, Active
  <1>3. ASSUME UNCHANGED <<pc, claim>> PROVE Kept
    BY <1>3 DEF Active
  <1>4. ASSUME NEW v \in Workers, LoadRule(v) \/ CreateAttempt(v) PROVE Kept
    BY <1>4 DEF LoadRule, CreateAttempt, TypeOK, Active
  <1>5. ASSUME NEW v \in Workers,
               SkipDelivery(v) \/ \E success \in BOOLEAN, body \in Replies : Send(v, success, body)
        PROVE Kept
    BY <1>5 DEF SkipDelivery, Send, Conclude, TypeOK, Active
  <1>6. ASSUME NEW P \in Pools, NewProcess(P) PROVE Kept
    BY <1>6 DEF NewProcess, Active
  <1>7. ASSUME NEW v \in Workers, WorkerStep(v) PROVE Kept \/ Taken
    BY <1>1, <1>2, <1>4, <1>5, <1>7 DEF WorkerStep, RefuseAttempt, FinishDelivery, LoseResult
  <1>8. CASE \E h \in Hooks : Save(h) \/ RetryDue(h) \/ LeaseExpires(h) \/ LeaseOverrun(h)
                                \/ Replay(h) \/ DeleteWebhook(h)
    BY <1>3, <1>8 DEF Save, RetryDue, LeaseExpires, LeaseOverrun, ExpireLease, Replay, Requeue,
                      DeleteWebhook, Remove, locals
  <1>9. CASE \/ \E P \in Pools : Stop(P)
             \/ \E S \in SUBSET Hooks : BulkReplay(S) \/ Cleanup(S)
             \/ \E s \in Sources, rule \in Rule : SaveForwardingRule(s, rule)
             \/ \E s \in Sources, paused \in BOOLEAN : SetForwardingPaused(s, paused)
             \/ \E s \in Sources : DeleteForwardingRule(s)
    BY <1>3, <1>9 DEF Stop, BulkReplay, Requeue, Cleanup, Remove, SaveForwardingRule,
                      SetForwardingPaused, DeleteForwardingRule, locals
  <1>10. CASE UNCHANGED vars
    BY <1>3, <1>10 DEF vars, locals
  <1>11. CASE (\E v \in Workers : Fault(v)) \/ \E P \in Pools : Restart(P) \/ Crash(P)
    BY <1>2, <1>6, <1>11 DEF Fault, Restart, Crash
  <1>. QED
    BY <1>7, <1>8, <1>9, <1>10, <1>11 DEF Next

-----------------------------------------------------------------------------
(* Fencing.                                                                   *)

\* A row that was never saved was never leased.
NewRowsUnleased == \A h \in Hooks : hooks[h].status = "unsaved" => hooks[h].version = 0

\* Lease versions never decrease, not even by replay or deletion.
LEMMA VersionsGrow ==
    ASSUME TypeOK, NewRowsUnleased, [Next]_vars, NEW h \in Hooks
    PROVE  /\ hooks'[h].version >= hooks[h].version
           /\ hooks'[h].status = "unsaved" => hooks'[h].version = 0
  <1>1. RowStep(h)
    BY RowSteps
  <1>2. hooks[h] \in Row /\ hooks[h].version \in Nat
    BY DEF TypeOK, Row
  <1>3. ASSUME NEW w \in Workers, hooks'[h] = ClaimedRow(hooks[h])
        PROVE  hooks'[h].version >= hooks[h].version /\ hooks'[h].status # "unsaved"
    BY <1>2, <1>3, ClaimedRowType
  <1>4. ASSUME NEW w \in Workers, FinishDelivery(w), hooks'[h] = FinishedRow(hooks[h], result[w])
        PROVE  hooks'[h].version >= hooks[h].version /\ hooks'[h].status # "unsaved"
    <2>1. result[w] \in Result
      BY <1>4 DEF FinishDelivery, TypeOK
    <2>. QED
      BY <1>2, <1>4, <2>1, FinishedRowFields
  <1>5. CASE \/ RetryDue(h) /\ hooks'[h] = [hooks[h] EXCEPT !.retry = "due"]
             \/ ExpireLease(h) /\ hooks'[h] = [hooks[h] EXCEPT !.lease = "expired"]
    BY <1>2, <1>5 DEF Row, RetryDue, ExpireLease
  <1>6. CASE \/ hooks'[h] = hooks[h]
             \/ hooks[h].status = "unsaved" /\ hooks'[h] = EmptyRow("pending", 0)
             \/ Replaced(h, EmptyRow("pending", hooks[h].version))
             \/ Replaced(h, EmptyRow("deleted", hooks[h].version))
    BY <1>2, <1>6 DEF NewRowsUnleased, EmptyRow, Replaced
  <1>. QED
    BY <1>1, <1>3, <1>4, <1>5, <1>6 DEF RowStep

\* The fencing invariant is inductive: a fresh claim's version is above all others'.
LEMMA FencingStep ==
    ASSUME TypeOK, TypeOK', NewRowsUnleased, FencingTokens, [Next]_vars
    PROVE  FencingTokens'
  <1>1. ASSUME NEW w \in Workers, NEW h \in Hooks, ClaimDeliverable(w, h)
        PROVE  FencingTokens'
    <2>1. /\ claim' = [claim EXCEPT ![w] = [hook |-> h, version |-> hooks[h].version + 1,
                                            failures |-> hooks[h].failures]]
          /\ pc' = [pc EXCEPT ![w] = "claimed"]
          /\ hooks' = [hooks EXCEPT ![h] = ClaimedRow(hooks[h])]
      BY <1>1 DEF ClaimDeliverable
    <2>2. hooks[h].version \in Nat /\ hooks'[h].version = hooks[h].version + 1
      BY <2>1, ClaimedRowType DEF TypeOK, Row
    <2>3. claim'[w].hook = h /\ claim'[w].version = hooks[h].version + 1
      BY <2>1 DEF TypeOK
    <2>4. ASSUME NEW v \in Workers, v # w, Active(v)'
          PROVE  /\ Active(v) /\ claim'[v] = claim[v] /\ claim[v] \in Claim
                 /\ claim[v].version \in 1 .. hooks[claim[v].hook].version
      BY <2>1, <2>4 DEF TypeOK, Active, FencingTokens
    <2>5. \A g \in Hooks : hooks'[g].version >= hooks[g].version /\ hooks[g].version \in Nat
                           /\ hooks'[g].version \in Nat
      BY VersionsGrow DEF TypeOK, Row
    <2>6. \A v \in Workers : Active(v)' => claim'[v].version \in 1 .. hooks'[claim'[v].hook].version
      <3>. SUFFICES ASSUME NEW v \in Workers, Active(v)'
                    PROVE  claim'[v].version \in 1 .. hooks'[claim'[v].hook].version
        OBVIOUS
      <3>1. CASE v = w
        BY <2>2, <2>3, <3>1
      <3>2. CASE v # w
        BY <2>4, <2>5, <3>2 DEF Claim
      <3>. QED
        BY <3>1, <3>2
    <2>7. ASSUME NEW v \in Workers, v # w, Active(v)', claim'[v].hook = h
          PROVE  claim'[v].version # claim'[w].version
      BY <2>2, <2>3, <2>4, <2>7 DEF Claim
    <2>8. ASSUME NEW u \in Workers, NEW v \in Workers, Active(u)', Active(v)', u # v,
                 claim'[u].hook = claim'[v].hook
          PROVE  claim'[u].version # claim'[v].version
      <3>1. CASE u = w
        BY <2>3, <2>7, <2>8, <3>1
      <3>2. CASE v = w
        BY <2>3, <2>7, <2>8, <3>2
      <3>3. CASE u # w /\ v # w
        BY <2>4, <2>8, <3>3 DEF FencingTokens
      <3>. QED
        BY <3>1, <3>2, <3>3
    <2>. QED
      BY <2>6, <2>8 DEF FencingTokens
  <1>2. ASSUME \A w \in Workers, h \in Hooks : ~ClaimDeliverable(w, h)
        PROVE  FencingTokens'
    <2>1. \A w \in Workers : Active(w)' => Active(w) /\ claim'[w] = claim[w] /\ claim[w] \in Claim
      BY <1>2, ClaimSteps DEF TypeOK
    <2>2. \A g \in Hooks : hooks'[g].version >= hooks[g].version /\ hooks[g].version \in Nat
                           /\ hooks'[g].version \in Nat
      BY VersionsGrow DEF TypeOK, Row
    <2>3. \A v \in Workers : Active(v)' => claim'[v].version \in 1 .. hooks'[claim'[v].hook].version
      BY <2>1, <2>2 DEF FencingTokens, Claim
    <2>4. \A u, v \in Workers : (Active(u)' /\ Active(v)' /\ u # v /\ claim'[u].hook = claim'[v].hook)
                                   => claim'[u].version # claim'[v].version
      BY <2>1 DEF FencingTokens
    <2>. QED
      BY <2>3, <2>4 DEF FencingTokens
  <1>. QED
    BY <1>1, <1>2

-----------------------------------------------------------------------------
(* Rows.                                                                      *)

\* RowsWakeUp is inductive: each of the eight changes of a row keeps the status and
\* the three nullable columns in step.
LEMMA RowsWakeUpStep ==
    ASSUME TypeOK, RowsWakeUp, [Next]_vars
    PROVE  RowsWakeUp'
  <1>. DEFINE Wakes(row) == /\ row.status = "processing" <=> row.lease # "none"
                            /\ row.status = "retrying" <=> row.retry # "none"
                            /\ row.status = "dead_lettered" <=> row.dead = "set"
  <1>. SUFFICES ASSUME NEW h \in Hooks PROVE Wakes(hooks'[h])
    BY DEF RowsWakeUp
  <1>1. RowStep(h)
    BY RowSteps
  <1>2. hooks[h] \in Row /\ Wakes(hooks[h])
    BY DEF TypeOK, RowsWakeUp
  <1>3. ASSUME NEW w \in Workers, ClaimDeliverable(w, h), hooks'[h] = ClaimedRow(hooks[h])
        PROVE  Wakes(hooks'[h])
    BY <1>2, <1>3, ClaimedRowType DEF ClaimDeliverable, Eligible, Row
  <1>4. ASSUME NEW w \in Workers, FinishDelivery(w), claim[w].hook = h,
               hooks'[h] = FinishedRow(hooks[h], result[w])
        PROVE  Wakes(hooks'[h])
    <2>1. result[w] \in Result /\ hooks[h].status = "processing"
      BY <1>4 DEF FinishDelivery, CanFinish, HoldsLease, TypeOK
    <2>2. hooks[h].retry = "none" /\ hooks[h].dead = "none"
      BY <1>2, <2>1 DEF Row
    <2>3. /\ hooks'[h].status = CASE result[w].status \in {"success", "skipped"} -> result[w].status
                             [] result[w].status = "cancelled" -> "pending"
                             [] result[w].status = "failed" /\ result[w].retry = "set" -> "retrying"
                             [] OTHER -> "dead_lettered"
          /\ hooks'[h].retry = CASE result[w].status \in {"success", "skipped"} -> "none"
                            [] result[w].status = "cancelled" -> hooks[h].retry
                            [] result[w].status = "failed" /\ result[w].retry = "set" -> "waiting"
                            [] OTHER -> "none"
          /\ hooks'[h].lease = "none"
          /\ hooks'[h].dead = CASE result[w].status \in {"success", "skipped"} -> "none"
                           [] result[w].status = "cancelled" -> hooks[h].dead
                           [] result[w].status = "failed" /\ result[w].retry = "set" -> "none"
                           [] OTHER -> "set"
      BY <1>2, <1>4, <2>1, FinishedRowFields
    <2>. QED
      BY <2>1, <2>2, <2>3 DEF Result, Outcomes
  <1>5. CASE RetryDue(h) /\ hooks'[h] = [hooks[h] EXCEPT !.retry = "due"]
    BY <1>2, <1>5 DEF RetryDue, Row
  <1>6. CASE ExpireLease(h) /\ hooks'[h] = [hooks[h] EXCEPT !.lease = "expired"]
    BY <1>2, <1>6 DEF ExpireLease, Row
  <1>7. CASE \/ hooks'[h] = hooks[h]
             \/ hooks[h].status = "unsaved" /\ hooks'[h] = EmptyRow("pending", 0)
             \/ Replaced(h, EmptyRow("pending", hooks[h].version))
             \/ Replaced(h, EmptyRow("deleted", hooks[h].version))
    BY <1>2, <1>7 DEF EmptyRow, Replaced
  <1>. QED
    BY <1>1, <1>3, <1>4, <1>5, <1>6, <1>7 DEF RowStep

-----------------------------------------------------------------------------
(* Attempts.                                                                  *)

\* OneOpenAttempt is inductive: only a row being processed gets an open attempt, and
\* whatever takes the row out of processing or takes it over closes the attempt.
LEMMA OneOpenAttemptStep ==
    ASSUME TypeOK, OneOpenAttempt, [Next]_vars
    PROVE  OneOpenAttempt'
  <1>. DEFINE OpenIsLast(history, row) ==
                \A i \in DOMAIN history :
                    history[i].status = "pending" => i = Len(history) /\ row.status = "processing"
  <1>. SUFFICES ASSUME NEW h \in Hooks PROVE OpenIsLast(attempts'[h], hooks'[h])
    BY DEF OneOpenAttempt
  <1>1. attempts[h] \in Seq(Attempt) /\ OpenIsLast(attempts[h], hooks[h]) /\ hooks[h] \in Row
    BY DEF TypeOK, OneOpenAttempt
  <1>2. ASSUME NEW w \in Workers, NEW g \in Hooks, ClaimDeliverable(w, g)
        PROVE  OpenIsLast(attempts'[h], hooks'[h])
    <2>1. CASE g # h
      BY <1>1, <1>2, <2>1 DEF ClaimDeliverable, TypeOK
    <2>2. CASE g = h
      <3>1. hooks'[h].status = "processing"
        BY <1>1, <1>2, <2>2, ClaimedRowType DEF ClaimDeliverable, TypeOK
      <3>2. CASE hooks[h].status = "processing"
        <4>1. attempts'[h] = Interrupted(attempts[h])
          BY <1>2, <2>2, <3>2 DEF ClaimDeliverable, TypeOK
        <4>2. \A i \in DOMAIN attempts[h] : Interrupted(attempts[h])[i].status # "pending"
          BY <1>1 DEF Interrupted, Attempt
        <4>3. DOMAIN Interrupted(attempts[h]) = DOMAIN attempts[h]
          BY DEF Interrupted
        <4>. QED
          BY <4>1, <4>2, <4>3
      <3>3. CASE hooks[h].status # "processing"
        BY <1>1, <1>2, <2>2, <3>3 DEF ClaimDeliverable
      <3>. QED
        BY <3>2, <3>3
    <2>. QED
      BY <2>1, <2>2
  <1>3. ASSUME NEW w \in Workers, CreateAttempt(w)
        PROVE  OpenIsLast(attempts'[h], hooks'[h])
    <2>. DEFINE new == [status |-> "pending", body |-> "none"]
    <2>1. hooks' = hooks /\ attempts' = [attempts EXCEPT ![claim[w].hook] = Append(attempts[claim[w].hook], new)]
      BY <1>3 DEF CreateAttempt
    <2>2. CASE claim[w].hook # h
      BY <1>1, <2>1, <2>2 DEF TypeOK
    <2>3. CASE claim[w].hook = h
      <3>1. hooks[h].status = "processing" /\ NoOpenAttempt(h)
        BY <1>3, <2>3 DEF CreateAttempt, HoldsLease
      <3>2. attempts'[h] = Append(attempts[h], new)
        BY <2>1, <2>3 DEF TypeOK
      <3>3. ASSUME NEW i \in DOMAIN attempts'[h], attempts'[h][i].status = "pending"
            PROVE  i = Len(attempts'[h])
        BY <1>1, <3>1, <3>2, <3>3 DEF NoOpenAttempt
      <3>. QED
        BY <2>1, <3>1, <3>3
    <2>. QED
      BY <2>2, <2>3
  <1>4. ASSUME NEW w \in Workers, FinishDelivery(w)
        PROVE  OpenIsLast(attempts'[h], hooks'[h])
    <2>. DEFINE g == claim[w].hook
                new == [status |-> result[w].status, body |-> result[w].body]
    <2>1. /\ attempts' = [attempts EXCEPT ![g] = [attempts[g] EXCEPT ![attempt[w]] = new]]
          /\ hooks' = [hooks EXCEPT ![g] = FinishedRow(hooks[g], result[w])]
      BY <1>4 DEF FinishDelivery
    <2>2. CASE g # h
      BY <1>1, <2>1, <2>2 DEF TypeOK
    <2>3. CASE g = h
      <3>1. attempts'[h] = [attempts[h] EXCEPT ![attempt[w]] = new]
        BY <2>1, <2>3 DEF TypeOK
      <3>2. attempt[w] \in DOMAIN attempts[h] /\ attempts[h][attempt[w]].status = "pending"
        BY <1>4, <2>3 DEF FinishDelivery, CanFinish
      <3>3. new.status # "pending"
        BY <1>4 DEF FinishDelivery, TypeOK, Result, Outcomes
      <3>4. DOMAIN attempts'[h] = DOMAIN attempts[h]
        BY <3>1
      <3>5. \A i \in DOMAIN attempts'[h] : attempts'[h][i].status # "pending"
        <4>. HIDE DEF new
        <4>. QED
          BY <1>1, <3>1, <3>2, <3>3, <3>4
      <3>. QED
        BY <3>5
    <2>. QED
      BY <2>2, <2>3
  <1>5. ASSUME attempts' = attempts, \A w \in Workers, g \in Hooks : ~ClaimDeliverable(w, g),
               \A w \in Workers : ~FinishDelivery(w)
        PROVE  OpenIsLast(attempts'[h], hooks'[h])
    <2>1. RowStep(h)
      BY RowSteps
    <2>2. hooks[h].status = "processing" => hooks'[h].status = "processing"
      BY <1>1, <1>5, <2>1 DEF RowStep, RetryDue, ExpireLease, Replaced, MayChange, Row
    <2>. QED
      BY <1>1, <1>5, <2>2
  <1>6. ASSUME NEW S \in SUBSET Hooks, Remove(S), \A g \in S : MayChange(g)
        PROVE  OpenIsLast(attempts'[h], hooks'[h])
    BY <1>1, <1>6 DEF Remove
  <1>7. ASSUME NEW g \in Hooks, DeleteWebhook(g) PROVE OpenIsLast(attempts'[h], hooks'[h])
    BY <1>6, <1>7 DEF DeleteWebhook
  <1>8. ASSUME NEW S \in SUBSET Hooks, Cleanup(S) PROVE OpenIsLast(attempts'[h], hooks'[h])
    BY <1>6, <1>8 DEF Cleanup, Removable, MayChange, Stored
  <1>9. \/ \E w \in Workers, g \in Hooks : ClaimDeliverable(w, g)
        \/ \E w \in Workers : CreateAttempt(w) \/ FinishDelivery(w)
        \/ \E g \in Hooks : DeleteWebhook(g)
        \/ \E S \in SUBSET Hooks : Cleanup(S)
        \/ attempts' = attempts
    <2>1. ASSUME NEW w \in Workers, WorkerStep(w)
          PROVE  \/ \E g \in Hooks : ClaimDeliverable(w, g)
                 \/ CreateAttempt(w) \/ FinishDelivery(w) \/ attempts' = attempts
      BY <2>1 DEF WorkerStep, LoadRule, RefuseAttempt, SkipDelivery, Send, Conclude, LoseResult,
                  tables
    <2>2. CASE \/ \E g \in Hooks : \/ Save(g) \/ RetryDue(g) \/ LeaseExpires(g)
                                   \/ LeaseOverrun(g) \/ Replay(g)
               \/ \E S \in SUBSET Hooks : BulkReplay(S)
               \/ UNCHANGED vars
      BY <2>2 DEF Save, RetryDue, LeaseExpires, LeaseOverrun, ExpireLease, Replay, BulkReplay,
                  Requeue, vars, tables
    <2>3. CASE \/ \E w \in Workers : Fault(w)
               \/ \E P \in Pools : Stop(P) \/ Restart(P) \/ Crash(P)
               \/ \E s \in Sources, rule \in Rule : SaveForwardingRule(s, rule)
               \/ \E s \in Sources, paused \in BOOLEAN : SetForwardingPaused(s, paused)
               \/ \E s \in Sources : DeleteForwardingRule(s)
      BY <2>3 DEF Fault, Stop, Restart, Crash, NewProcess, SaveForwardingRule,
                  SetForwardingPaused, DeleteForwardingRule, tables
    <2>. QED
      BY <2>1, <2>2, <2>3 DEF Next
  <1>. QED
    BY <1>2, <1>3, <1>4, <1>5, <1>7, <1>8, <1>9

-----------------------------------------------------------------------------
(* Claims against rows.                                                       *)

\* ClaimIsFresh is inductive given the fencing: failure_count changes only together
\* with the version, or when the row leaves processing.
LEMMA ClaimIsFreshStep ==
    ASSUME TypeOK, TypeOK', NewRowsUnleased, FencingTokens, ClaimIsFresh, [Next]_vars
    PROVE  ClaimIsFresh'
  <1>. SUFFICES ASSUME NEW w \in Workers, NEW h \in Hooks, Owns(w, h)', hooks'[h].status = "processing"
                PROVE  claim'[w].failures = hooks'[h].failures
    BY DEF ClaimIsFresh
  <1>1. hooks[h] \in Row /\ hooks'[h] \in Row /\ Active(w)' /\ claim'[w].hook = h
        /\ claim'[w].version = hooks'[h].version
    BY DEF Owns, TypeOK
  <1>2. CASE \E g \in Hooks : ClaimDeliverable(w, g)
    <2>. PICK g \in Hooks : ClaimDeliverable(w, g)
      BY <1>2
    <2>1. claim'[w] = [hook |-> g, version |-> hooks[g].version + 1, failures |-> hooks[g].failures]
          /\ hooks'[g] = ClaimedRow(hooks[g])
      BY DEF ClaimDeliverable, TypeOK
    <2>. QED
      BY <1>1, <2>1, ClaimedRowType
  <1>3. CASE Active(w) /\ claim'[w] = claim[w]
    <2>1. claim[w].hook = h /\ claim[w].version \in Nat /\ claim[w].version <= hooks[h].version
          /\ claim[w].version = hooks'[h].version
      BY <1>1, <1>3 DEF FencingTokens, TypeOK, Row
    <2>2. RowStep(h)
      BY RowSteps
    <2>3. ASSUME NEW v \in Workers, ClaimDeliverable(v, h), hooks'[h] = ClaimedRow(hooks[h])
          PROVE  FALSE
      BY <1>1, <2>1, <2>3, ClaimedRowType DEF Row
    <2>4. ASSUME NEW v \in Workers, FinishDelivery(v), hooks'[h] = FinishedRow(hooks[h], result[v])
          PROVE  FALSE
      <3>1. result[v] \in Result
        BY <2>4 DEF FinishDelivery, TypeOK
      <3>. QED
        BY <1>1, <2>4, <3>1, FinishedRowFields
    <2>5. ASSUME NEW row, row \in {EmptyRow("pending", 0), EmptyRow("pending", hooks[h].version),
                                   EmptyRow("deleted", hooks[h].version)},
                 hooks'[h] = row
          PROVE  FALSE
      BY <2>5 DEF EmptyRow
    <2>6. CASE \/ hooks'[h] = hooks[h]
               \/ RetryDue(h) /\ hooks'[h] = [hooks[h] EXCEPT !.retry = "due"]
               \/ ExpireLease(h) /\ hooks'[h] = [hooks[h] EXCEPT !.lease = "expired"]
      <3>1. hooks'[h].version = hooks[h].version /\ hooks'[h].failures = hooks[h].failures
            /\ hooks[h].status = "processing"
        BY <1>1, <2>6 DEF Row, RetryDue, ExpireLease
      <3>. QED
        BY <1>3, <2>1, <3>1 DEF Owns, ClaimIsFresh
    <2>. QED
      BY <2>2, <2>3, <2>4, <2>5, <2>6 DEF RowStep, Replaced
  <1>. QED
    BY <1>2, <1>3, <1>1, ClaimSteps

-----------------------------------------------------------------------------
(* The inductive invariant and the theorems.                                  *)

IInv == /\ TypeOK
        /\ NewRowsUnleased
        /\ FencingTokens
        /\ RowsWakeUp
        /\ OneOpenAttempt
        /\ ClaimIsFresh

\* The conjunction is inductive, hence invariant.
THEOREM Invariance == Spec => []IInv
<1>1. Init => IInv
  <2>. SUFFICES ASSUME Init PROVE NewRowsUnleased /\ FencingTokens /\ RowsWakeUp /\ OneOpenAttempt
                                  /\ ClaimIsFresh
    BY TypeInit DEF IInv
  <2>1. NewRowsUnleased /\ RowsWakeUp
    BY DEF Init, NewRowsUnleased, RowsWakeUp, EmptyRow
  <2>2. FencingTokens /\ ClaimIsFresh
    BY DEF Init, FencingTokens, ClaimIsFresh, Owns, Active
  <2>3. OneOpenAttempt
    BY DEF Init, OneOpenAttempt
  <2>. QED
    BY <2>1, <2>2, <2>3
<1>2. IInv /\ [Next]_vars => IInv'
  <2>. SUFFICES ASSUME IInv, [Next]_vars PROVE IInv'
    OBVIOUS
  <2>1. TypeOK'
    BY TypeStep DEF IInv
  <2>2. NewRowsUnleased'
    BY VersionsGrow DEF IInv, NewRowsUnleased
  <2>. QED
    BY <2>1, <2>2, FencingStep, RowsWakeUpStep, OneOpenAttemptStep, ClaimIsFreshStep DEF IInv
<1>. QED
  BY <1>1, <1>2, PTL DEF Spec

\* No two deliveries in progress share a lease version of a webhook.
THEOREM Fencing == Spec => []FencingTokens
  BY Invariance, PTL DEF IInv

\* Every row that waits for something carries the column that will wake it up.
THEOREM NothingStuck == Spec => []RowsWakeUp
  BY Invariance, PTL DEF IInv

\* There is at most one open attempt per webhook, the newest, of a row in processing.
THEOREM OpenAttempts == Spec => []OneOpenAttempt
  BY Invariance, PTL DEF IInv

\* The owner of the current lease decides its retry with the stored failure count.
THEOREM FreshClaims == Spec => []ClaimIsFresh
  BY Invariance, PTL DEF IInv

\* Under a live lease a row is changed by nobody but the owner that finishes.
THEOREM ActiveDeliveries == Spec => ActiveDeliveryUntouched
<1>. DEFINE Untouched(h) ==
              hooks[h].lease = "live" /\ hooks'[h] # hooks[h] =>
                  \/ hooks'[h] = [hooks[h] EXCEPT !.lease = "expired"]
                  \/ \E w \in Workers : Owns(w, h) /\ pc[w] = "finishing" /\ pc'[w] = "idle"
<1>1. IInv /\ [Next]_vars => \A h \in Hooks : Untouched(h)
  <2>. SUFFICES ASSUME IInv, [Next]_vars, NEW h \in Hooks, hooks[h].lease = "live"
                PROVE  Untouched(h)
    OBVIOUS
  <2>1. RowStep(h) /\ hooks[h] \in Row /\ hooks[h].status = "processing"
    BY RowSteps DEF IInv, TypeOK, RowsWakeUp
  <2>2. ASSUME NEW w \in Workers, FinishDelivery(w), claim[w].hook = h
        PROVE  Owns(w, h) /\ pc[w] = "finishing" /\ pc'[w] = "idle"
    BY <2>2 DEF FinishDelivery, CanFinish, HoldsLease, Forget, Owns, Active, IInv, TypeOK
  <2>. QED
    BY <2>1, <2>2 DEF RowStep, ClaimDeliverable, Eligible, RetryDue, Replaced, MayChange
<1>2. (\A h \in Hooks : Untouched(h)) =>
        [\A h \in Hooks : Untouched(h)]_vars
  OBVIOUS
<1>. QED
  BY <1>1, Invariance, PTL DEF Spec, ActiveDeliveryUntouched

-----------------------------------------------------------------------------
(* The pipeline implements the queue with leases.                             *)

\* The phases a row of each status shows.
LEMMA PhaseOfStatus ==
    ASSUME NEW row \in Row
    PROVE  /\ row.status = "unsaved" => Phase(row) = "new"
           /\ row.status \in Queued => Phase(row) = "queued"
           /\ row.status = "processing" /\ row.lease = "live" => Phase(row) = "held"
           /\ row.status = "processing" /\ row.lease # "live" => Phase(row) = "lapsed"
           /\ row.status \in {"success", "skipped"} => Phase(row) = "done"
           /\ row.status = "dead_lettered" => Phase(row) = "dead"
           /\ row.status = "deleted" => Phase(row) = "gone"
  BY DEF Phase, Row, Queued, Settled

\* A worker takes a row that is queued or whose lease has lapsed.
LEMMA ClaimTakes ==
    ASSUME IInv, IInv', NEW w \in Workers, NEW h \in Hooks, ClaimDeliverable(w, h)
    PROVE  Queue!Take(w, h)
  <1>1. /\ hooks[h] \in Row /\ hooks' = [hooks EXCEPT ![h] = ClaimedRow(hooks[h])]
        /\ claim' = [claim EXCEPT ![w] = [hook |-> h, version |-> hooks[h].version + 1,
                                          failures |-> hooks[h].failures]]
        /\ pc' = [pc EXCEPT ![w] = "claimed"]
        /\ pc[w] = "idle"
    BY DEF ClaimDeliverable, IInv, TypeOK
  <1>2. TakenBy(w) = [none |-> "taken"]
    BY <1>1 DEF TakenBy, Active
  <1>3. Phase(hooks[h]) \in {"queued", "lapsed"}
    BY <1>1, PhaseOfStatus DEF ClaimDeliverable, Eligible, Queued
  <1>4. /\ hooks'[h] \in Row /\ Phase(hooks'[h]) = "held"
        /\ hooks'[h].version = hooks[h].version + 1
    BY <1>1, ClaimedRowType, PhaseOfStatus DEF IInv, TypeOK
  <1>5. [g \in Hooks |-> Phase(hooks'[g])] =
            [[g \in Hooks |-> Phase(hooks[g])] EXCEPT ![h] = "held"]
    BY <1>1, <1>4 DEF IInv, TypeOK
  <1>6. [g \in Hooks |-> hooks'[g].version] =
            [[g \in Hooks |-> hooks[g].version] EXCEPT ![h] = hooks[h].version + 1]
    BY <1>1, <1>4 DEF IInv, TypeOK
  <1>7. TakenBy(w)' = [item |-> h, lease |-> hooks[h].version + 1]
    BY <1>1 DEF TakenBy, Active, IInv, TypeOK
  <1>8. \A v \in Workers : v # w => TakenBy(v)' = TakenBy(v)
    BY <1>1 DEF TakenBy, Active, IInv, TypeOK
  <1>9. [v \in Workers |-> TakenBy(v)'] =
            [[v \in Workers |-> TakenBy(v)] EXCEPT
                 ![w] = [item |-> h, lease |-> hooks[h].version + 1]]
    BY <1>7, <1>8
  <1>. QED
    BY <1>2, <1>3, <1>5, <1>6, <1>9 DEF Queue!Take, Queue!Nothing

\* A row that keeps its phase and version, under claims that stay, shows nothing new.
LEMMA QueueStutters ==
    ASSUME \A h \in Hooks : /\ Phase(hooks'[h]) = Phase(hooks[h])
                            /\ hooks'[h].version = hooks[h].version,
           \A w \in Workers : TakenBy(w)' = TakenBy(w)
    PROVE  UNCHANGED Queue!vars
  BY DEF Queue!vars

\* Claims that stay are taken as before.
LEMMA TicketsStay ==
    ASSUME UNCHANGED locals, NEW w \in Workers
    PROVE  TakenBy(w)' = TakenBy(w)
  BY DEF locals, TakenBy, Active

\* Workers that forget their deliveries, for whatever reason, drop what they hold.
LEMMA ForgettingDrops ==
    ASSUME UNCHANGED hooks, NEW T \in SUBSET Workers,
           \A w \in Workers : pc'[w] = IF w \in T THEN "idle" ELSE pc[w],
           \A w \in Workers \ T : claim'[w] = claim[w]
    PROVE  Queue!Drop(T)
  <1>1. \A w \in Workers : TakenBy(w)' = IF w \in T THEN [none |-> "taken"] ELSE TakenBy(w)
    BY DEF TakenBy, Active
  <1>. QED
    BY <1>1 DEF Queue!Drop, Queue!Nothing

\* A worker that finishes holds the current lease, and the row it reports on is done,
\* dead or queued again.
LEMMA FinishReports ==
    ASSUME IInv, IInv', NEW w \in Workers, FinishDelivery(w)
    PROVE  Queue!Report(w)
  <1>. DEFINE h == claim[w].hook
  <1>1. /\ claim[w] \in Claim /\ h \in Hooks /\ result[w] \in Result /\ hooks[h] \in Row
        /\ hooks[h].status = "processing" /\ hooks[h].lease = "live"
        /\ hooks[h].version = claim[w].version
        /\ hooks' = [hooks EXCEPT ![h] = FinishedRow(hooks[h], result[w])]
        /\ Forget(w) /\ Active(w)
    BY DEF FinishDelivery, CanFinish, HoldsLease, IInv, TypeOK, Active, Claim
  <1>2. TakenBy(w) = [item |-> h, lease |-> hooks[h].version]
    BY <1>1 DEF TakenBy
  <1>3. Queue!Current(w)
    <2>1. Phase(hooks[h]) = "held"
      BY <1>1, PhaseOfStatus
    <2>2. [item |-> h, lease |-> hooks[h].version] # [none |-> "taken"]
      <3>1. "none" \in DOMAIN [none |-> "taken"]
            /\ "none" \notin DOMAIN [item |-> h, lease |-> hooks[h].version]
        OBVIOUS
      <3>. QED
        BY <3>1
    <2>. QED
      BY <1>1, <1>2, <2>1, <2>2 DEF Queue!Current, Queue!Nothing
  <1>4. /\ hooks'[h] \in Row /\ hooks'[h].version = hooks[h].version
        /\ hooks'[h].status \in Queued \cup Settled
    <2>1. hooks'[h] \in Row /\ hooks'[h] = FinishedRow(hooks[h], result[w])
      BY <1>1 DEF IInv, TypeOK
    <2>2. hooks'[h].version = hooks[h].version
      BY <1>1, <2>1, FinishedRowFields
    <2>3. hooks'[h].status = CASE result[w].status \in {"success", "skipped"} -> result[w].status
                               [] result[w].status = "cancelled" -> "pending"
                               [] result[w].status = "failed" /\ result[w].retry = "set" -> "retrying"
                               [] OTHER -> "dead_lettered"
      BY <1>1, <2>1, FinishedRowFields
    <2>. QED
      BY <1>1, <2>1, <2>2, <2>3 DEF Queued, Settled
  <1>5. PICK outcome \in {"done", "dead", "queued"} : Phase(hooks'[h]) = outcome
    BY <1>4, PhaseOfStatus DEF Settled
  <1>6. [g \in Hooks |-> Phase(hooks'[g])] = [[g \in Hooks |-> Phase(hooks[g])] EXCEPT ![h] = outcome]
    BY <1>1, <1>5 DEF IInv, TypeOK
  <1>7. [g \in Hooks |-> hooks'[g].version] = [g \in Hooks |-> hooks[g].version]
    BY <1>1, <1>4 DEF IInv, TypeOK
  <1>8. \A v \in Workers : TakenBy(v)' = IF v = w THEN [none |-> "taken"] ELSE TakenBy(v)
    BY <1>1 DEF Forget, TakenBy, Active, IInv, TypeOK
  <1>9. [v \in Workers |-> TakenBy(v)'] = [[v \in Workers |-> TakenBy(v)] EXCEPT ![w] = [none |-> "taken"]]
    BY <1>8
  <1>10. TakenBy(w).item = h
    BY <1>2
  <1>. QED
    BY <1>3, <1>5, <1>6, <1>7, <1>9, <1>10 DEF Queue!Report, Queue!Nothing

\* A row under a live lease that runs out lapses.
LEMMA ExpiryLapses ==
    ASSUME IInv, IInv', NEW h \in Hooks, ExpireLease(h)
    PROVE  Queue!Lapse(h)
  <1>1. /\ hooks[h] \in Row /\ hooks[h].status = "processing" /\ hooks[h].lease = "live"
        /\ hooks' = [hooks EXCEPT ![h] = [hooks[h] EXCEPT !.lease = "expired"]]
        /\ UNCHANGED locals
    BY DEF ExpireLease, IInv, TypeOK
  <1>2. /\ hooks'[h] \in Row /\ hooks'[h].status = "processing" /\ hooks'[h].lease = "expired"
        /\ hooks'[h].version = hooks[h].version
    BY <1>1 DEF IInv, TypeOK, Row
  <1>3. Phase(hooks[h]) = "held" /\ Phase(hooks'[h]) = "lapsed"
    BY <1>1, <1>2, PhaseOfStatus
  <1>4. [g \in Hooks |-> Phase(hooks'[g])] = [[g \in Hooks |-> Phase(hooks[g])] EXCEPT ![h] = "lapsed"]
    BY <1>1, <1>3 DEF IInv, TypeOK
  <1>5. [g \in Hooks |-> hooks'[g].version] = [g \in Hooks |-> hooks[g].version]
    BY <1>1, <1>2 DEF IInv, TypeOK
  <1>6. [v \in Workers |-> TakenBy(v)'] = [v \in Workers |-> TakenBy(v)]
    BY <1>1, TicketsStay
  <1>. QED
    BY <1>3, <1>4, <1>5, <1>6 DEF Queue!Lapse

\* A row that may be changed is queued, done or dead.
LEMMA RequestIsIdle ==
    ASSUME IInv, NEW h \in Hooks, MayChange(h)
    PROVE  Queue!OneIdle({h})
  <1>1. hooks[h] \in Row /\ hooks[h].status \in Queued \cup Settled
    BY DEF IInv, TypeOK, MayChange, Stored, Row, Statuses
  <1>2. Phase(hooks[h]) \in {"queued", "done", "dead"}
    BY <1>1, PhaseOfStatus DEF Settled
  <1>. QED
    BY <1>2 DEF Queue!OneIdle

\* A replay is a requeue of the queue.
LEMMA RequeueRequeues ==
    ASSUME IInv, IInv', NEW S \in SUBSET Hooks, Requeue(S),
           Queue!OneIdle(S) \/ \A h \in S : hooks[h].status = "dead_lettered"
    PROVE  Queue!Requeue(S)
  <1>1. \A h \in Hooks : Phase(hooks'[h]) = IF h \in S THEN "queued" ELSE Phase(hooks[h])
    <2>. SUFFICES ASSUME NEW h \in S PROVE Phase(hooks'[h]) = "queued"
      BY DEF Requeue
    <2>1. hooks'[h] \in Row /\ hooks'[h].status = "pending"
      BY DEF Requeue, ReplayedRow, EmptyRow, IInv, TypeOK
    <2>. QED
      BY <2>1, PhaseOfStatus DEF Queued
  <1>2. \A h \in Hooks : hooks'[h].version = hooks[h].version
    BY DEF Requeue, ReplayedRow, EmptyRow
  <1>3. \A w \in Workers : TakenBy(w)' = TakenBy(w)
    BY TicketsStay DEF Requeue
  <1>4. Queue!OneIdle(S) \/ \A h \in S : Phase(hooks[h]) = "dead"
    BY PhaseOfStatus DEF IInv, TypeOK
  <1>. QED
    BY <1>1, <1>2, <1>3, <1>4 DEF Queue!Requeue

\* A deletion is a removal of the queue.
LEMMA RemoveRemoves ==
    ASSUME IInv, IInv', NEW S \in SUBSET Hooks, Remove(S),
           Queue!OneIdle(S) \/ \A h \in S : hooks[h].status \in Settled
    PROVE  Queue!Remove(S)
  <1>1. \A h \in Hooks : Phase(hooks'[h]) = IF h \in S THEN "gone" ELSE Phase(hooks[h])
    <2>. SUFFICES ASSUME NEW h \in S PROVE Phase(hooks'[h]) = "gone"
      BY DEF Remove
    <2>1. hooks'[h] \in Row /\ hooks'[h].status = "deleted"
      BY DEF Remove, EmptyRow, IInv, TypeOK
    <2>. QED
      BY <2>1, PhaseOfStatus
  <1>2. \A h \in Hooks : hooks'[h].version = hooks[h].version
    BY DEF Remove, EmptyRow
  <1>3. \A w \in Workers : TakenBy(w)' = TakenBy(w)
    BY TicketsStay DEF Remove
  <1>4. Queue!OneIdle(S) \/ \A h \in S : Phase(hooks[h]) \in {"done", "dead"}
    BY PhaseOfStatus DEF IInv, TypeOK, Settled
  <1>. QED
    BY <1>1, <1>2, <1>3, <1>4 DEF Queue!Remove

\* Storing an event adds an item.
LEMMA SaveAdds ==
    ASSUME IInv, IInv', NEW h \in Hooks, Save(h)
    PROVE  Queue!Add(h)
  <1>1. /\ hooks[h] \in Row /\ hooks[h].status = "unsaved" /\ hooks[h].version = 0
        /\ hooks' = [hooks EXCEPT ![h] = EmptyRow("pending", 0)]
        /\ UNCHANGED locals
    BY DEF Save, IInv, TypeOK, NewRowsUnleased
  <1>2. hooks'[h] \in Row /\ hooks'[h].status = "pending" /\ hooks'[h].version = hooks[h].version
    BY <1>1 DEF EmptyRow, IInv, TypeOK
  <1>3. Phase(hooks[h]) = "new" /\ Phase(hooks'[h]) = "queued"
    BY <1>1, <1>2, PhaseOfStatus DEF Queued
  <1>4. [g \in Hooks |-> Phase(hooks'[g])] = [[g \in Hooks |-> Phase(hooks[g])] EXCEPT ![h] = "queued"]
    BY <1>1, <1>3 DEF IInv, TypeOK
  <1>5. [g \in Hooks |-> hooks'[g].version] = [g \in Hooks |-> hooks[g].version]
    BY <1>1, <1>2 DEF IInv, TypeOK
  <1>6. [v \in Workers |-> TakenBy(v)'] = [v \in Workers |-> TakenBy(v)]
    BY <1>1, TicketsStay
  <1>. QED
    BY <1>3, <1>4, <1>5, <1>6 DEF Queue!Add

\* A retry that falls due was queued and is queued.
LEMMA DueStutters ==
    ASSUME IInv, IInv', NEW h \in Hooks, RetryDue(h)
    PROVE  UNCHANGED Queue!vars
  <1>1. \A g \in Hooks : Phase(hooks'[g]) = Phase(hooks[g]) /\ hooks'[g].version = hooks[g].version
    <2>1. /\ hooks[h] \in Row /\ hooks[h].status = "retrying"
          /\ hooks' = [hooks EXCEPT ![h] = [hooks[h] EXCEPT !.retry = "due"]]
      BY DEF RetryDue, IInv, TypeOK
    <2>2. hooks'[h] \in Row /\ hooks'[h].status = "retrying" /\ hooks'[h].version = hooks[h].version
      BY <2>1 DEF IInv, TypeOK, Row
    <2>3. Phase(hooks'[h]) = Phase(hooks[h])
      BY <2>1, <2>2, PhaseOfStatus DEF Queued
    <2>. QED
      BY <2>1, <2>2, <2>3 DEF IInv, TypeOK
  <1>2. \A w \in Workers : TakenBy(w)' = TakenBy(w)
    BY TicketsStay DEF RetryDue
  <1>. QED
    BY <1>1, <1>2, QueueStutters

\* Steps inside a delivery, and those of the operator on the rules, show nothing.
LEMMA InnerStepsStutter ==
    ASSUME IInv, UNCHANGED <<hooks, claim>>, \A w \in Workers : Active(w)' <=> Active(w)
    PROVE  UNCHANGED Queue!vars
  <1>1. \A w \in Workers : TakenBy(w)' = TakenBy(w)
    BY DEF TakenBy
  <1>. QED
    BY <1>1, QueueStutters

\* Every step of a worker is a step of the queue or shows nothing of it.
LEMMA WorkerSteps ==
    ASSUME IInv, IInv', NEW w \in Workers, WorkerStep(w)
    PROVE  [Queue!Next]_(Queue!vars)
  <1>1. ASSUME NEW h \in Hooks, ClaimDeliverable(w, h) PROVE Queue!Next
    BY <1>1, ClaimTakes DEF Queue!Next
  <1>2. CASE FinishDelivery(w)
    BY <1>2, FinishReports DEF Queue!Next
  <1>3. CASE RefuseAttempt(w) \/ LoseResult(w)
    <2>1. /\ UNCHANGED hooks
          /\ \A v \in Workers : pc'[v] = IF v \in {w} THEN "idle" ELSE pc[v]
          /\ \A v \in Workers \ {w} : claim'[v] = claim[v]
      BY <1>3 DEF RefuseAttempt, LoseResult, Forget, tables, IInv, TypeOK
    <2>2. Queue!Drop({w})
      BY <2>1, ForgettingDrops
    <2>. QED
      BY <2>2 DEF Queue!Next
  <1>4. CASE \/ LoadRule(w) \/ CreateAttempt(w) \/ SkipDelivery(w)
             \/ \E success \in BOOLEAN, body \in Replies : Send(w, success, body)
    <2>1. UNCHANGED <<hooks, claim>>
      BY <1>4 DEF LoadRule, CreateAttempt, SkipDelivery, Send, Conclude, tables
    <2>2. /\ pc' \in {[pc EXCEPT ![w] = "prepared"], [pc EXCEPT ![w] = "attempted"],
                      [pc EXCEPT ![w] = "finishing"]}
          /\ pc[w] # "idle"
      BY <1>4 DEF LoadRule, CreateAttempt, SkipDelivery, Send, Conclude
    <2>3. \A v \in Workers : Active(v)' <=> Active(v)
      BY <2>2 DEF Active, IInv, TypeOK
    <2>. QED
      BY <2>1, <2>3, InnerStepsStutter
  <1>. QED
    BY <1>1, <1>2, <1>3, <1>4 DEF WorkerStep

\* Every step of the pipeline is a step of the queue or shows nothing of it.
LEMMA QueueSteps ==
    ASSUME IInv, IInv', [Next]_vars
    PROVE  [Queue!Next]_(Queue!vars)
  <1>1. ASSUME NEW h \in Hooks, Save(h) PROVE Queue!Next
    BY <1>1, SaveAdds DEF Queue!Next
  <1>2. ASSUME NEW h \in Hooks, LeaseExpires(h) \/ LeaseOverrun(h) PROVE Queue!Next
    <2>1. Queue!Lapse(h)
      BY <1>2, ExpiryLapses DEF LeaseExpires, LeaseOverrun
    <2>. QED
      BY <2>1 DEF Queue!Next
  <1>3. ASSUME NEW w \in Workers, Fault(w) PROVE Queue!Next
    <2>1. /\ UNCHANGED hooks
          /\ \A v \in Workers : pc'[v] = IF v \in {w} THEN "idle" ELSE pc[v]
          /\ \A v \in Workers \ {w} : claim'[v] = claim[v]
      BY <1>3 DEF Fault, Forget, tables, IInv, TypeOK
    <2>2. Queue!Drop({w})
      BY <2>1, ForgettingDrops
    <2>. QED
      BY <2>2 DEF Queue!Next
  <1>4. ASSUME NEW P \in Pools, Restart(P) \/ Crash(P) PROVE Queue!Next
    <2>1. /\ UNCHANGED hooks
          /\ \A v \in Workers : pc'[v] = IF v \in P \cap Workers THEN "idle" ELSE pc[v]
          /\ \A v \in Workers \ (P \cap Workers) : claim'[v] = claim[v]
      BY <1>4 DEF Restart, Crash, NewProcess, tables
    <2>2. Queue!Drop(P \cap Workers)
      BY <2>1, ForgettingDrops
    <2>. QED
      BY <2>2 DEF Queue!Next
  <1>5. ASSUME NEW h \in Hooks, Replay(h) PROVE Queue!Next
    <2>1. Queue!Requeue({h})
      BY <1>5, RequestIsIdle, RequeueRequeues DEF Replay
    <2>. QED
      BY <2>1 DEF Queue!Next
  <1>6. ASSUME NEW S \in SUBSET Hooks, BulkReplay(S) PROVE Queue!Next
    <2>1. Queue!Requeue(DeadLettered(S))
      BY <1>6, RequeueRequeues DEF BulkReplay, DeadLettered
    <2>. QED
      BY <2>1 DEF Queue!Next, DeadLettered
  <1>7. ASSUME NEW h \in Hooks, DeleteWebhook(h) PROVE Queue!Next
    <2>1. Queue!Remove({h})
      BY <1>7, RequestIsIdle, RemoveRemoves DEF DeleteWebhook
    <2>. QED
      BY <2>1 DEF Queue!Next
  <1>8. ASSUME NEW S \in SUBSET Hooks, Cleanup(S) PROVE Queue!Next
    <2>1. \A h \in S : hooks[h].status \in Settled
      BY <1>8 DEF Cleanup, Removable, IInv, TypeOK, Row, Statuses, Queued, Settled
    <2>2. Queue!Remove(S)
      BY <1>8, <2>1, RemoveRemoves DEF Cleanup
    <2>. QED
      BY <2>2 DEF Queue!Next
  <1>9. CASE \/ \E P \in Pools : Stop(P)
             \/ \E s \in Sources, rule \in Rule : SaveForwardingRule(s, rule)
             \/ \E s \in Sources, paused \in BOOLEAN : SetForwardingPaused(s, paused)
             \/ \E s \in Sources : DeleteForwardingRule(s)
             \/ UNCHANGED vars
    <2>1. UNCHANGED <<hooks, claim, pc>>
      BY <1>9 DEF Stop, SaveForwardingRule, SetForwardingPaused, DeleteForwardingRule, vars,
                  tables, locals
    <2>. QED
      BY <2>1, InnerStepsStutter DEF Active
  <1>. QED
    BY <1>1, <1>2, <1>3, <1>4, <1>5, <1>6, <1>7, <1>8, <1>9, WorkerSteps, DueStutters DEF Next

\* The pipeline implements the queue with leases: for any number of webhooks and
\* workers an item is reported on only by the holder of its latest lease, is neither
\* requeued nor removed while held, and never comes back once removed.
THEOREM Refinement == Spec => ImplementsQueue
<1>1. Init => Queue!Init
  <2>. SUFFICES ASSUME Init PROVE Queue!Init
    OBVIOUS
  <2>1. \A h \in Hooks : Phase(hooks[h]) = "new" /\ hooks[h].version = 0
    <3>1. \A h \in Hooks : hooks[h] \in Row /\ hooks[h].status = "unsaved" /\ hooks[h].version = 0
      BY TypeInit DEF Init, TypeOK, EmptyRow
    <3>. QED
      BY <3>1, PhaseOfStatus
  <2>2. \A w \in Workers : TakenBy(w) = [none |-> "taken"]
    BY DEF Init, TakenBy, Active
  <2>. QED
    BY <2>1, <2>2 DEF Queue!Init, Queue!Nothing
<1>2. IInv /\ IInv' /\ [Next]_vars => [Queue!Next]_(Queue!vars)
  BY QueueSteps
<1>. QED
  BY <1>1, <1>2, Invariance, PTL DEF Spec, ImplementsQueue, Queue!Spec

=============================================================================
