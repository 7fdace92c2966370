------------------------------ MODULE QueueTx -------------------------------
(***************************************************************************)
(* The transactions on the delivery tables, statement by statement.         *)
(*                                                                          *)
(* Delivery takes a transaction as one step.  Here it is what PostgreSQL    *)
(* executes under READ COMMITTED: a SELECT ... FOR UPDATE that looks at one *)
(* snapshot, locks the rows it found one after the other (waiting for a     *)
(* lock, or with SKIP LOCKED passing the row over) and judges the latest    *)
(* version of each again; then a statement on delivery_attempts; then the   *)
(* change of the rows, which others see with the commit.                    *)
(*                                                                          *)
(* A row that is due for a retry counts as queued.  Failure counts, rules   *)
(* other than their pause, and answers of targets are left out.             *)
(***************************************************************************)
EXTENDS Integers, FiniteSets

CONSTANTS
    Hooks,            \* ids of webhooks: numbers, as rows are locked in their order
    Sources,
    SourceOf,         \* the source a webhook was received for
    Workers,          \* goroutines of the delivery pool
    Requests,         \* requests of operators, and the retention worker
    MaxClaims,        \* bound: claims of one webhook
    MaxInterference   \* bound: requests, pauses, resumes and failed transactions

\* Ids have 64 bits: there is a largest one.
ASSUME HooksAreNumbers == /\ Hooks \subseteq Nat
                          /\ \E top \in Hooks \cup {0} : \A h \in Hooks : h <= top
                          /\ SourceOf \in [Hooks -> Sources]
ASSUME OwnTransactions == Workers \cap Requests = {}
ASSUME TxBoundsAssumption == MaxClaims \in Nat \ {0} /\ MaxInterference \in Nat

VARIABLES
    hooks,    \* table webhooks, committed
    open,     \* table delivery_attempts, committed: attempts still "pending"
    paused,   \* the paused column of forwarding_rules, committed
    tx,       \* the transaction each worker and request is in
    claim,    \* the *model.Webhook each worker holds, and its attempt
    spent     \* used part of MaxInterference

vars == <<hooks, open, paused, tx, claim, spent>>

Callers == Workers \cup Requests
Single  == {"create", "finish", "replay", "delete"}   \* lockWebhook: one row by id
Kinds   == Single \cup {"claim", "bulk", "cleanup"}

Row   == [status  : {"queued", "processing", "success", "dead_lettered", "deleted"},
          lease   : {"none", "live", "expired"},
          version : 0 .. MaxClaims]
Claim == [hook : Hooks, version : 1 .. MaxClaims,
          step : {"claimed", "attempted", "failed"}]
\* An open attempt is named by its webhook and the lease version it was created under.
Attempts == Hooks \X (1 .. MaxClaims)

NoRow   == [none |-> "row"]
NoClaim == [none |-> "claim"]
NoTx    == [at |-> "none", kind |-> "none", todo |-> {}, locked |-> {},
            row |-> NoRow, saw |-> {}, held |-> {}]

\* at: before the SELECT, locking its rows, or with the attempts read; todo: rows the
\* snapshot found and that are not locked yet; row: the row read last; saw: open
\* attempts the transaction found; held: sources paused since it began (history).
Transaction == [at : {"begun", "locking", "attempts"}, kind : Kinds, todo : SUBSET Hooks,
                locked : SUBSET Hooks, row : Row \cup {NoRow},
                saw : SUBSET Attempts, held : SUBSET Sources]

Stored(h)  == hooks[h].status # "deleted"
Free(h)    == \A t \in Callers : h \notin tx[t].locked
Interfere  == spent < MaxInterference /\ spent' = spent + 1
Paused     == {s \in Sources : paused[s]}

Init == /\ hooks \in [Hooks -> {[status |-> "queued", lease |-> "none", version |-> 0],
                                [status |-> "dead_lettered", lease |-> "none", version |-> 1]}]
        /\ open   = {}
        /\ paused = [s \in Sources |-> FALSE]
        /\ tx     = [t \in Callers |-> NoTx]
        /\ claim  = [w \in Workers |-> NoClaim]
        /\ spent  = 0

-----------------------------------------------------------------------------
(* What a SELECT is after, as far as it is about the row.                    *)

\* A webhook claimed MaxClaims times is left alone.
Eligible(row) == /\ row.version < MaxClaims
                 /\ \/ row.status = "queued"
                    \/ row.status = "processing" /\ row.lease = "expired"

Matches(kind, row) ==
    CASE kind = "claim"   -> Eligible(row)
      [] kind = "bulk"    -> row.status = "dead_lettered"
      [] kind = "cleanup" -> row.status \in {"success", "dead_lettered"}
      [] OTHER            -> row.status # "deleted"

-----------------------------------------------------------------------------
(* BEGIN.                                                                    *)

\* Between BEGIN and the SELECT only a pause or resume can matter, to a claim.
BeginClaim(w) ==
    /\ tx[w] = NoTx /\ claim[w] = NoClaim
    /\ tx' = [tx EXCEPT ![w] = [NoTx EXCEPT !.at = "begun", !.kind = "claim", !.held = Paused]]
    /\ UNCHANGED <<hooks, open, paused, claim, spent>>

\* The other transactions begin with the snapshot of their SELECT.
Begin(t, kind, wanted) ==
    /\ tx[t] = NoTx
    /\ tx' = [tx EXCEPT ![t] = [NoTx EXCEPT !.at = "locking", !.kind = kind,
                               !.todo = {h \in wanted : Matches(kind, hooks[h])}]]
    /\ UNCHANGED <<hooks, open, paused, claim>>

\* Forward stores an attempt, and later its result.
BeginDelivery(w) ==
    /\ claim[w] # NoClaim
    /\ \/ claim[w].step = "claimed"   /\ Begin(w, "create", {claim[w].hook})
       \/ claim[w].step = "attempted" /\ Begin(w, "finish", {claim[w].hook})
    /\ UNCHANGED spent

\* Retention wants the rows older than its cutoff: any set of them.
BeginRequest(r, kind, wanted) ==
    /\ wanted # {}
    /\ kind \in {"replay", "delete"} => Cardinality(wanted) = 1
    /\ Begin(r, kind, wanted)
    /\ Interfere

-----------------------------------------------------------------------------
(* SELECT ... FOR UPDATE.                                                    *)

\* (Snapshot_ignoresPause and the like, here and below: slips of the code that the
\* properties must notice; no action uses them.)
Snapshot_ignoresPause(w) ==
    /\ tx[w].at = "begun"
    /\ tx' = [tx EXCEPT ![w].at = "locking",
                        ![w].todo = {h \in Hooks : Matches("claim", hooks[h])}]
    /\ UNCHANGED <<hooks, open, paused, claim, spent>>

\* Only here does a claim look at the pause of the sources.
Snapshot(w) ==
    /\ tx[w].at = "begun"
    /\ tx' = [tx EXCEPT ![w].at = "locking",
                        ![w].todo = {h \in Hooks : /\ Matches("claim", hooks[h])
                                                   /\ ~paused[SourceOf[h]]}]
    /\ UNCHANGED <<hooks, open, paused, claim, spent>>

NextRows_anyOrder(t) == tx[t].todo

\* A bulk replay locks in the order of ids; the order of a claim depends on times.
NextRows(t) == IF tx[t].kind = "bulk"
               THEN {h \in tx[t].todo : \A g \in tx[t].todo : h <= g}
               ELSE tx[t].todo

SkipsLocked(t) == tx[t].kind \in {"claim", "cleanup"}

\* LIMIT 1 of a claim: the first row that can be locked is enough.
Selected(t) == /\ tx[t].at = "locking"
               /\ tx[t].todo = {} \/ (tx[t].kind = "claim" /\ tx[t].locked # {})

CanLock_plainSelect(t, h) == TRUE

CanLock_snapshotOnly(t, h) == Free(h)

\* After a wait the latest version of the row is judged again.
CanLock(t, h) == Free(h) /\ Matches(tx[t].kind, hooks[h])

LockRow(t, h) ==
    /\ tx[t].at = "locking" /\ ~Selected(t)
    /\ h \in NextRows(t)
    /\ Free(h) \/ CanLock(t, h) \/ SkipsLocked(t)
    /\ tx' = [tx EXCEPT ![t].todo = @ \ {h},
                        ![t].locked = IF CanLock(t, h) THEN @ \cup {h} ELSE @,
                        ![t].row = IF CanLock(t, h) THEN hooks[h] ELSE @]
    /\ UNCHANGED <<hooks, open, paused, claim, spent>>

-----------------------------------------------------------------------------
(* The checks after the SELECT, and the statement on delivery_attempts.      *)

HoldsLease(w, row) == /\ row.version = claim[w].version
                      /\ row.status = "processing" /\ row.lease = "live"

\* No row at all, ErrWebhookProcessing, or ErrLeaseLost.
Allowed(t) ==
    /\ tx[t].locked # {}
    /\ tx[t].kind \in {"replay", "delete"} => tx[t].row.status # "processing"
    /\ tx[t].kind \in {"create", "finish"} => HoldsLease(t, tx[t].row)

UsesAttempts(t) == \/ tx[t].kind \in {"create", "finish", "delete", "cleanup"}
                   \/ tx[t].kind = "claim" /\ tx[t].row.status = "processing"

\* Counting, completing or deleting: the rows found are those committed by now.
TouchAttempts(t) ==
    /\ Selected(t) /\ Allowed(t) /\ UsesAttempts(t)
    /\ tx' = [tx EXCEPT ![t].at = "attempts",
                        ![t].saw = {a \in open : a[1] \in tx[t].locked}]
    /\ UNCHANGED <<hooks, open, paused, claim, spent>>

\* "delivery attempt already in progress", or no attempt left to complete.
AttemptFits(t) ==
    /\ tx[t].kind = "create" => tx[t].saw = {}
    /\ tx[t].kind = "finish" => <<claim[t].hook, claim[t].version>> \in tx[t].saw

ReadyToCommit(t) == \/ Selected(t) /\ Allowed(t) /\ ~UsesAttempts(t)
                    \/ tx[t].at = "attempts" /\ AttemptFits(t)

EndTx(t) == tx' = [tx EXCEPT ![t] = NoTx]
ForgetClaim(t) == claim' = [w \in Workers |-> IF w = t THEN NoClaim ELSE claim[w]]

\* Nothing is changed; Forward gives the webhook up.
Refuse(t) ==
    /\ \/ Selected(t) /\ ~Allowed(t)
       \/ tx[t].at = "attempts" /\ ~AttemptFits(t)
    /\ EndTx(t)
    /\ ForgetClaim(t)
    /\ UNCHANGED <<hooks, open, paused, spent>>

-----------------------------------------------------------------------------
(* The change of the rows, and COMMIT.                                       *)

\* The copy in memory counts the version up from the row that was read, the table
\* from the row that is there.
CommitClaim(w) ==
    /\ tx[w].kind = "claim" /\ ReadyToCommit(w)
    /\ \E h \in tx[w].locked :
           /\ hooks' = [hooks EXCEPT ![h].status = "processing", ![h].lease = "live",
                                     ![h].version = @ + 1]
           /\ claim' = [claim EXCEPT ![w] = [hook |-> h, version |-> tx[w].row.version + 1,
                                             step |-> "claimed"]]
    /\ open' = open \ tx[w].saw
    /\ EndTx(w)
    /\ UNCHANGED <<paused, spent>>

CommitAttempt(w) ==
    /\ tx[w].kind = "create" /\ ReadyToCommit(w)
    /\ open' = open \cup {<<claim[w].hook, claim[w].version>>}
    /\ claim' = [claim EXCEPT ![w].step = "attempted"]
    /\ EndTx(w)
    /\ UNCHANGED <<hooks, paused, spent>>

\* Delivered or skipped; to be retried or cancelled; exhausted.
CommitFinish(w) ==
    /\ tx[w].kind = "finish" /\ ReadyToCommit(w)
    /\ \E status \in {"success", "queued", "dead_lettered"} :
           hooks' = [hooks EXCEPT ![claim[w].hook].status = status,
                                  ![claim[w].hook].lease = "none"]
    /\ open' = open \ {<<claim[w].hook, claim[w].version>>}
    /\ EndTx(w)
    /\ ForgetClaim(w)
    /\ UNCHANGED <<paused, spent>>

CommitReplay(r) ==
    /\ tx[r].kind \in {"replay", "bulk"} /\ ReadyToCommit(r)
    /\ hooks' = [h \in Hooks |-> IF h \in tx[r].locked
                                 THEN [hooks[h] EXCEPT !.status = "queued", !.lease = "none"]
                                 ELSE hooks[h]]
    /\ EndTx(r)
    /\ UNCHANGED <<open, paused, claim, spent>>

CommitDelete(r) ==
    /\ tx[r].kind \in {"delete", "cleanup"} /\ ReadyToCommit(r)
    /\ hooks' = [h \in Hooks |-> IF h \in tx[r].locked
                                 THEN [hooks[h] EXCEPT !.status = "deleted", !.lease = "none"]
                                 ELSE hooks[h]]
    /\ open' = open \ tx[r].saw
    /\ EndTx(r)
    /\ UNCHANGED <<paused, claim, spent>>

-----------------------------------------------------------------------------
(* Failures, time, and the pause.                                            *)

\* An error, an ended context or a crash: the database undoes the transaction.
RollBack(t) ==
    /\ tx[t] # NoTx
    /\ Interfere
    /\ EndTx(t)
    /\ claim' = [w \in Workers |-> IF w = t /\ claim[w] # NoClaim
                                   THEN [claim[w] EXCEPT !.step = "failed"] ELSE claim[w]]
    /\ UNCHANGED <<hooks, open, paused>>

\* Forward returns: after an error, without storing a result, or (budgeted) because
\* the answer of a commit was lost or the process died.
GiveUp(w) ==
    /\ tx[w] = NoTx /\ claim[w] # NoClaim
    /\ IF claim[w].step = "failed" THEN UNCHANGED spent ELSE Interfere
    /\ ForgetClaim(w)
    /\ UNCHANGED <<hooks, open, paused, tx>>

\* As in Delivery: for free once nobody holds the claim any more.
LeaseExpires(h) ==
    /\ hooks[h].status = "processing" /\ hooks[h].lease = "live"
    /\ IF \E w \in Workers : /\ claim[w] # NoClaim
                              /\ claim[w].hook = h /\ claim[w].version = hooks[h].version
       THEN Interfere ELSE UNCHANGED spent
    /\ hooks' = [hooks EXCEPT ![h].lease = "expired"]
    /\ UNCHANGED <<open, paused, tx, claim>>

\* A statement of its own; a transaction that runs no longer counts the source as
\* paused from its beginning once it is resumed.
SetForwardingPaused(s, value) ==
    /\ Interfere
    /\ paused' = [paused EXCEPT ![s] = value]
    /\ tx' = [t \in Callers |-> IF value THEN tx[t] ELSE [tx[t] EXCEPT !.held = @ \ {s}]]
    /\ UNCHANGED <<hooks, open, claim>>

-----------------------------------------------------------------------------
WorkerStep(w) ==
    \/ BeginClaim(w)
    \/ Snapshot(w)
    \/ BeginDelivery(w)
    \/ CommitClaim(w)
    \/ CommitAttempt(w)
    \/ CommitFinish(w)
    \/ GiveUp(w)

RequestStep(r) ==
    \/ \E kind \in {"replay", "delete", "bulk", "cleanup"}, wanted \in SUBSET Hooks :
           BeginRequest(r, kind, wanted)
    \/ CommitReplay(r)
    \/ CommitDelete(r)

TransactionStep(t) ==
    \/ \E h \in Hooks : LockRow(t, h)
    \/ TouchAttempts(t)
    \/ Refuse(t)
    \/ RollBack(t)

Next ==
    \/ \E w \in Workers : WorkerStep(w)
    \/ \E r \in Requests : RequestStep(r)
    \/ \E t \in Callers : TransactionStep(t)
    \/ \E h \in Hooks : LeaseExpires(h)
    \/ \E s \in Sources, value \in BOOLEAN : SetForwardingPaused(s, value)

Spec == Init /\ [][Next]_vars

-----------------------------------------------------------------------------
(* Properties.                                                               *)

\* Rows, attempts, transactions and claims are well formed; a transaction that is
\* over holds no lock.
TypeOK ==
    /\ hooks \in [Hooks -> Row]
    /\ open \subseteq Attempts
    /\ paused \in [Sources -> BOOLEAN]
    /\ tx \in [Callers -> Transaction \cup {NoTx}]
    /\ claim \in [Workers -> Claim \cup {NoClaim}]
    /\ spent \in 0 .. MaxInterference

\* The caller a transaction has to wait for: the one that has locked the next row.
WaitsFor(t, u) == /\ tx[t].at = "locking" /\ ~Selected(t) /\ ~SkipsLocked(t)
                  /\ NextRows(t) \subseteq tx[u].locked

\* Claims and retention pass over locked rows, bulk replays lock in the order of ids
\* and everything else locks one row: no transactions wait for each other in a
\* circle, so the database never has to abort one.
NoLockCycle ==
    \A T \in SUBSET Callers :
        T = {} \/ \E t \in T : \A u \in T : ~WaitsFor(t, u)

\* "All delivery mutations lock the webhook before touching attempts": an open
\* attempt belongs to the claim that holds the webhook, so that a claim, a result, a
\* replay or a deletion leaves none behind that nobody completes.
OpenAttemptIsCurrent ==
    \A a \in open : /\ hooks[a[1]].status = "processing"
                    /\ a[2] = hooks[a[1]].version

\* A pause reaches every claim that begins after it: a webhook is claimed in spite of
\* the pause of its source only by a transaction begun before the pause.
PauseReachesLaterClaims ==
    \A w \in Workers : \A h \in tx[w].locked :
        tx[w].kind = "claim" => SourceOf[h] \notin tx[w].held

\* A finish that has found its lease in order keeps the row until it is through.
FinishingBy(w, h) == /\ tx[w].kind = "finish" /\ h \in tx[w].locked
                     /\ HoldsLease(w, tx[w].row)
Finishing(h) == \E w \in Workers : FinishingBy(w, h)

\* The phase of a row, and the ticket of a worker's claim, in the queue with leases.
Phase(row, finishing) ==
    CASE row.status = "deleted" -> "gone"
      [] row.status = "queued" -> "queued"
      [] row.status = "processing" ->
             IF row.lease = "live" \/ finishing THEN "held" ELSE "lapsed"
      [] row.status = "success" -> "done"
      [] OTHER -> "dead"

TakenBy(w) == IF claim[w] = NoClaim THEN [none |-> "taken"]
              ELSE [item |-> claim[w].hook, lease |-> claim[w].version]

Queue == INSTANCE LeasedQueue WITH
    Items  <- Hooks,
    Takers <- Workers,
    phase  <- [h \in Hooks |-> Phase(hooks[h], Finishing(h))],
    lease  <- [h \in Hooks |-> hooks[h].version],
    taken  <- [w \in Workers |-> TakenBy(w)]

\* Whatever the interleaving of their statements, the transactions change the queue
\* in the steps of LeasedQueue, as Delivery's atomic transactions do.
StepsOfTheQueue == [][Queue!Next]_(Queue!vars)

=============================================================================
