---------------------------- MODULE QueueTxProofs ----------------------------
(***************************************************************************)
(* Machine-checked theorems about QueueTx: the transactions of workers and  *)
(* requests, interleaved statement by statement, keep the types, leave no   *)
(* stale attempt open, heed a pause, never wait for each other in a circle, *)
(* and change the queue only in the steps of LeasedQueue.                   *)
(*                                                                          *)
(* The argument is that of the code: whoever changes a row has locked it.   *)
(* QInv says what each transaction knows of the rows it has locked, and     *)
(* since nobody else changes those, a step has to be right only about its   *)
(* own transaction (OthersKeep).                                            *)
(***************************************************************************)
EXTENDS QueueTx, FiniteSetTheorems, NaturalsInduction, WellFoundedInduction, TLAPS

-----------------------------------------------------------------------------
(* Type correctness.                                                         *)

\* "No transaction" is recognised by its field at, "no claim" by having no hook.
LEMMA NullsAreApart ==
    /\ NoTx \notin Transaction /\ NoTx.at = "none" /\ NoTx.kind = "none"
    /\ NoTx.todo = {} /\ NoTx.locked = {} /\ NoTx.held = {} /\ NoTx.saw = {}
    /\ NoClaim \notin Claim
    /\ NoRow \notin Row
  <1>1. NoTx \notin Transaction /\ NoTx.at = "none" /\ NoTx.kind = "none"
        /\ NoTx.todo = {} /\ NoTx.locked = {} /\ NoTx.held = {} /\ NoTx.saw = {}
    BY DEF NoTx, Transaction
  <1>2. "none" \in DOMAIN NoClaim /\ \A c \in Claim : "none" \notin DOMAIN c
    BY DEF NoClaim, Claim
  <1>3. "none" \in DOMAIN NoRow /\ \A r \in Row : "none" \notin DOMAIN r
    BY DEF NoRow, Row
  <1>. QED
    BY <1>1, <1>2, <1>3

\* A transaction that begins is a transaction, with its kind and the rows it is after.
LEMMA BegunType ==
    ASSUME NEW kind \in Kinds, NEW todo \in SUBSET Hooks
    PROVE  LET new == [NoTx EXCEPT !.at = "locking", !.kind = kind, !.todo = todo] IN
           /\ new \in Transaction
           /\ new.at = "locking" /\ new.kind = kind /\ new.todo = todo /\ new.locked = {}
           /\ new.saw = {} /\ new.held = {}
  <1>. DEFINE new == [NoTx EXCEPT !.at = "locking", !.kind = kind, !.todo = todo]
  <1>1. NoTx \in [at : {"none"}, kind : {"none"}, todo : SUBSET Hooks, locked : SUBSET Hooks,
                  row : {NoRow}, saw : SUBSET Attempts, held : SUBSET Sources]
        /\ NoTx.locked = {} /\ NoTx.saw = {} /\ NoTx.held = {}
    BY DEF NoTx
  <1>2. new \in Transaction
    BY <1>1 DEF Transaction
  <1>. QED
    BY <1>1, <1>2

\* The same for a claim, which begins before its snapshot.
LEMMA BegunClaimType ==
    ASSUME NEW held \in SUBSET Sources
    PROVE  LET new == [NoTx EXCEPT !.at = "begun", !.kind = "claim", !.held = held] IN
           /\ new \in Transaction
           /\ new.at = "begun" /\ new.kind = "claim" /\ new.todo = {} /\ new.locked = {}
           /\ new.saw = {} /\ new.held = held
  <1>. DEFINE new == [NoTx EXCEPT !.at = "begun", !.kind = "claim", !.held = held]
  <1>1. NoTx \in [at : {"none"}, kind : {"none"}, todo : SUBSET Hooks, locked : SUBSET Hooks,
                  row : {NoRow}, saw : SUBSET Attempts, held : SUBSET Sources]
        /\ NoTx.locked = {} /\ NoTx.saw = {} /\ NoTx.todo = {}
    BY DEF NoTx
  <1>2. new \in Transaction
    BY <1>1 DEF Transaction, Kinds
  <1>. QED
    BY <1>1, <1>2

\* The ids are a bounded set of numbers.
LEMMA IdsAreBounded == \E top \in Nat : Hooks \subseteq 0 .. top
  <1>1. PICK top \in Hooks \cup {0} : \A h \in Hooks : h <= top
    BY HooksAreNumbers
  <1>2. top \in Nat /\ \A h \in Hooks : h \in 0 .. top
    BY <1>1, HooksAreNumbers
  <1>. QED
    BY <1>2

\* What a step that only moves one transaction on makes of it.
Moved(t, new) == tx' = [tx EXCEPT ![t] = new]

\* The snapshot of a claim finds the rows whose source is not paused.
LEMMA SnapshotMoves ==
    ASSUME TypeOK, NEW w \in Workers, Snapshot(w)
    PROVE  \E new \in Transaction :
              /\ Moved(w, new)
              /\ new.at = "locking" /\ new.kind = tx[w].kind /\ new.locked = tx[w].locked
              /\ new.row = tx[w].row /\ new.saw = tx[w].saw /\ new.held = tx[w].held
              /\ new.todo = {h \in Hooks : Matches("claim", hooks[h]) /\ ~paused[SourceOf[h]]}
  <1>. DEFINE found == {h \in Hooks : Matches("claim", hooks[h]) /\ ~paused[SourceOf[h]]}
              new == [tx[w] EXCEPT !.at = "locking", !.todo = found]
  <1>1. tx[w] \in Transaction /\ w \in Callers
    BY DEF TypeOK, Snapshot, Callers, NoTx
  <1>2. Moved(w, new)
    <2>. HIDE DEF found
    <2>1. tx' = [tx EXCEPT ![w].at = "locking", ![w].todo = found]
      BY DEF Snapshot, found
    <2>. QED
      BY <1>1, <2>1, Zenon DEF Moved, TypeOK
  <1>3. new \in Transaction
    <2>1. found \in SUBSET Hooks
      OBVIOUS
    <2>. HIDE DEF found
    <2>. QED
      BY <1>1, <2>1 DEF Transaction
  <1>4. /\ new.at = "locking" /\ new.kind = tx[w].kind /\ new.locked = tx[w].locked
        /\ new.row = tx[w].row /\ new.saw = tx[w].saw /\ new.held = tx[w].held
        /\ new.todo = found
    <2>. HIDE DEF found
    <2>. QED
      BY <1>1 DEF Transaction
  <1>. HIDE DEF new
  <1>. QED
    BY <1>2, <1>3, <1>4

\* A row is taken off the list, and locked and read if it can be.
LEMMA LockRowMoves ==
    ASSUME TypeOK, NEW t \in Callers, NEW h \in Hooks, LockRow(t, h)
    PROVE  \E new \in Transaction :
              /\ Moved(t, new)
              /\ new.at = "locking" /\ new.kind = tx[t].kind /\ new.todo = tx[t].todo \ {h}
              /\ new.saw = tx[t].saw /\ new.held = tx[t].held
              /\ IF CanLock(t, h) THEN new.locked = tx[t].locked \cup {h} /\ new.row = hooks[h]
                                  ELSE new.locked = tx[t].locked /\ new.row = tx[t].row
  <1>. DEFINE locked == IF CanLock(t, h) THEN tx[t].locked \cup {h} ELSE tx[t].locked
              row    == IF CanLock(t, h) THEN hooks[h] ELSE tx[t].row
              todo   == tx[t].todo \ {h}
              new    == [tx[t] EXCEPT !.todo = todo, !.locked = locked, !.row = row]
  <1>1. tx[t] \in Transaction /\ tx[t].at = "locking"
    BY DEF TypeOK, LockRow, NoTx
  <1>2. locked \in SUBSET Hooks /\ row \in Row \cup {NoRow} /\ todo \in SUBSET Hooks
    BY <1>1 DEF TypeOK, Transaction
  <1>3. Moved(t, new)
    <2>1. tx' = [tx EXCEPT ![t].todo = todo, ![t].locked = locked, ![t].row = row]
      BY DEF LockRow
    <2>. HIDE DEF todo, locked, row
    <2>. QED
      BY <1>1, <2>1, Zenon DEF Moved, TypeOK
  <1>4. /\ new \in Transaction
        /\ new.at = "locking" /\ new.kind = tx[t].kind /\ new.todo = todo
        /\ new.saw = tx[t].saw /\ new.held = tx[t].held
        /\ new.locked = locked /\ new.row = row
    <2>. HIDE DEF todo, locked, row
    <2>. QED
      BY <1>1, <1>2 DEF Transaction
  <1>. HIDE DEF new
  <1>. QED
    BY <1>3, <1>4

\* The statement on the attempts finds those of the locked webhooks.
LEMMA TouchAttemptsMoves ==
    ASSUME TypeOK, NEW t \in Callers, TouchAttempts(t)
    PROVE  \E new \in Transaction :
              /\ Moved(t, new)
              /\ new.at = "attempts" /\ new.kind = tx[t].kind /\ new.todo = tx[t].todo
              /\ new.locked = tx[t].locked /\ new.row = tx[t].row /\ new.held = tx[t].held
              /\ new.saw = {a \in open : a[1] \in tx[t].locked}
  <1>. DEFINE saw == {a \in open : a[1] \in tx[t].locked}
              new == [tx[t] EXCEPT !.at = "attempts", !.saw = saw]
  <1>1. tx[t] \in Transaction
    BY DEF TypeOK, TouchAttempts, Selected, NoTx
  <1>2. saw \in SUBSET Attempts
    BY DEF TypeOK
  <1>3. Moved(t, new)
    <2>1. tx' = [tx EXCEPT ![t].at = "attempts", ![t].saw = saw]
      BY DEF TouchAttempts
    <2>. HIDE DEF saw
    <2>. QED
      BY <1>1, <2>1, Zenon DEF Moved, TypeOK
  <1>4. /\ new \in Transaction
        /\ new.at = "attempts" /\ new.kind = tx[t].kind /\ new.todo = tx[t].todo
        /\ new.locked = tx[t].locked /\ new.row = tx[t].row /\ new.held = tx[t].held
        /\ new.saw = saw
    <2>. HIDE DEF saw
    <2>. QED
      BY <1>1, <1>2 DEF Transaction
  <1>. HIDE DEF new
  <1>. QED
    BY <1>3, <1>4

\* A pause or resume changes of a transaction only which sources count as held.
LEMMA PauseMoves ==
    ASSUME TypeOK, NEW s \in Sources, NEW value \in BOOLEAN, SetForwardingPaused(s, value),
           NEW t \in Callers
    PROVE  /\ tx'[t] \in Transaction \cup {NoTx}
           /\ tx'[t].at = tx[t].at /\ tx'[t].kind = tx[t].kind /\ tx'[t].todo = tx[t].todo
           /\ tx'[t].locked = tx[t].locked /\ tx'[t].row = tx[t].row /\ tx'[t].saw = tx[t].saw
           /\ tx'[t].held = IF value THEN tx[t].held ELSE tx[t].held \ {s}
  <1>1. tx'[t] = IF value THEN tx[t] ELSE [tx[t] EXCEPT !.held = tx[t].held \ {s}]
    BY DEF SetForwardingPaused
  <1>2. CASE tx[t] \in Transaction
    BY <1>1, <1>2 DEF Transaction
  <1>3. CASE tx[t] = NoTx
    BY <1>1, <1>3 DEF NoTx
  <1>. QED
    BY <1>2, <1>3 DEF TypeOK

-----------------------------------------------------------------------------
(* What holds of one transaction.                                            *)

\* Transactions of workers claim or store a delivery; those of requests do not.
KindFits(t) ==
    /\ tx[t].at # "none" =>
           IF t \in Workers THEN tx[t].kind \in {"claim", "create", "finish"}
                            ELSE tx[t].kind \in {"replay", "delete", "bulk", "cleanup"}
    /\ tx[t].at = "begun" => tx[t].kind = "claim" /\ tx[t].todo = {} /\ tx[t].locked = {}

\* A worker claims with empty hands and stores for the webhook in its hands.
ClaimFits(t) ==
    /\ tx[t].kind = "claim" => claim[t] = NoClaim
    /\ tx[t].kind \in {"create", "finish"} =>
           /\ claim[t] \in Claim
           /\ tx[t].todo \cup tx[t].locked \subseteq {claim[t].hook}
           /\ claim[t].step = IF tx[t].kind = "create" THEN "claimed" ELSE "attempted"

\* Rows wanted by id, and the row of a claim, are one row; a bulk replay has locked
\* smaller ids than those it still wants.
LocksInOrder(t) ==
    /\ tx[t].todo \cap tx[t].locked = {}
    /\ tx[t].kind \in Single => \A g, h \in tx[t].todo \cup tx[t].locked : g = h
    /\ tx[t].kind = "claim" => \A g, h \in tx[t].locked : g = h
    /\ tx[t].kind = "bulk" => \A g \in tx[t].locked, h \in tx[t].todo : g < h

\* Nobody changes a locked row: it is still one the SELECT is after, and still the row
\* that was read, except that a lease may have run out.
SameButLease(read, row) ==
    /\ read \in Row
    /\ read.status = row.status /\ read.version = row.version
    /\ read.lease = row.lease \/ row.lease = "expired"

LockedAsRead(t) ==
    /\ \A h \in tx[t].locked : Matches(tx[t].kind, hooks[h])
    /\ tx[t].kind \in Single \cup {"claim"} =>
           \A h \in tx[t].locked : SameButLease(tx[t].row, hooks[h])

\* The open attempts a transaction found are those there are.
AttemptsAsSeen(t) ==
    IF tx[t].at = "attempts" THEN Allowed(t) /\ tx[t].saw = {a \in open : a[1] \in tx[t].locked}
                             ELSE tx[t].saw = {}

\* A source that counts as held is paused, and a claim wants no row of it.
HeldArePaused(t) ==
    /\ tx[t].held \subseteq Paused
    /\ tx[t].kind = "claim" => \A h \in tx[t].todo \cup tx[t].locked : SourceOf[h] \notin tx[t].held

TxOK(t) == /\ KindFits(t)
           /\ ClaimFits(t)
           /\ LocksInOrder(t)
           /\ LockedAsRead(t)
           /\ AttemptsAsSeen(t)
           /\ HeldArePaused(t)

\* What is known of a transaction that is about to commit.
LEMMA CommitsAllowed ==
    ASSUME TypeOK, NEW t \in Callers, TxOK(t), ReadyToCommit(t)
    PROVE  /\ Allowed(t) /\ tx[t].at # "none" /\ tx[t].at # "begun" /\ tx[t] \in Transaction
           /\ tx[t].locked \subseteq Hooks /\ tx[t].locked # {}
  BY NullsAreApart DEF ReadyToCommit, Selected, TxOK, AttemptsAsSeen, TypeOK, Allowed, Transaction

\* A worker about to commit a claim has locked one eligible row, as it was read.
LEMMA ClaimCommits ==
    ASSUME TypeOK, NEW w \in Workers, TxOK(w), tx[w].kind = "claim", ReadyToCommit(w)
    PROVE  \E h \in Hooks :
              /\ tx[w].locked = {h} /\ Eligible(hooks[h]) /\ claim[w] = NoClaim
              /\ tx[w].row \in Row /\ tx[w].row.status = hooks[h].status
              /\ tx[w].row.version = hooks[h].version
              /\ SourceOf[h] \notin tx[w].held
              /\ IF tx[w].at = "attempts" THEN tx[w].saw = {a \in open : a[1] = h}
                                          ELSE tx[w].saw = {} /\ hooks[h].status # "processing"
  <1>1. w \in Callers /\ tx[w].locked # {} /\ tx[w].locked \subseteq Hooks
    BY CommitsAllowed DEF Callers
  <1>2. PICK h \in Hooks : tx[w].locked = {h}
    BY <1>1 DEF TxOK, LocksInOrder
  <1>3. /\ Eligible(hooks[h]) /\ tx[w].row \in Row /\ tx[w].row.status = hooks[h].status
        /\ tx[w].row.version = hooks[h].version
    BY <1>2 DEF TxOK, LockedAsRead, SameButLease, Matches
  <1>4. claim[w] = NoClaim /\ SourceOf[h] \notin tx[w].held
    BY <1>2 DEF TxOK, ClaimFits, HeldArePaused
  <1>5. IF tx[w].at = "attempts" THEN tx[w].saw = {a \in open : a[1] = h} ELSE tx[w].saw = {}
    BY <1>2 DEF TxOK, AttemptsAsSeen
  <1>6. tx[w].at # "attempts" => hooks[h].status # "processing"
    BY <1>3 DEF ReadyToCommit, UsesAttempts
  <1>. QED
    BY <1>2, <1>3, <1>4, <1>5, <1>6

\* A worker about to store something has locked its row, whose lease it holds.
LEMMA DeliveryCommits ==
    ASSUME TypeOK, NEW w \in Workers, TxOK(w), tx[w].kind \in {"create", "finish"},
           ReadyToCommit(w)
    PROVE  /\ claim[w] \in Claim /\ tx[w].locked = {claim[w].hook}
           /\ hooks[claim[w].hook].status = "processing"
           /\ hooks[claim[w].hook].version = claim[w].version
           /\ HoldsLease(w, tx[w].row)
           /\ claim[w].step = IF tx[w].kind = "create" THEN "claimed" ELSE "attempted"
           /\ tx[w].at = "attempts"
  <1>1. w \in Callers /\ tx[w].locked # {} /\ Allowed(w)
    BY CommitsAllowed DEF Callers
  <1>2. /\ claim[w] \in Claim /\ tx[w].locked = {claim[w].hook}
        /\ claim[w].step = IF tx[w].kind = "create" THEN "claimed" ELSE "attempted"
    BY <1>1 DEF TxOK, ClaimFits
  <1>3. SameButLease(tx[w].row, hooks[claim[w].hook])
    BY <1>2 DEF TxOK, LockedAsRead, Single
  <1>4. HoldsLease(w, tx[w].row)
    BY <1>1 DEF Allowed
  <1>5. tx[w].at = "attempts"
    BY DEF ReadyToCommit, UsesAttempts
  <1>. QED
    BY <1>2, <1>3, <1>4, <1>5 DEF SameButLease, HoldsLease

\* A request about to commit has locked rows that are stored and not being processed.
LEMMA RequestCommits ==
    ASSUME TypeOK, NEW r \in Callers, TxOK(r),
           tx[r].kind \in {"replay", "bulk", "delete", "cleanup"}, ReadyToCommit(r)
    PROVE  /\ tx[r].locked \subseteq Hooks
           /\ r \notin Workers
           /\ \A h \in tx[r].locked :
                 hooks[h].status \in {"queued", "success", "dead_lettered"}
           /\ \A a \in tx[r].saw : a \in open /\ a[1] \in tx[r].locked
  <1>1. Allowed(r) /\ tx[r].locked \subseteq Hooks /\ tx[r].at # "none"
    BY CommitsAllowed
  <1>2. r \notin Workers
    BY <1>1 DEF TxOK, KindFits
  <1>3. ASSUME NEW h \in tx[r].locked
        PROVE  hooks[h].status \in {"queued", "success", "dead_lettered"}
    <2>1. hooks[h] \in Row /\ Matches(tx[r].kind, hooks[h])
      BY <1>1 DEF TypeOK, TxOK, LockedAsRead
    <2>2. CASE tx[r].kind \in {"bulk", "cleanup"}
      BY <2>1, <2>2 DEF Matches
    <2>3. CASE tx[r].kind \in {"replay", "delete"}
      <3>1. tx[r].row.status # "processing" /\ tx[r].row.status = hooks[h].status
        BY <1>1, <2>3 DEF Allowed, TxOK, LockedAsRead, SameButLease, Single
      <3>2. hooks[h].status # "deleted"
        BY <2>1, <2>3 DEF Matches
      <3>. QED
        BY <2>1, <3>1, <3>2 DEF Row
    <2>. QED
      BY <2>2, <2>3
  <1>4. \A a \in tx[r].saw : a \in open /\ a[1] \in tx[r].locked
    BY DEF TxOK, AttemptsAsSeen
  <1>. QED
    BY <1>1, <1>2, <1>3, <1>4

-----------------------------------------------------------------------------
(* What the commits change.                                                  *)

\* The open attempts of the webhooks in S.
OpenOf(S) == {a \in open : a[1] \in S}

\* One row is handed to the worker under the next version; its open attempts are closed.
Claimed(w, h, new) ==
    LET held == [hook |-> h, version |-> hooks[h].version + 1, step |-> "claimed"] IN
    /\ tx[w].locked = {h} /\ Eligible(hooks[h]) /\ claim[w] = NoClaim
    /\ hooks' = [hooks EXCEPT ![h] = new]
    /\ new.status = "processing" /\ new.lease = "live"
    /\ new.version = hooks[h].version + 1
    /\ claim' = [claim EXCEPT ![w] = held] /\ held \in Claim
    /\ open' = open \ OpenOf({h})
    /\ tx' = [tx EXCEPT ![w] = NoTx] /\ paused' = paused

\* That is what CommitClaim does.
LEMMA ClaimChanges ==
    ASSUME TypeOK, OpenAttemptIsCurrent, NEW w \in Workers, TxOK(w), CommitClaim(w)
    PROVE  \E h \in Hooks, new \in Row : Claimed(w, h, new)
  <1>1. PICK h \in Hooks :
              /\ tx[w].locked = {h} /\ Eligible(hooks[h]) /\ claim[w] = NoClaim
              /\ tx[w].row.version = hooks[h].version
              /\ IF tx[w].at = "attempts" THEN tx[w].saw = {a \in open : a[1] = h}
                                          ELSE tx[w].saw = {} /\ hooks[h].status # "processing"
    BY ClaimCommits DEF CommitClaim
  <1>. DEFINE later == [hooks[h] EXCEPT !.version = @ + 1]
              new   == [later EXCEPT !.status = "processing", !.lease = "live"]
  <1>2. hooks[h] \in Row /\ hooks[h].version + 1 \in 1 .. MaxClaims
    BY <1>1, TxBoundsAssumption DEF TypeOK, Row, Eligible
  <1>3. later \in Row /\ later.version = hooks[h].version + 1
    BY <1>2, TxBoundsAssumption DEF Row
  <1>4. /\ new \in Row /\ new.status = "processing" /\ new.lease = "live"
        /\ new.version = hooks[h].version + 1
    <2>. HIDE DEF later
    <2>. QED
      BY <1>3 DEF Row
  <1>5. hooks' = [hooks EXCEPT ![h] = new]
    <2>1. hooks' = [hooks EXCEPT ![h].status = "processing", ![h].lease = "live",
                                 ![h].version = @ + 1]
      BY <1>1 DEF CommitClaim
    <2>2. hooks' = [hooks EXCEPT ![h] = [hooks[h] EXCEPT !.status = "processing", !.lease = "live",
                                                         !.version = @ + 1]]
      BY <2>1, <1>2, Zenon DEF TypeOK
    <2>3. [hooks[h] EXCEPT !.status = "processing", !.lease = "live", !.version = @ + 1] = new
      BY <1>2 DEF Row
    <2>. QED
      BY <2>2, <2>3
  <1>6. claim' = [claim EXCEPT ![w] = [hook |-> h, version |-> hooks[h].version + 1,
                                       step |-> "claimed"]]
    BY <1>1 DEF CommitClaim
  <1>7. [hook |-> h, version |-> hooks[h].version + 1, step |-> "claimed"] \in Claim
    BY <1>2 DEF Claim
  <1>8. open' = open \ OpenOf({h})
    <2>1. open' = open \ tx[w].saw
      BY DEF CommitClaim
    <2>2. CASE tx[w].at = "attempts"
      BY <1>1, <2>1, <2>2 DEF OpenOf
    <2>3. CASE tx[w].at # "attempts"
      <3>1. OpenOf({h}) = {}
        BY <1>1, <2>3 DEF OpenAttemptIsCurrent, OpenOf
      <3>. QED
        BY <1>1, <2>1, <2>3, <3>1
    <2>. QED
      BY <2>2, <2>3
  <1>. HIDE DEF new
  <1>. QED
    BY <1>1, <1>4, <1>5, <1>6, <1>7, <1>8 DEF CommitClaim, EndTx, Claimed

\* An attempt is opened under the worker's current lease.
Attempted(w, h, version) ==
    LET held == [claim[w] EXCEPT !.step = "attempted"] IN
    /\ claim[w] \in Claim /\ claim[w].hook = h /\ claim[w].version = version
    /\ tx[w].locked = {h}
    /\ hooks[h].status = "processing" /\ hooks[h].version = version
    /\ open' = open \cup {<<h, version>>} /\ <<h, version>> \in Attempts
    /\ claim' = [claim EXCEPT ![w] = held] /\ held \in Claim
    /\ tx' = [tx EXCEPT ![w] = NoTx] /\ UNCHANGED <<hooks, paused>>

\* That is what CommitAttempt does.
LEMMA AttemptChanges ==
    ASSUME TypeOK, NEW w \in Workers, TxOK(w), CommitAttempt(w)
    PROVE  Attempted(w, claim[w].hook, claim[w].version)
  <1>1. /\ claim[w] \in Claim /\ tx[w].locked = {claim[w].hook}
        /\ hooks[claim[w].hook].status = "processing"
        /\ hooks[claim[w].hook].version = claim[w].version
    BY DeliveryCommits DEF CommitAttempt
  <1>2. [claim[w] EXCEPT !.step = "attempted"] \in Claim
    BY <1>1 DEF Claim
  <1>3. claim' = [claim EXCEPT ![w] = [claim[w] EXCEPT !.step = "attempted"]]
    BY DEF CommitAttempt
  <1>4. <<claim[w].hook, claim[w].version>> \in Attempts
    BY <1>1 DEF Claim, Attempts
  <1>. QED
    BY <1>1, <1>2, <1>3, <1>4 DEF CommitAttempt, EndTx, Attempted

\* The worker's row is out of processing, and none of its attempts is open any more.
Finished(w, h, new) ==
    /\ claim[w] \in Claim /\ claim[w].hook = h /\ claim[w].version = hooks[h].version
    /\ tx[w].locked = {h} /\ HoldsLease(w, tx[w].row)
    /\ hooks[h].status = "processing"
    /\ hooks' = [hooks EXCEPT ![h] = new]
    /\ new.status \in {"success", "queued", "dead_lettered"} /\ new.lease = "none"
    /\ new.version = hooks[h].version
    /\ claim' = [claim EXCEPT ![w] = NoClaim]
    /\ open' = open \ OpenOf({h})
    /\ tx' = [tx EXCEPT ![w] = NoTx] /\ paused' = paused

\* That is what CommitFinish does.
LEMMA FinishChanges ==
    ASSUME TypeOK, OpenAttemptIsCurrent, NEW w \in Workers, TxOK(w), CommitFinish(w)
    PROVE  \E new \in Row : Finished(w, claim[w].hook, new)
  <1>. DEFINE h == claim[w].hook
  <1>1. /\ claim[w] \in Claim /\ tx[w].locked = {h} /\ HoldsLease(w, tx[w].row)
        /\ hooks[h].status = "processing" /\ hooks[h].version = claim[w].version
    BY DeliveryCommits DEF CommitFinish
  <1>2. PICK status \in {"success", "queued", "dead_lettered"} :
            hooks' = [hooks EXCEPT ![h].status = status, ![h].lease = "none"]
    BY DEF CommitFinish
  <1>. DEFINE new == [hooks[h] EXCEPT !.status = status, !.lease = "none"]
  <1>3. hooks[h] \in Row
    BY <1>1 DEF Claim, TypeOK
  <1>4. /\ new \in Row /\ new.status = status /\ new.lease = "none"
        /\ new.version = hooks[h].version
    BY <1>3 DEF Row
  <1>5. hooks' = [hooks EXCEPT ![h] = new]
    BY <1>2, <1>3, Zenon DEF TypeOK
  <1>6. claim' = [claim EXCEPT ![w] = NoClaim]
    BY DEF CommitFinish, ForgetClaim, TypeOK
  <1>7. open' = open \ OpenOf({h})
    <2>1. open' = open \ {<<h, claim[w].version>>}
      BY DEF CommitFinish
    <2>2. ASSUME NEW a \in open PROVE a[1] = h <=> a = <<h, claim[w].version>>
      <3>1. a = <<a[1], a[2]>>
        BY <2>2 DEF TypeOK, Attempts
      <3>2. a[1] = h => a[2] = claim[w].version
        BY <1>1 DEF OpenAttemptIsCurrent
      <3>. QED
        BY <3>1, <3>2
    <2>. QED
      BY <2>1, <2>2 DEF OpenOf
  <1>. HIDE DEF new
  <1>. QED
    BY <1>1, <1>2, <1>4, <1>5, <1>6, <1>7 DEF CommitFinish, EndTx, Finished

\* All rows the request has locked get a status; none of them had an open attempt.
Requested(r, status) ==
    /\ tx[r].locked \subseteq Hooks /\ r \notin Workers
    /\ \A h \in tx[r].locked :
          /\ hooks[h].status \in {"queued", "success", "dead_lettered"}
          /\ hooks'[h] \in Row /\ hooks'[h].version = hooks[h].version
          /\ hooks'[h].status = status
    /\ \A h \in Hooks \ tx[r].locked : hooks'[h] = hooks[h]
    /\ DOMAIN hooks' = Hooks /\ hooks' = [h \in Hooks |-> hooks'[h]]
    /\ OpenOf(tx[r].locked) = {} /\ open' = open
    /\ tx' = [tx EXCEPT ![r] = NoTx] /\ UNCHANGED <<claim, paused>>

\* That is what CommitReplay and CommitDelete do.
LEMMA RequestChanges ==
    ASSUME TypeOK, OpenAttemptIsCurrent, NEW r \in Callers, TxOK(r),
           CommitReplay(r) \/ CommitDelete(r)
    PROVE  Requested(r, IF CommitReplay(r) THEN "queued" ELSE "deleted")
  <1>1. /\ tx[r].locked \subseteq Hooks /\ r \notin Workers
        /\ \A h \in tx[r].locked : hooks[h].status \in {"queued", "success", "dead_lettered"}
        /\ \A a \in tx[r].saw : a \in open /\ a[1] \in tx[r].locked
    BY RequestCommits DEF CommitReplay, CommitDelete
  <1>2. OpenOf(tx[r].locked) = {}
    BY <1>1 DEF OpenAttemptIsCurrent, OpenOf
  <1>3. open' = open
    <2>1. tx[r].saw = {}
      BY <1>1, <1>2 DEF OpenOf
    <2>. QED
      BY <2>1 DEF CommitReplay, CommitDelete
  <1>. DEFINE status == IF CommitReplay(r) THEN "queued" ELSE "deleted"
  <1>4. hooks' = [h \in Hooks |-> IF h \in tx[r].locked
                                  THEN [hooks[h] EXCEPT !.status = status, !.lease = "none"]
                                  ELSE hooks[h]]
    BY DEF CommitReplay, CommitDelete
  <1>5. ASSUME NEW h \in tx[r].locked
        PROVE  /\ hooks'[h] \in Row /\ hooks'[h].version = hooks[h].version
               /\ hooks'[h].status = status
    <2>1. hooks'[h] = [hooks[h] EXCEPT !.status = status, !.lease = "none"] /\ hooks[h] \in Row
      BY <1>1, <1>4 DEF TypeOK
    <2>2. status \in {"queued", "deleted"}
      OBVIOUS
    <2>. HIDE DEF status
    <2>. QED
      BY <2>1, <2>2 DEF Row
  <1>6. /\ \A h \in Hooks \ tx[r].locked : hooks'[h] = hooks[h]
        /\ DOMAIN hooks' = Hooks /\ hooks' = [h \in Hooks |-> hooks'[h]]
    BY <1>4
  <1>. QED
    BY <1>1, <1>2, <1>3, <1>5, <1>6 DEF CommitReplay, CommitDelete, EndTx, Requested

-----------------------------------------------------------------------------
(* Types.                                                                    *)

QInv == /\ TypeOK
        /\ \A t \in Callers : TxOK(t)
        /\ \A t, u \in Callers : t # u => tx[t].locked \cap tx[u].locked = {}
        /\ OpenAttemptIsCurrent

\* Giving a webhook up leaves the claims of others as they are.
LEMMA ForgetClaimType ==
    ASSUME TypeOK, NEW t, ForgetClaim(t)
    PROVE  claim' \in [Workers -> Claim \cup {NoClaim}]
  BY DEF TypeOK, ForgetClaim

\* Ending a transaction leaves those of others as they are.
LEMMA EndTxType ==
    ASSUME TypeOK, NEW t \in Callers, EndTx(t)
    PROVE  tx' \in [Callers -> Transaction \cup {NoTx}]
  BY DEF TypeOK, EndTx

\* A transaction that moves on leaves those of others as they are.
LEMMA MovedType ==
    ASSUME TypeOK, NEW t \in Callers, NEW new \in Transaction, Moved(t, new)
    PROVE  tx' \in [Callers -> Transaction \cup {NoTx}]
  BY DEF TypeOK, Moved

\* The transactions that begin: of a delivery, or of a request.
LEMMA BeginMoves ==
    ASSUME TypeOK, NEW t \in Callers, NEW kind \in Kinds, NEW wanted \in SUBSET Hooks,
           Begin(t, kind, wanted)
    PROVE  \E new \in Transaction :
              /\ Moved(t, new)
              /\ new.at = "locking" /\ new.kind = kind /\ new.locked = {}
              /\ new.todo = {h \in wanted : Matches(kind, hooks[h])}
              /\ new.saw = {} /\ new.held = {}
  <1>. DEFINE todo == {h \in wanted : Matches(kind, hooks[h])}
              new == [NoTx EXCEPT !.at = "locking", !.kind = kind, !.todo = todo]
  <1>1. Moved(t, new)
    BY DEF Begin, Moved
  <1>2. todo \in SUBSET Hooks
    OBVIOUS
  <1>3. /\ new \in Transaction
        /\ new.at = "locking" /\ new.kind = kind /\ new.todo = todo /\ new.locked = {}
        /\ new.saw = {} /\ new.held = {}
    <2>. HIDE DEF todo
    <2>. QED
      BY <1>2, BegunType
  <1>. HIDE DEF new
  <1>. QED
    BY <1>1, <1>3

\* A worker begins to store for the webhook in its hands.
LEMMA BeginDeliveryMoves ==
    ASSUME TypeOK, NEW w \in Workers, BeginDelivery(w)
    PROVE  /\ claim[w] \in Claim /\ tx[w] = NoTx
           /\ \E kind \in {"create", "finish"} : \E new \in Transaction :
                 /\ Moved(w, new)
                 /\ new.at = "locking" /\ new.kind = kind /\ new.locked = {}
                 /\ new.todo \subseteq {claim[w].hook}
                 /\ claim[w].step = IF kind = "create" THEN "claimed" ELSE "attempted"
                 /\ new.saw = {} /\ new.held = {}
           /\ UNCHANGED <<hooks, open, paused, claim, spent>>
  <1>1. claim[w] \in Claim /\ w \in Callers /\ {claim[w].hook} \in SUBSET Hooks
    BY DEF BeginDelivery, TypeOK, Claim, Callers
  <1>2. PICK kind \in {"create", "finish"} :
            /\ Begin(w, kind, {claim[w].hook})
            /\ claim[w].step = IF kind = "create" THEN "claimed" ELSE "attempted"
    BY DEF BeginDelivery
  <1>3. kind \in Kinds
    BY DEF Kinds, Single
  <1>4. PICK new \in Transaction :
              /\ Moved(w, new)
              /\ new.at = "locking" /\ new.kind = kind /\ new.locked = {}
              /\ new.todo = {h \in {claim[w].hook} : Matches(kind, hooks[h])}
              /\ new.saw = {} /\ new.held = {}
    BY <1>1, <1>2, <1>3, BeginMoves
  <1>5. new.todo \subseteq {claim[w].hook}
    BY <1>4
  <1>6. tx[w] = NoTx /\ UNCHANGED <<hooks, open, paused, claim, spent>>
    BY <1>2 DEF Begin, BeginDelivery
  <1>. QED
    BY <1>1, <1>2, <1>4, <1>5, <1>6

\* A worker begins to claim, and knows which sources are paused.
LEMMA BeginClaimMoves ==
    ASSUME TypeOK, NEW w \in Workers, BeginClaim(w)
    PROVE  \E new \in Transaction :
              /\ Moved(w, new) /\ tx[w] = NoTx
              /\ new.at = "begun" /\ new.kind = "claim" /\ new.locked = {} /\ new.todo = {}
              /\ new.saw = {} /\ new.held = Paused
  <1>1. Paused \in SUBSET Sources
    BY DEF Paused
  <1>2. tx' = [tx EXCEPT ![w] = [NoTx EXCEPT !.at = "begun", !.kind = "claim", !.held = Paused]]
        /\ tx[w] = NoTx
    BY DEF BeginClaim
  <1>. QED
    BY <1>1, <1>2, BegunClaimType DEF Moved

\* Every step keeps the types.
LEMMA TypeStep ==
    ASSUME QInv, [Next]_vars
    PROVE  TypeOK'
  <1>. USE DEF QInv
  <1>1. ASSUME NEW w \in Workers, BeginClaim(w) PROVE TypeOK'
    <2>1. tx' \in [Callers -> Transaction \cup {NoTx}]
      BY <1>1, BeginClaimMoves, MovedType DEF Callers
    <2>. QED
      BY <1>1, <2>1 DEF BeginClaim, TypeOK
  <1>2. ASSUME NEW w \in Workers, BeginDelivery(w) PROVE TypeOK'
    <2>1. tx' \in [Callers -> Transaction \cup {NoTx}]
      BY <1>2, BeginDeliveryMoves, MovedType DEF Callers
    <2>. QED
      BY <1>2, <2>1, BeginDeliveryMoves DEF TypeOK
  <1>3. ASSUME NEW r \in Requests, NEW kind \in {"replay", "delete", "bulk", "cleanup"},
               NEW wanted \in SUBSET Hooks, BeginRequest(r, kind, wanted)
        PROVE TypeOK'
    <2>1. kind \in Kinds
      BY DEF Kinds, Single
    <2>2. tx' \in [Callers -> Transaction \cup {NoTx}]
      BY <1>3, <2>1, BeginMoves, MovedType DEF Callers, BeginRequest
    <2>. QED
      BY <1>3, <2>2, TxBoundsAssumption DEF BeginRequest, Begin, Interfere, TypeOK
  <1>4. ASSUME NEW w \in Workers, Snapshot(w) PROVE TypeOK'
    <2>1. tx' \in [Callers -> Transaction \cup {NoTx}]
      BY <1>4, SnapshotMoves, MovedType DEF Callers
    <2>. QED
      BY <1>4, <2>1 DEF Snapshot, TypeOK
  <1>5. ASSUME NEW t \in Callers, NEW h \in Hooks, LockRow(t, h) PROVE TypeOK'
    <2>1. tx' \in [Callers -> Transaction \cup {NoTx}]
      BY <1>5, LockRowMoves, MovedType
    <2>. QED
      BY <1>5, <2>1 DEF LockRow, TypeOK
  <1>6. ASSUME NEW t \in Callers, TouchAttempts(t) PROVE TypeOK'
    <2>1. tx' \in [Callers -> Transaction \cup {NoTx}]
      BY <1>6, TouchAttemptsMoves, MovedType
    <2>. QED
      BY <1>6, <2>1 DEF TouchAttempts, TypeOK
  <1>7. ASSUME NEW t \in Callers, Refuse(t) PROVE TypeOK'
    BY <1>7, EndTxType, ForgetClaimType DEF Refuse, TypeOK
  <1>8. ASSUME NEW t \in Callers, RollBack(t) PROVE TypeOK'
    <2>1. \A w \in Workers : claim[w] # NoClaim => [claim[w] EXCEPT !.step = "failed"] \in Claim
      BY DEF TypeOK, Claim
    <2>2. claim' \in [Workers -> Claim \cup {NoClaim}]
      BY <1>8, <2>1 DEF RollBack, TypeOK
    <2>3. spent' \in 0 .. MaxInterference
      BY <1>8, TxBoundsAssumption DEF RollBack, Interfere, TypeOK
    <2>. QED
      BY <1>8, <2>2, <2>3, EndTxType DEF RollBack, TypeOK
  <1>9. ASSUME NEW w \in Workers, GiveUp(w) PROVE TypeOK'
    <2>1. spent' \in 0 .. MaxInterference
      BY <1>9, TxBoundsAssumption DEF GiveUp, Interfere, TypeOK
    <2>. QED
      BY <1>9, <2>1, ForgetClaimType DEF GiveUp, TypeOK
  <1>10. ASSUME NEW w \in Workers, CommitClaim(w) PROVE TypeOK'
    <2>1. spent' = spent /\ w \in Callers /\ TxOK(w)
      BY <1>10 DEF CommitClaim, Callers
    <2>2. PICK h \in Hooks, new \in Row : Claimed(w, h, new)
      BY <1>10, <2>1, ClaimChanges
    <2>3. hooks' \in [Hooks -> Row] /\ open' \subseteq open /\ paused' = paused
      BY <2>2 DEF TypeOK, Claimed
    <2>4. claim' \in [Workers -> Claim \cup {NoClaim}]
      BY <2>2, Zenon DEF TypeOK, Claimed
    <2>5. tx' \in [Callers -> Transaction \cup {NoTx}]
      BY <2>2 DEF TypeOK, Claimed
    <2>. QED
      BY <2>1, <2>3, <2>4, <2>5 DEF TypeOK
  <1>11. ASSUME NEW w \in Workers, CommitAttempt(w) PROVE TypeOK'
    <2>1. spent' = spent /\ w \in Callers
      BY <1>11 DEF CommitAttempt, Callers
    <2>. QED
      BY <1>11, <2>1, AttemptChanges DEF TypeOK, Attempted
  <1>12. ASSUME NEW w \in Workers, CommitFinish(w) PROVE TypeOK'
    <2>1. spent' = spent /\ w \in Callers /\ TxOK(w)
      BY <1>12 DEF CommitFinish, Callers
    <2>2. PICK new \in Row : Finished(w, claim[w].hook, new)
      BY <1>12, <2>1, FinishChanges
    <2>3. hooks' \in [Hooks -> Row] /\ open' \subseteq open /\ paused' = paused
      BY <2>2 DEF TypeOK, Finished
    <2>4. claim' \in [Workers -> Claim \cup {NoClaim}]
      BY <2>2 DEF TypeOK, Finished
    <2>5. tx' \in [Callers -> Transaction \cup {NoTx}]
      BY <2>2 DEF TypeOK, Finished
    <2>. QED
      BY <2>1, <2>3, <2>4, <2>5 DEF TypeOK
  <1>13. ASSUME NEW r \in Requests, CommitReplay(r) \/ CommitDelete(r) PROVE TypeOK'
    <2>1. spent' = spent /\ r \in Callers
      BY <1>13 DEF CommitReplay, CommitDelete, Callers
    <2>2. PICK status : Requested(r, status)
      BY <1>13, <2>1, RequestChanges
    <2>3. hooks' \in [Hooks -> Row]
      BY <2>2 DEF TypeOK, Requested
    <2>. QED
      BY <2>1, <2>2, <2>3 DEF TypeOK, Requested
  <1>14. ASSUME NEW h \in Hooks, LeaseExpires(h) PROVE TypeOK'
    <2>1. [hooks[h] EXCEPT !.lease = "expired"] \in Row
      BY DEF TypeOK, Row
    <2>2. hooks' \in [Hooks -> Row]
      BY <1>14, <2>1 DEF LeaseExpires, TypeOK
    <2>3. spent' \in 0 .. MaxInterference
      BY <1>14, TxBoundsAssumption DEF LeaseExpires, Interfere, TypeOK
    <2>. QED
      BY <1>14, <2>2, <2>3 DEF LeaseExpires, TypeOK
  <1>15. ASSUME NEW s \in Sources, NEW value \in BOOLEAN, SetForwardingPaused(s, value)
         PROVE TypeOK'
    <2>1. tx' \in [Callers -> Transaction \cup {NoTx}]
      BY <1>15, PauseMoves DEF SetForwardingPaused
    <2>2. spent' \in 0 .. MaxInterference
      BY <1>15, TxBoundsAssumption DEF SetForwardingPaused, Interfere, TypeOK
    <2>. QED
      BY <1>15, <2>1, <2>2 DEF SetForwardingPaused, TypeOK
  <1>16. CASE UNCHANGED vars
    BY <1>16 DEF vars, TypeOK
  <1>. QED
    BY <1>1, <1>2, <1>3, <1>4, <1>5, <1>6, <1>7, <1>8, <1>9, <1>10, <1>11, <1>12, <1>13, <1>14,
       <1>15, <1>16
    DEF Next, WorkerStep, RequestStep, TransactionStep

-----------------------------------------------------------------------------
(* What a step leaves of the transactions of others.                         *)

\* Nothing a transaction relies on is taken from it: of the rows it has locked only a
\* lease may run out.
Undisturbed(u) ==
    /\ tx'[u] = tx[u]
    /\ u \in Workers => claim'[u] = claim[u]
    /\ \A h \in tx[u].locked :
          \/ hooks'[h] = hooks[h]
          \/ /\ hooks[h].status = "processing" /\ hooks'[h].status = "processing"
             /\ hooks'[h].version = hooks[h].version /\ hooks'[h].lease = "expired"
    /\ \A a \in Attempts : a[1] \in tx[u].locked => (a \in open' <=> a \in open)
    /\ tx[u].held \subseteq Paused'

\* An undisturbed transaction stays in order.
LEMMA UndisturbedStays ==
    ASSUME TypeOK, TypeOK', NEW u \in Callers, TxOK(u), Undisturbed(u)
    PROVE  TxOK(u)'
  <1>1. tx'[u] = tx[u] /\ (u \in Workers => claim'[u] = claim[u])
    BY DEF Undisturbed
  <1>2. tx[u] \in Transaction \cup {NoTx} /\ tx[u].locked \subseteq Hooks
    BY NullsAreApart DEF TypeOK, Transaction
  <1>3. tx[u].kind \in {"claim", "create", "finish"} => u \in Workers
    BY <1>2, NullsAreApart DEF TxOK, KindFits, Transaction
  <1>4. KindFits(u)'
    BY <1>1 DEF TxOK, KindFits
  <1>5. ClaimFits(u)'
    BY <1>1, <1>3 DEF TxOK, ClaimFits
  <1>6. LocksInOrder(u)'
    BY <1>1 DEF TxOK, LocksInOrder
  <1>7. LockedAsRead(u)'
    <2>1. ASSUME NEW h \in tx[u].locked, Matches(tx[u].kind, hooks[h])
          PROVE  Matches(tx[u].kind, hooks'[h])
      BY <2>1 DEF Undisturbed, Matches, Eligible
    <2>2. ASSUME NEW h \in tx[u].locked, SameButLease(tx[u].row, hooks[h])
          PROVE  SameButLease(tx[u].row, hooks'[h])
      BY <2>2 DEF Undisturbed, SameButLease
    <2>. QED
      BY <1>1, <2>1, <2>2 DEF TxOK, LockedAsRead
  <1>8. AttemptsAsSeen(u)'
    <2>1. Allowed(u) => Allowed(u)'
      BY <1>1, <1>3 DEF Allowed, HoldsLease
    <2>2. {a \in open' : a[1] \in tx[u].locked} = {a \in open : a[1] \in tx[u].locked}
      BY DEF Undisturbed, TypeOK
    <2>. QED
      BY <1>1, <2>1, <2>2 DEF TxOK, AttemptsAsSeen
  <1>9. HeldArePaused(u)'
    <2>1. tx'[u].held \subseteq Paused'
      BY <1>1 DEF Undisturbed
    <2>2. tx'[u].kind = "claim" =>
             \A h \in tx'[u].todo \cup tx'[u].locked : SourceOf[h] \notin tx'[u].held
      BY <1>1 DEF TxOK, HeldArePaused
    <2>. QED
      BY <2>1, <2>2 DEF HeldArePaused
  <1>. QED
    BY <1>4, <1>5, <1>6, <1>7, <1>8, <1>9 DEF TxOK

\* A transaction that is over has nothing to be right about.
LEMMA NoTxIsOK ==
    ASSUME NEW t, tx'[t] = NoTx
    PROVE  TxOK(t)'
  BY NullsAreApart
  DEF TxOK, KindFits, ClaimFits, LocksInOrder, LockedAsRead, AttemptsAsSeen, HeldArePaused, Single

\* A step of t that changes rows and attempts only of webhooks t has locked leaves the
\* transactions of others in order: nobody else has locked those rows.
LEMMA OthersKeep ==
    ASSUME QInv, TypeOK', NEW t \in Callers, NEW new, Moved(t, new), paused' = paused,
           \A v \in Workers \ {t} : claim'[v] = claim[v],
           \A h \in Hooks \ tx[t].locked : hooks'[h] = hooks[h],
           \A a \in Attempts : a[1] \notin tx[t].locked => (a \in open' <=> a \in open),
           NEW u \in Callers, u # t
    PROVE  TxOK(u)'
  <1>1. TypeOK /\ TxOK(u) /\ tx[t].locked \cap tx[u].locked = {}
    BY DEF QInv
  <1>2. tx'[u] = tx[u]
    BY DEF QInv, TypeOK, Moved
  <1>3. tx[u].locked \subseteq Hooks
    BY NullsAreApart DEF QInv, TypeOK, Transaction
  <1>4. tx[u].held \subseteq Paused'
    BY <1>1 DEF TxOK, HeldArePaused, Paused
  <1>5. Undisturbed(u)
    BY <1>1, <1>2, <1>3, <1>4 DEF Undisturbed
  <1>. QED
    BY <1>1, <1>5, UndisturbedStays

\* The same for a step that changes no row and no attempt at all.
LEMMA OthersKeepQuietly ==
    ASSUME QInv, TypeOK', NEW t \in Callers, NEW new, Moved(t, new),
           UNCHANGED <<hooks, open, paused>>,
           \A v \in Workers \ {t} : claim'[v] = claim[v],
           TxOK(t)'
    PROVE  \A u \in Callers : TxOK(u)'
  BY OthersKeep

-----------------------------------------------------------------------------
(* What a step makes of the transaction it is about.                         *)

\* A worker begins a claim with empty hands.
LEMMA BegunClaimIsOK ==
    ASSUME QInv, TypeOK', NEW w \in Workers, BeginClaim(w)
    PROVE  TxOK(w)'
  <1>1. PICK new \in Transaction :
              /\ Moved(w, new)
              /\ new.at = "begun" /\ new.kind = "claim" /\ new.locked = {} /\ new.todo = {}
              /\ new.saw = {} /\ new.held = Paused
    BY BeginClaimMoves DEF QInv
  <1>2. tx'[w] = new /\ claim' = claim /\ claim[w] = NoClaim /\ Paused' = Paused
    BY <1>1 DEF Moved, BeginClaim, QInv, TypeOK, Callers, Paused
  <1>. QED
    BY <1>1, <1>2
    DEF TxOK, KindFits, ClaimFits, LocksInOrder, LockedAsRead, AttemptsAsSeen, HeldArePaused, Single

\* And stores for the webhook it holds.
LEMMA BegunDeliveryIsOK ==
    ASSUME QInv, TypeOK', NEW w \in Workers, BeginDelivery(w)
    PROVE  TxOK(w)'
  <1>1. PICK kind \in {"create", "finish"}, new \in Transaction :
              /\ Moved(w, new)
              /\ new.at = "locking" /\ new.kind = kind /\ new.locked = {}
              /\ new.todo \subseteq {claim[w].hook}
              /\ claim[w].step = IF kind = "create" THEN "claimed" ELSE "attempted"
              /\ new.saw = {} /\ new.held = {}
    BY BeginDeliveryMoves DEF QInv
  <1>2. claim[w] \in Claim /\ claim' = claim
    BY BeginDeliveryMoves DEF QInv
  <1>3. tx'[w] = new
    BY <1>1 DEF Moved, QInv, TypeOK, Callers
  <1>. QED
    BY <1>1, <1>2, <1>3
    DEF TxOK, KindFits, ClaimFits, LocksInOrder, LockedAsRead, AttemptsAsSeen, HeldArePaused, Single

\* A request that wants one row by id wants one row.
LEMMA BegunRequestIsOK ==
    ASSUME QInv, TypeOK', NEW r \in Requests, NEW kind \in {"replay", "delete", "bulk", "cleanup"},
           NEW wanted \in SUBSET Hooks, BeginRequest(r, kind, wanted)
    PROVE  TxOK(r)'
  <1>1. r \in Callers /\ r \notin Workers /\ kind \in Kinds
    BY OwnTransactions DEF Callers, Kinds, Single
  <1>2. PICK new \in Transaction :
              /\ Moved(r, new)
              /\ new.at = "locking" /\ new.kind = kind /\ new.locked = {}
              /\ new.todo = {h \in wanted : Matches(kind, hooks[h])}
              /\ new.saw = {} /\ new.held = {}
    BY <1>1, BeginMoves DEF BeginRequest, QInv
  <1>3. tx'[r] = new
    BY <1>1, <1>2 DEF Moved, QInv, TypeOK
  <1>4. kind \in {"replay", "delete"} => \A g, h \in wanted : g = h
    <2>1. IsFiniteSet(wanted)
      <3>1. PICK top \in Nat : Hooks \subseteq 0 .. top
        BY IdsAreBounded
      <3>2. IsFiniteSet(0 .. top) /\ wanted \subseteq 0 .. top
        BY <3>1, FS_Interval
      <3>. QED
        BY <3>2, FS_Subset
    <2>. QED
      BY <2>1, FS_Singleton DEF BeginRequest
  <1>. QED
    BY <1>1, <1>2, <1>3, <1>4
    DEF TxOK, KindFits, ClaimFits, LocksInOrder, LockedAsRead, AttemptsAsSeen, HeldArePaused, Single

\* The snapshot of a claim holds only rows whose source is not paused now.
LEMMA SnapshotIsOK ==
    ASSUME QInv, TypeOK', NEW w \in Workers, Snapshot(w)
    PROVE  TxOK(w)'
  <1>1. PICK new \in Transaction :
              /\ Moved(w, new)
              /\ new.at = "locking" /\ new.kind = tx[w].kind /\ new.locked = tx[w].locked
              /\ new.row = tx[w].row /\ new.saw = tx[w].saw /\ new.held = tx[w].held
              /\ new.todo = {h \in Hooks : Matches("claim", hooks[h]) /\ ~paused[SourceOf[h]]}
    BY SnapshotMoves DEF QInv
  <1>2. TxOK(w) /\ tx[w].at = "begun" /\ claim' = claim /\ Paused' = Paused
    BY DEF QInv, Callers, Snapshot, Paused
  <1>3. tx[w].kind = "claim" /\ tx[w].locked = {} /\ tx[w].saw = {} /\ claim[w] = NoClaim
    BY <1>2 DEF TxOK, KindFits, ClaimFits, AttemptsAsSeen
  <1>4. tx'[w] = new
    BY <1>1 DEF Moved, QInv, TypeOK, Callers
  <1>5. HeldArePaused(w)'
    BY <1>1, <1>2, <1>4 DEF TxOK, HeldArePaused, Paused
  <1>. QED
    BY <1>1, <1>2, <1>3, <1>4, <1>5
    DEF TxOK, KindFits, ClaimFits, LocksInOrder, LockedAsRead, AttemptsAsSeen, Single

\* Locking a row, or passing it over, keeps the order of the locks and the row read last.
LEMMA LockedRowIsOK ==
    ASSUME QInv, TypeOK', NEW t \in Callers, NEW h \in Hooks, LockRow(t, h)
    PROVE  TxOK(t)'
  <1>1. PICK new \in Transaction :
              /\ Moved(t, new)
              /\ new.at = "locking" /\ new.kind = tx[t].kind /\ new.todo = tx[t].todo \ {h}
              /\ new.saw = tx[t].saw /\ new.held = tx[t].held
              /\ IF CanLock(t, h) THEN new.locked = tx[t].locked \cup {h} /\ new.row = hooks[h]
                                  ELSE new.locked = tx[t].locked /\ new.row = tx[t].row
    BY LockRowMoves DEF QInv
  <1>2. /\ TxOK(t) /\ tx[t].at = "locking" /\ tx[t] \in Transaction
        /\ h \in tx[t].todo /\ UNCHANGED <<hooks, open, paused, claim>>
        /\ tx[t].kind = "claim" => tx[t].locked = {}
        /\ tx[t].kind = "bulk" => \A g \in tx[t].todo : h <= g
    BY NullsAreApart DEF QInv, TypeOK, LockRow, NextRows, Selected
  <1>3. tx'[t] = new
    BY <1>1 DEF Moved, QInv, TypeOK
  <1>4. new.todo \cup new.locked \subseteq tx[t].todo \cup tx[t].locked
        /\ new.locked \subseteq tx[t].locked \cup {h}
    BY <1>1, <1>2
  <1>5. KindFits(t)' /\ AttemptsAsSeen(t)'
    BY <1>1, <1>2, <1>3 DEF TxOK, KindFits, AttemptsAsSeen
  <1>6. ClaimFits(t)'
    BY <1>1, <1>2, <1>3, <1>4 DEF TxOK, ClaimFits
  <1>7. LocksInOrder(t)'
    <2>1. new.todo \cap new.locked = {}
      BY <1>1, <1>2 DEF TxOK, LocksInOrder
    <2>2. new.kind \in Single => \A f, g \in new.todo \cup new.locked : f = g
      BY <1>1, <1>2, <1>4 DEF TxOK, LocksInOrder
    <2>3. new.kind = "claim" => \A f, g \in new.locked : f = g
      BY <1>1, <1>2, <1>4
    <2>4. ASSUME new.kind = "bulk", NEW f \in new.locked, NEW g \in new.todo PROVE f < g
      <3>1. g \in tx[t].todo /\ g # h /\ h <= g /\ g \in Nat /\ h \in Nat
        BY <1>1, <1>2, <2>4, HooksAreNumbers DEF Transaction
      <3>2. f \in tx[t].locked => f < g
        BY <1>1, <1>2, <2>4, <3>1 DEF TxOK, LocksInOrder
      <3>. QED
        BY <1>4, <3>1, <3>2
    <2>. QED
      BY <1>3, <2>1, <2>2, <2>3, <2>4 DEF LocksInOrder
  <1>8. LockedAsRead(t)'
    <2>1. CASE CanLock(t, h)
      <3>1. new.kind \in Single \cup {"claim"} => \A g \in new.locked : g = h
        BY <1>1, <1>2, <1>4 DEF TxOK, LocksInOrder
      <3>2. SameButLease(hooks[h], hooks[h]) /\ Matches(new.kind, hooks[h])
        BY <1>1, <2>1 DEF CanLock, SameButLease, QInv, TypeOK
      <3>3. \A g \in new.locked : Matches(new.kind, hooks[g])
        BY <1>1, <1>2, <1>4, <3>2 DEF TxOK, LockedAsRead
      <3>. QED
        BY <1>1, <1>2, <1>3, <2>1, <3>1, <3>2, <3>3 DEF LockedAsRead
    <2>2. CASE ~CanLock(t, h)
      BY <1>1, <1>2, <1>3, <2>2 DEF TxOK, LockedAsRead
    <2>. QED
      BY <2>1, <2>2
  <1>9. HeldArePaused(t)'
    BY <1>1, <1>2, <1>3, <1>4 DEF TxOK, HeldArePaused, Paused
  <1>. QED
    BY <1>5, <1>6, <1>7, <1>8, <1>9 DEF TxOK

\* The open attempts are read when the checks have passed.
LEMMA TouchedIsOK ==
    ASSUME QInv, TypeOK', NEW t \in Callers, TouchAttempts(t)
    PROVE  TxOK(t)'
  <1>1. PICK new \in Transaction :
              /\ Moved(t, new)
              /\ new.at = "attempts" /\ new.kind = tx[t].kind /\ new.todo = tx[t].todo
              /\ new.locked = tx[t].locked /\ new.row = tx[t].row /\ new.held = tx[t].held
              /\ new.saw = {a \in open : a[1] \in tx[t].locked}
    BY TouchAttemptsMoves DEF QInv
  <1>2. /\ TxOK(t) /\ tx[t].at = "locking" /\ Allowed(t)
        /\ UNCHANGED <<hooks, open, paused, claim>>
    BY DEF QInv, TouchAttempts, Selected
  <1>3. tx'[t] = new
    BY <1>1 DEF Moved, QInv, TypeOK
  <1>4. AttemptsAsSeen(t)'
    BY <1>1, <1>2, <1>3 DEF AttemptsAsSeen, Allowed, HoldsLease
  <1>5. KindFits(t)' /\ ClaimFits(t)' /\ LocksInOrder(t)' /\ LockedAsRead(t)'
    BY <1>1, <1>2, <1>3 DEF TxOK, KindFits, ClaimFits, LocksInOrder, LockedAsRead
  <1>6. HeldArePaused(t)'
    BY <1>1, <1>2, <1>3 DEF TxOK, HeldArePaused, Paused
  <1>. QED
    BY <1>4, <1>5, <1>6 DEF TxOK

\* A pause adds to the paused sources; a resume takes the source out of what counts.
LEMMA PauseIsOK ==
    ASSUME QInv, TypeOK', NEW s \in Sources, NEW value \in BOOLEAN,
           SetForwardingPaused(s, value), NEW t \in Callers
    PROVE  TxOK(t)'
  <1>1. /\ tx'[t].at = tx[t].at /\ tx'[t].kind = tx[t].kind /\ tx'[t].todo = tx[t].todo
        /\ tx'[t].locked = tx[t].locked /\ tx'[t].row = tx[t].row /\ tx'[t].saw = tx[t].saw
        /\ tx'[t].held = IF value THEN tx[t].held ELSE tx[t].held \ {s}
    BY PauseMoves DEF QInv
  <1>2. TxOK(t) /\ UNCHANGED <<hooks, open, claim>>
    BY DEF QInv, SetForwardingPaused
  <1>3. KindFits(t)' /\ ClaimFits(t)' /\ LocksInOrder(t)' /\ LockedAsRead(t)'
    BY <1>1, <1>2 DEF TxOK, KindFits, ClaimFits, LocksInOrder, LockedAsRead
  <1>4. AttemptsAsSeen(t)'
    BY <1>1, <1>2 DEF TxOK, AttemptsAsSeen, Allowed, HoldsLease
  <1>5. tx'[t].held \subseteq Paused'
    <2>1. tx[t].held \subseteq Paused /\ paused' = [paused EXCEPT ![s] = value]
      BY <1>2 DEF TxOK, HeldArePaused, SetForwardingPaused
    <2>. QED
      BY <1>1, <2>1 DEF Paused, QInv, TypeOK
  <1>6. HeldArePaused(t)'
    BY <1>1, <1>2, <1>5 DEF TxOK, HeldArePaused
  <1>. QED
    BY <1>3, <1>4, <1>6 DEF TxOK

-----------------------------------------------------------------------------
(* Every step keeps the transactions, the locks and the attempts in order.   *)

\* Whatever step is taken, the transactions that run stay in order: the one it is about
\* by the lemmas above, the others by OthersKeep.
LEMMA TxStep ==
    ASSUME QInv, TypeOK', [Next]_vars
    PROVE  \A u \in Callers : TxOK(u)'
  <1>1. TypeOK /\ OpenAttemptIsCurrent /\ \A t \in Callers : TxOK(t)
    BY DEF QInv
  <1>2. ASSUME NEW w \in Workers, BeginClaim(w) PROVE \A u \in Callers : TxOK(u)'
    <2>1. PICK new \in Transaction : Moved(w, new)
      BY <1>1, <1>2, BeginClaimMoves
    <2>2. TxOK(w)' /\ UNCHANGED <<hooks, open, paused, claim>> /\ w \in Callers
      BY <1>2, BegunClaimIsOK DEF BeginClaim, Callers
    <2>. QED
      BY <2>1, <2>2, OthersKeepQuietly
  <1>3. ASSUME NEW w \in Workers, BeginDelivery(w) PROVE \A u \in Callers : TxOK(u)'
    <2>1. PICK new \in Transaction : Moved(w, new)
      BY <1>1, <1>3, BeginDeliveryMoves
    <2>2. TxOK(w)' /\ UNCHANGED <<hooks, open, paused, claim>> /\ w \in Callers
      BY <1>1, <1>3, BegunDeliveryIsOK, BeginDeliveryMoves DEF Callers
    <2>. QED
      BY <2>1, <2>2, OthersKeepQuietly
  <1>4. ASSUME NEW r \in Requests, NEW kind \in {"replay", "delete", "bulk", "cleanup"},
               NEW wanted \in SUBSET Hooks, BeginRequest(r, kind, wanted)
        PROVE \A u \in Callers : TxOK(u)'
    <2>1. r \in Callers /\ kind \in Kinds
      BY DEF Callers, Kinds, Single
    <2>2. PICK new \in Transaction : Moved(r, new)
      BY <1>1, <1>4, <2>1, BeginMoves DEF BeginRequest
    <2>3. TxOK(r)' /\ UNCHANGED <<hooks, open, paused, claim>>
      BY <1>4, BegunRequestIsOK DEF BeginRequest, Begin
    <2>. QED
      BY <2>1, <2>2, <2>3, OthersKeepQuietly
  <1>5. ASSUME NEW w \in Workers, Snapshot(w) PROVE \A u \in Callers : TxOK(u)'
    <2>1. PICK new \in Transaction : Moved(w, new)
      BY <1>1, <1>5, SnapshotMoves
    <2>2. TxOK(w)' /\ UNCHANGED <<hooks, open, paused, claim>> /\ w \in Callers
      BY <1>5, SnapshotIsOK DEF Snapshot, Callers
    <2>. QED
      BY <2>1, <2>2, OthersKeepQuietly
  <1>6. ASSUME NEW t \in Callers, NEW h \in Hooks, LockRow(t, h) PROVE \A u \in Callers : TxOK(u)'
    <2>1. PICK new \in Transaction : Moved(t, new)
      BY <1>1, <1>6, LockRowMoves
    <2>2. TxOK(t)' /\ UNCHANGED <<hooks, open, paused, claim>>
      BY <1>6, LockedRowIsOK DEF LockRow
    <2>. QED
      BY <2>1, <2>2, OthersKeepQuietly
  <1>7. ASSUME NEW t \in Callers, TouchAttempts(t) PROVE \A u \in Callers : TxOK(u)'
    <2>1. PICK new \in Transaction : Moved(t, new)
      BY <1>1, <1>7, TouchAttemptsMoves
    <2>2. TxOK(t)' /\ UNCHANGED <<hooks, open, paused, claim>>
      BY <1>7, TouchedIsOK DEF TouchAttempts
    <2>. QED
      BY <2>1, <2>2, OthersKeepQuietly
  <1>8. ASSUME NEW t \in Callers, EndTx(t), UNCHANGED <<hooks, open, paused>>,
               \A v \in Workers \ {t} : claim'[v] = claim[v]
        PROVE \A u \in Callers : TxOK(u)'
    <2>1. Moved(t, NoTx) /\ tx'[t] = NoTx
      BY <1>1, <1>8 DEF EndTx, Moved, TypeOK
    <2>. QED
      BY <1>8, <2>1, NoTxIsOK, OthersKeepQuietly
  <1>9. ASSUME NEW t \in Callers, Refuse(t) \/ RollBack(t) PROVE \A u \in Callers : TxOK(u)'
    BY <1>8, <1>9 DEF Refuse, RollBack, ForgetClaim
  <1>10. ASSUME NEW w \in Workers, GiveUp(w) PROVE \A u \in Callers : TxOK(u)'
    <2>1. EndTx(w) /\ w \in Callers
      BY <1>1, <1>10 DEF GiveUp, EndTx, TypeOK, Callers
    <2>. QED
      BY <1>8, <1>10, <2>1 DEF GiveUp, ForgetClaim
  <1>11. ASSUME NEW t \in Callers, tx' = [tx EXCEPT ![t] = NoTx], paused' = paused,
                \A v \in Workers \ {t} : claim'[v] = claim[v],
                \A h \in Hooks \ tx[t].locked : hooks'[h] = hooks[h],
                \A a \in Attempts : a[1] \notin tx[t].locked => (a \in open' <=> a \in open)
         PROVE \A u \in Callers : TxOK(u)'
    <2>1. Moved(t, NoTx) /\ TxOK(t)'
      <3>1. tx'[t] = NoTx
        BY <1>1, <1>11 DEF TypeOK
      <3>. QED
        BY <1>11, <3>1, NoTxIsOK DEF Moved
    <2>2. ASSUME NEW u \in Callers, u # t PROVE TxOK(u)'
      BY <1>11, <2>1, <2>2, OthersKeep
    <2>. QED
      BY <2>1, <2>2
  <1>12. ASSUME NEW w \in Workers, CommitClaim(w) PROVE \A u \in Callers : TxOK(u)'
    <2>1. PICK h \in Hooks, new \in Row : Claimed(w, h, new)
      BY <1>1, <1>12, ClaimChanges DEF Callers
    <2>2. /\ tx' = [tx EXCEPT ![w] = NoTx] /\ paused' = paused
          /\ \A v \in Workers \ {w} : claim'[v] = claim[v]
          /\ \A g \in Hooks \ tx[w].locked : hooks'[g] = hooks[g]
          /\ \A a \in Attempts : a[1] \notin tx[w].locked => (a \in open' <=> a \in open)
      BY <1>1, <2>1 DEF Claimed, OpenOf, TypeOK
    <2>. QED
      BY <1>11, <2>2 DEF Callers
  <1>13. ASSUME NEW w \in Workers, CommitAttempt(w) PROVE \A u \in Callers : TxOK(u)'
    <2>1. Attempted(w, claim[w].hook, claim[w].version)
      BY <1>1, <1>13, AttemptChanges DEF Callers
    <2>2. /\ tx' = [tx EXCEPT ![w] = NoTx] /\ paused' = paused
          /\ \A v \in Workers \ {w} : claim'[v] = claim[v]
          /\ \A g \in Hooks \ tx[w].locked : hooks'[g] = hooks[g]
          /\ \A a \in Attempts : a[1] \notin tx[w].locked => (a \in open' <=> a \in open)
      BY <1>1, <2>1 DEF Attempted, TypeOK
    <2>. QED
      BY <1>11, <2>2 DEF Callers
  <1>14. ASSUME NEW w \in Workers, CommitFinish(w) PROVE \A u \in Callers : TxOK(u)'
    <2>1. PICK new \in Row : Finished(w, claim[w].hook, new)
      BY <1>1, <1>14, FinishChanges DEF Callers
    <2>2. /\ tx' = [tx EXCEPT ![w] = NoTx] /\ paused' = paused
          /\ \A v \in Workers \ {w} : claim'[v] = claim[v]
          /\ \A g \in Hooks \ tx[w].locked : hooks'[g] = hooks[g]
          /\ \A a \in Attempts : a[1] \notin tx[w].locked => (a \in open' <=> a \in open)
      BY <1>1, <2>1 DEF Finished, OpenOf, TypeOK
    <2>. QED
      BY <1>11, <2>2 DEF Callers
  <1>15. ASSUME NEW r \in Requests, CommitReplay(r) \/ CommitDelete(r)
         PROVE \A u \in Callers : TxOK(u)'
    <2>1. r \in Callers
      BY DEF Callers
    <2>2. PICK status : Requested(r, status)
      BY <1>1, <1>15, <2>1, RequestChanges
    <2>. QED
      BY <1>11, <2>1, <2>2 DEF Requested
  <1>16. ASSUME NEW h \in Hooks, LeaseExpires(h), NEW u \in Callers PROVE TxOK(u)'
    <2>1. /\ UNCHANGED <<open, paused, tx, claim>> /\ hooks[h].status = "processing"
          /\ hooks' = [hooks EXCEPT ![h].lease = "expired"]
      BY <1>16 DEF LeaseExpires
    <2>2. /\ \A g \in Hooks \ {h} : hooks'[g] = hooks[g]
          /\ hooks'[h].status = hooks[h].status /\ hooks'[h].version = hooks[h].version
          /\ hooks'[h].lease = "expired"
      BY <1>1, <2>1 DEF TypeOK, Row
    <2>3. tx[u].locked \subseteq Hooks /\ tx[u].held \subseteq Paused /\ Paused' = Paused
      BY <1>1, <2>1, NullsAreApart DEF TypeOK, Transaction, TxOK, HeldArePaused, Paused
    <2>4. Undisturbed(u)
      BY <2>1, <2>2, <2>3 DEF Undisturbed
    <2>. QED
      BY <1>1, <2>4, UndisturbedStays
  <1>17. ASSUME NEW s \in Sources, NEW value \in BOOLEAN, SetForwardingPaused(s, value)
         PROVE \A u \in Callers : TxOK(u)'
    BY <1>17, PauseIsOK
  <1>18. ASSUME UNCHANGED vars, NEW u \in Callers PROVE TxOK(u)'
    <2>1. tx[u].held \subseteq Paused'
      BY <1>1, <1>18 DEF TxOK, HeldArePaused, vars, Paused
    <2>2. Undisturbed(u)
      BY <1>18, <2>1 DEF Undisturbed, vars
    <2>. QED
      BY <1>1, <2>2, UndisturbedStays
  <1>. QED
    BY <1>2, <1>3, <1>4, <1>5, <1>6, <1>7, <1>9, <1>10, <1>12, <1>13, <1>14, <1>15, <1>16,
       <1>17, <1>18
    DEF Next, WorkerStep, RequestStep, TransactionStep

\* A row is locked by one transaction at a time.
LEMMA LockStep ==
    ASSUME QInv, [Next]_vars
    PROVE  (\A t, u \in Callers : t # u => tx[t].locked \cap tx[u].locked = {})'
  <1>1. TypeOK /\ \A t \in Callers : TxOK(t)
    BY DEF QInv
  <1>2. ASSUME \A t \in Callers : tx'[t].locked \subseteq tx[t].locked
        PROVE  \A t, u \in Callers : t # u => tx'[t].locked \cap tx'[u].locked = {}
    BY <1>2 DEF QInv
  <1>3. ASSUME NEW t \in Callers, NEW new, Moved(t, new), new.locked \subseteq tx[t].locked
        PROVE  \A u \in Callers : tx'[u].locked \subseteq tx[u].locked
    BY <1>1, <1>3 DEF Moved, TypeOK
  <1>4. ASSUME NEW t \in Callers, EndTx(t)
        PROVE  \A u \in Callers : tx'[u].locked \subseteq tx[u].locked
    BY <1>3, <1>4, NullsAreApart DEF EndTx, Moved
  <1>5. ASSUME NEW w \in Workers, BeginClaim(w) \/ BeginDelivery(w) \/ Snapshot(w)
        PROVE  \A u \in Callers : tx'[u].locked \subseteq tx[u].locked
    <2>1. \E new \in Transaction : Moved(w, new) /\ new.locked \subseteq tx[w].locked
      BY <1>1, <1>5, BeginClaimMoves, BeginDeliveryMoves, SnapshotMoves
    <2>. QED
      BY <1>3, <2>1 DEF Callers
  <1>6. ASSUME NEW r \in Requests, NEW kind \in {"replay", "delete", "bulk", "cleanup"},
               NEW wanted \in SUBSET Hooks, BeginRequest(r, kind, wanted)
        PROVE  \A u \in Callers : tx'[u].locked \subseteq tx[u].locked
    <2>1. r \in Callers /\ kind \in Kinds
      BY DEF Callers, Kinds, Single
    <2>2. \E new \in Transaction : Moved(r, new) /\ new.locked \subseteq tx[r].locked
      BY <1>1, <1>6, <2>1, BeginMoves DEF BeginRequest
    <2>. QED
      BY <1>3, <2>1, <2>2
  <1>7. ASSUME NEW t \in Callers, NEW h \in Hooks, LockRow(t, h)
        PROVE  \A u, v \in Callers : u # v => tx'[u].locked \cap tx'[v].locked = {}
    <2>1. PICK new \in Transaction :
              /\ Moved(t, new)
              /\ IF CanLock(t, h) THEN new.locked = tx[t].locked \cup {h}
                                  ELSE new.locked = tx[t].locked
      BY <1>1, <1>7, LockRowMoves
    <2>2. /\ tx'[t].locked \subseteq tx[t].locked \cup {h}
          /\ h \in tx'[t].locked => h \in tx[t].locked \/ CanLock(t, h)
          /\ \A u \in Callers : u # t => tx'[u] = tx[u]
      BY <1>1, <2>1 DEF Moved, TypeOK
    <2>3. CanLock(t, h) => \A u \in Callers : h \notin tx[u].locked
      BY DEF CanLock, Free
    <2>. QED
      BY <2>2, <2>3 DEF QInv
  <1>8. ASSUME NEW t \in Callers, TouchAttempts(t)
        PROVE  \A u \in Callers : tx'[u].locked \subseteq tx[u].locked
    <2>1. \E new \in Transaction : Moved(t, new) /\ new.locked \subseteq tx[t].locked
      BY <1>1, <1>8, TouchAttemptsMoves
    <2>. QED
      BY <1>3, <2>1
  <1>9. ASSUME NEW t \in Callers,
               \/ Refuse(t) \/ RollBack(t) \/ CommitReplay(t) \/ CommitDelete(t)
               \/ CommitClaim(t) \/ CommitAttempt(t) \/ CommitFinish(t)
        PROVE  \A u \in Callers : tx'[u].locked \subseteq tx[u].locked
    BY <1>4, <1>9
    DEF Refuse, RollBack, CommitReplay, CommitDelete, CommitClaim, CommitAttempt, CommitFinish
  <1>10. ASSUME NEW s \in Sources, NEW value \in BOOLEAN, SetForwardingPaused(s, value)
         PROVE  \A u \in Callers : tx'[u].locked \subseteq tx[u].locked
    BY <1>1, <1>10, PauseMoves
  <1>11. ASSUME tx' = tx
         PROVE  \A u \in Callers : tx'[u].locked \subseteq tx[u].locked
    BY <1>11
  <1>12. \/ \A u \in Callers : tx'[u].locked \subseteq tx[u].locked
         \/ \E t \in Callers, h \in Hooks : LockRow(t, h)
    BY <1>5, <1>6, <1>8, <1>9, <1>10, <1>11
    DEF Next, WorkerStep, RequestStep, TransactionStep, GiveUp, LeaseExpires, vars, Callers
  <1>. QED
    BY <1>2, <1>7, <1>12

\* An open attempt stays that of the claim that holds the webhook.
LEMMA AttemptsStep ==
    ASSUME QInv, TypeOK', [Next]_vars
    PROVE  OpenAttemptIsCurrent'
  <1>1. TypeOK /\ OpenAttemptIsCurrent /\ \A t \in Callers : TxOK(t)
    BY DEF QInv
  <1>2. \A a \in open : a[1] \in Hooks
    BY <1>1 DEF TypeOK, Attempts
  <1>3. ASSUME NEW w \in Workers, CommitClaim(w) PROVE OpenAttemptIsCurrent'
    <2>1. PICK h \in Hooks, new \in Row : Claimed(w, h, new)
      BY <1>1, <1>3, ClaimChanges DEF Callers
    <2>2. \A a \in open' : a \in open /\ a[1] # h
      BY <2>1 DEF Claimed, OpenOf
    <2>3. \A g \in Hooks \ {h} : hooks'[g] = hooks[g]
      BY <1>1, <2>1 DEF Claimed, TypeOK
    <2>. QED
      BY <1>1, <1>2, <2>2, <2>3 DEF OpenAttemptIsCurrent
  <1>4. ASSUME NEW w \in Workers, CommitAttempt(w) PROVE OpenAttemptIsCurrent'
    <2>1. Attempted(w, claim[w].hook, claim[w].version)
      BY <1>1, <1>4, AttemptChanges DEF Callers
    <2>. QED
      BY <1>1, <2>1 DEF Attempted, OpenAttemptIsCurrent
  <1>5. ASSUME NEW w \in Workers, CommitFinish(w) PROVE OpenAttemptIsCurrent'
    <2>1. PICK new \in Row : Finished(w, claim[w].hook, new)
      BY <1>1, <1>5, FinishChanges DEF Callers
    <2>2. \A a \in open' : a \in open /\ a[1] # claim[w].hook
      BY <2>1 DEF Finished, OpenOf
    <2>3. \A g \in Hooks \ {claim[w].hook} : hooks'[g] = hooks[g]
      BY <1>1, <2>1 DEF Finished, TypeOK
    <2>. QED
      BY <1>1, <1>2, <2>2, <2>3 DEF OpenAttemptIsCurrent
  <1>6. ASSUME NEW r \in Requests, CommitReplay(r) \/ CommitDelete(r) PROVE OpenAttemptIsCurrent'
    <2>1. PICK status : Requested(r, status)
      BY <1>1, <1>6, RequestChanges DEF Callers
    <2>2. open' = open /\ \A a \in open : a[1] \notin tx[r].locked
      BY <2>1 DEF Requested, OpenOf
    <2>. QED
      BY <1>1, <1>2, <2>1, <2>2 DEF Requested, OpenAttemptIsCurrent
  <1>7. ASSUME NEW h \in Hooks, LeaseExpires(h) PROVE OpenAttemptIsCurrent'
    <2>1. open' = open /\ hooks' = [hooks EXCEPT ![h].lease = "expired"]
      BY <1>7 DEF LeaseExpires
    <2>2. \A g \in Hooks : /\ hooks'[g].status = hooks[g].status
                            /\ hooks'[g].version = hooks[g].version
      BY <1>1, <2>1 DEF TypeOK, Row
    <2>. QED
      BY <1>1, <1>2, <2>1, <2>2 DEF OpenAttemptIsCurrent
  <1>8. ASSUME UNCHANGED <<hooks, open>> PROVE OpenAttemptIsCurrent'
    BY <1>1, <1>8 DEF OpenAttemptIsCurrent
  <1>9. \/ \E w \in Workers : CommitClaim(w) \/ CommitAttempt(w) \/ CommitFinish(w)
        \/ \E r \in Requests : CommitReplay(r) \/ CommitDelete(r)
        \/ \E h \in Hooks : LeaseExpires(h)
        \/ UNCHANGED <<hooks, open>>
    BY DEF Next, WorkerStep, RequestStep, TransactionStep, vars, BeginClaim, Snapshot,
           BeginDelivery, Begin, BeginRequest, GiveUp, LockRow, TouchAttempts, Refuse, RollBack,
           SetForwardingPaused
  <1>. QED
    BY <1>3, <1>4, <1>5, <1>6, <1>7, <1>8, <1>9

-----------------------------------------------------------------------------
(* Theorems.                                                                 *)

\* In the beginning no transaction runs and no attempt is open.
LEMMA QInvInit == Init => QInv
  <1>. SUFFICES ASSUME Init PROVE QInv
    OBVIOUS
  <1>1. hooks \in [Hooks -> Row]
    <2>1. {[status |-> "queued", lease |-> "none", version |-> 0],
           [status |-> "dead_lettered", lease |-> "none", version |-> 1]} \subseteq Row
      BY TxBoundsAssumption DEF Row
    <2>. QED
      BY <2>1 DEF Init
  <1>2. open = {} /\ \A t \in Callers : tx[t] = NoTx
    BY DEF Init
  <1>3. TypeOK
    BY <1>1, TxBoundsAssumption DEF Init, TypeOK, Attempts
  <1>4. ASSUME NEW t \in Callers PROVE TxOK(t)
    BY <1>2, NullsAreApart
    DEF TxOK, KindFits, ClaimFits, LocksInOrder, LockedAsRead, AttemptsAsSeen, HeldArePaused, Single
  <1>. QED
    BY <1>2, <1>3, <1>4, NullsAreApart DEF QInv, OpenAttemptIsCurrent

\* QInv is inductive.
THEOREM QueueInvariance == Spec => []QInv
  <1>1. QInv /\ [Next]_vars => QInv'
    BY TypeStep, TxStep, LockStep, AttemptsStep DEF QInv
  <1>. QED
    BY QInvInit, <1>1, PTL DEF Spec

\* TypeOK: rows, attempts, transactions and claims stay well formed.
THEOREM QueueTypes == Spec => []TypeOK
  <1>1. QInv => TypeOK
    BY DEF QInv
  <1>. QED
    BY QueueInvariance, <1>1, PTL

\* OpenAttemptIsCurrent: no claim, result, replay or deletion, in whatever order their
\* statements run, leaves an open attempt behind that nobody completes.
THEOREM AttemptsCurrent == Spec => []OpenAttemptIsCurrent
  <1>1. QInv => OpenAttemptIsCurrent
    BY DEF QInv
  <1>. QED
    BY QueueInvariance, <1>1, PTL

\* PauseReachesLaterClaims: a claim that begins after a pause takes no row of the source.
THEOREM PausesReach == Spec => []PauseReachesLaterClaims
  <1>1. QInv => PauseReachesLaterClaims
    BY DEF QInv, TxOK, HeldArePaused, PauseReachesLaterClaims, Callers
  <1>. QED
    BY QueueInvariance, <1>1, PTL

-----------------------------------------------------------------------------
(* No deadlock.                                                              *)

\* A nonempty set of ids has a smallest one.
LEMMA SmallestNumber ==
    ASSUME NEW S \in SUBSET Nat, S # {}
    PROVE  \E n \in S : \A m \in S : n <= m
  <1>1. PICK n \in S : \A m \in S : <<m, n>> \notin OpToRel(<, Nat)
    BY NatLessThanWellFounded, WFMin
  <1>2. ASSUME NEW m \in S PROVE ~(m < n)
    <2>1. <<m, n>> \in Nat \X Nat /\ <<m, n>>[1] = m /\ <<m, n>>[2] = n
      OBVIOUS
    <2>. QED
      BY <1>1, <2>1, Zenon DEF OpToRel
  <1>. QED
    BY <1>2

\* And a largest one.
LEMMA LargestId ==
    ASSUME NEW S \in SUBSET Hooks, S # {}
    PROVE  \E h \in S : \A g \in S : g <= h
  <1>1. PICK top \in Nat : Hooks \subseteq 0 .. top
    BY IdsAreBounded
  <1>. DEFINE below == {n \in Nat : top - n \in S}
  <1>2. \A h \in S : top - h \in below /\ h \in Nat
    BY <1>1
  <1>3. PICK n \in below : \A m \in below : n <= m
    BY <1>2, SmallestNumber
  <1>4. ASSUME NEW g \in S PROVE g <= top - n
    <2>1. g \in Nat /\ n \in Nat /\ n <= top - g
      BY <1>2, <1>3
    <2>. QED
      BY <2>1
  <1>. QED
    BY <1>3, <1>4

\* A transaction that is waited for while it waits itself is a bulk replay that has
\* locked smaller ids than the one it wants next: whoever wants one row by id has
\* locked nothing before it has that row, and the others never wait.
LEMMA WaitingForTheWaiting ==
    ASSUME QInv, NEW t \in Callers, NEW u \in Callers, NEW v \in Callers,
           WaitsFor(t, u), WaitsFor(u, v)
    PROVE  /\ tx[u].kind = "bulk"
           /\ \E g \in NextRows(t), h \in NextRows(u) : g < h
  <1>1. /\ tx[t] \in Transaction /\ tx[u] \in Transaction
        /\ TxOK(t) /\ TxOK(u)
    BY NullsAreApart DEF QInv, TypeOK, WaitsFor
  <1>2. ASSUME NEW x \in Callers, tx[x] \in Transaction, tx[x].at = "locking", ~Selected(x)
        PROVE  NextRows(x) # {} /\ NextRows(x) \subseteq tx[x].todo /\ tx[x].todo \subseteq Hooks
    <2>1. tx[x].todo # {} /\ tx[x].todo \in SUBSET Hooks
      BY <1>2 DEF Selected, Transaction
    <2>. QED
      <3>1. tx[x].todo \in SUBSET Nat
        BY <2>1, HooksAreNumbers
      <3>2. \E h \in tx[x].todo : \A g \in tx[x].todo : h <= g
        BY <2>1, <3>1, SmallestNumber
      <3>. QED
        BY <2>1, <3>2 DEF NextRows
  <1>3. PICK g : g \in NextRows(t) /\ g \in tx[u].locked
    BY <1>1, <1>2 DEF WaitsFor
  <1>4. PICK h : h \in NextRows(u) /\ h \in tx[u].todo /\ h \in Hooks
    BY <1>1, <1>2 DEF WaitsFor
  <1>5. tx[u].kind \in Single \cup {"bulk"}
    BY <1>1 DEF WaitsFor, SkipsLocked, Transaction, Kinds
  <1>6. tx[u].kind \notin Single
    BY <1>1, <1>3, <1>4 DEF TxOK, LocksInOrder
  <1>. QED
    BY <1>1, <1>3, <1>4, <1>5, <1>6 DEF TxOK, LocksInOrder

\* NoLockCycle: the one that wants the largest id next waits for nobody in the circle.
LEMMA NobodyWaitsInACircle == QInv => NoLockCycle
  <1>. SUFFICES ASSUME QInv, NEW T \in SUBSET Callers, T # {},
                       \A t \in T : \E u \in T : WaitsFor(t, u)
                PROVE  FALSE
    BY DEF NoLockCycle
  <1>. DEFINE wanted == {h \in Hooks : \E t, u \in T : WaitsFor(t, u) /\ h \in NextRows(u)}
  <1>1. ASSUME NEW t \in T PROVE \E u, v \in T : WaitsFor(t, u) /\ WaitsFor(u, v)
    OBVIOUS
  <1>2. ASSUME NEW u \in T, NEW v \in T, WaitsFor(u, v)
        PROVE  NextRows(u) \subseteq Hooks
    BY <1>2, NullsAreApart DEF WaitsFor, NextRows, QInv, TypeOK, Transaction
  <1>3. wanted # {}
    <2>1. PICK t \in T, u \in T, v \in T : WaitsFor(t, u) /\ WaitsFor(u, v)
      BY <1>1
    <2>. QED
      BY <1>2, <2>1, WaitingForTheWaiting
  <1>4. PICK h \in wanted : \A g \in wanted : g <= h
    BY <1>3, LargestId
  <1>5. PICK t \in T, u \in T : WaitsFor(t, u) /\ h \in NextRows(u)
    BY <1>4
  <1>6. PICK v \in T, x \in T : WaitsFor(u, v) /\ WaitsFor(v, x)
    BY <1>1
  <1>7. PICK f \in NextRows(u), g \in NextRows(v) : f < g
    BY <1>6, WaitingForTheWaiting
  <1>8. f = h
    <2>1. tx[u].kind = "bulk"
      BY <1>5, <1>6, WaitingForTheWaiting
    <2>2. f \in tx[u].todo /\ h \in tx[u].todo /\ f <= h /\ h <= f /\ f \in Hooks /\ h \in Hooks
      BY <1>2, <1>5, <1>6, <1>7, <2>1 DEF NextRows
    <2>. QED
      BY <2>2, HooksAreNumbers
  <1>9. g \in wanted
    BY <1>2, <1>6, <1>7
  <1>. QED
    BY <1>4, <1>7, <1>8, <1>9, HooksAreNumbers

\* NoLockCycle, for any number of callers and webhooks: the database never has to abort
\* a transaction of the program because of a deadlock.
THEOREM LocksNeverCycle == Spec => []NoLockCycle
  BY QueueInvariance, NobodyWaitsInACircle, PTL

-----------------------------------------------------------------------------
(* The claims are fenced, and a claim that stored an attempt finds it again.  *)

\* No claim is newer than its row, and no two claims are of the same lease.
ClaimsAreFenced ==
    /\ \A w \in Workers : claim[w] # NoClaim => claim[w].version <= hooks[claim[w].hook].version
    /\ \A v, w \in Workers :
          v # w /\ claim[v] # NoClaim /\ claim[w] # NoClaim /\ claim[v].hook = claim[w].hook =>
              claim[v].version # claim[w].version

\* While the lease of a claim with an attempt is the latest, the attempt is open.
AttemptIsStored ==
    \A w \in Workers :
        (/\ claim[w] # NoClaim /\ claim[w].step = "attempted"
         /\ hooks[claim[w].hook].status = "processing"
         /\ hooks[claim[w].hook].version = claim[w].version)
        => <<claim[w].hook, claim[w].version>> \in open

FencedInv == QInv /\ ClaimsAreFenced /\ AttemptIsStored

\* A step that hands nothing out: claims are kept or lost, or fail, rows keep their
\* versions and do not come into processing, and rows in processing keep their attempts.
LEMMA FencesStay ==
    ASSUME FencedInv, TypeOK',
           \A w \in Workers : \/ claim'[w] = NoClaim \/ claim'[w] = claim[w]
                              \/ /\ claim[w] # NoClaim /\ claim'[w] # NoClaim
                                 /\ claim'[w].hook = claim[w].hook
                                 /\ claim'[w].version = claim[w].version
                                 /\ claim'[w].step = "failed",
           \A h \in Hooks : /\ hooks'[h].version = hooks[h].version
                            /\ hooks'[h].status = "processing" => hooks[h].status = "processing",
           \A a \in open : hooks'[a[1]].status = "processing" => a \in open'
    PROVE  ClaimsAreFenced' /\ AttemptIsStored'
  <1>1. \A w \in Workers : claim[w] # NoClaim => claim[w].hook \in Hooks
    BY DEF FencedInv, QInv, TypeOK, Claim
  <1>2. ClaimsAreFenced'
    BY <1>1 DEF FencedInv, ClaimsAreFenced
  <1>3. AttemptIsStored'
    BY <1>1 DEF FencedInv, AttemptIsStored
  <1>. QED
    BY <1>2, <1>3

\* A claim gets the next version, which nobody has had; an attempt is stored with it.
LEMMA FencedStep ==
    ASSUME FencedInv, QInv', [Next]_vars
    PROVE  ClaimsAreFenced' /\ AttemptIsStored'
  <1>1. /\ TypeOK /\ OpenAttemptIsCurrent /\ TypeOK' /\ \A t \in Callers : TxOK(t)
        /\ Workers \subseteq Callers
    BY DEF FencedInv, QInv, Callers
  <1>2. \A w \in Workers : claim[w] # NoClaim => claim[w] \in Claim /\ claim[w].hook \in Hooks
    BY <1>1 DEF TypeOK, Claim
  <1>3. ASSUME NEW w \in Workers, CommitClaim(w) PROVE ClaimsAreFenced' /\ AttemptIsStored'
    <2>1. PICK h \in Hooks, new \in Row : Claimed(w, h, new)
      BY <1>1, <1>3, ClaimChanges
    <2>. DEFINE held == [hook |-> h, version |-> hooks[h].version + 1, step |-> "claimed"]
    <2>2. /\ claim'[w] = held /\ held \in Claim
          /\ held.hook = h /\ held.version = hooks[h].version + 1 /\ held.step = "claimed"
          /\ \A v \in Workers \ {w} : claim'[v] = claim[v]
      BY <1>1, <2>1 DEF Claimed, TypeOK
    <2>3. /\ hooks'[h].version = hooks[h].version + 1 /\ hooks[h].version \in Nat
          /\ \A g \in Hooks \ {h} : hooks'[g] = hooks[g]
          /\ open' = {a \in open : a[1] # h}
      BY <1>1, <2>1, TxBoundsAssumption DEF Claimed, OpenOf, TypeOK, Row
    <2>. HIDE DEF held
    <2>4. \A v \in Workers \ {w} : claim[v] # NoClaim =>
             claim[v].version \in Nat /\ claim[v].version <= hooks[claim[v].hook].version
      BY <1>2, TxBoundsAssumption DEF FencedInv, ClaimsAreFenced, Claim
    <2>5. ClaimsAreFenced'
      <3>1. ASSUME NEW v \in Workers, claim'[v] # NoClaim
            PROVE  claim'[v].version <= hooks'[claim'[v].hook].version
        <4>1. CASE v = w
          BY <2>2, <2>3, <4>1
        <4>2. CASE v # w
          <5>1. claim[v].hook \in Hooks /\ hooks[claim[v].hook].version \in Nat
            BY <1>1, <1>2, <2>2, <3>1, <4>2, TxBoundsAssumption DEF TypeOK, Row
          <5>. QED
            BY <2>2, <2>3, <2>4, <3>1, <4>2, <5>1
        <4>. QED
          BY <4>1, <4>2
      <3>2. ASSUME NEW u \in Workers, NEW v \in Workers, u # v, claim'[u] # NoClaim,
                   claim'[v] # NoClaim, claim'[u].hook = claim'[v].hook
            PROVE  claim'[u].version # claim'[v].version
        <4>1. CASE u # w /\ v # w
          BY <2>2, <3>2, <4>1 DEF FencedInv, ClaimsAreFenced
        <4>2. CASE u = w \/ v = w
          BY <2>2, <2>3, <2>4, <3>2, <4>2
        <4>. QED
          BY <4>1, <4>2
      <3>. QED
        BY <3>1, <3>2 DEF ClaimsAreFenced
    <2>6. AttemptIsStored'
      <3>. SUFFICES ASSUME NEW v \in Workers, claim'[v] # NoClaim, claim'[v].step = "attempted",
                           hooks'[claim'[v].hook].status = "processing",
                           hooks'[claim'[v].hook].version = claim'[v].version
                    PROVE  <<claim'[v].hook, claim'[v].version>> \in open'
        BY DEF AttemptIsStored
      <3>1. v # w /\ claim'[v] = claim[v] /\ claim[v].hook \in Hooks
        BY <1>2, <2>2
      <3>2. claim[v].hook # h
        BY <2>3, <2>4, <3>1
      <3>3. <<claim[v].hook, claim[v].version>> \in open
        BY <2>3, <3>1, <3>2 DEF FencedInv, AttemptIsStored
      <3>. QED
        BY <2>3, <3>1, <3>2, <3>3
    <2>. QED
      BY <2>5, <2>6
  <1>4. ASSUME NEW w \in Workers, CommitAttempt(w) PROVE ClaimsAreFenced' /\ AttemptIsStored'
    <2>1. Attempted(w, claim[w].hook, claim[w].version)
      BY <1>1, <1>4, AttemptChanges
    <2>2. /\ claim[w] # NoClaim /\ claim'[w] # NoClaim
          /\ claim'[w].hook = claim[w].hook /\ claim'[w].version = claim[w].version
          /\ \A v \in Workers \ {w} : claim'[v] = claim[v]
          /\ hooks' = hooks /\ open \subseteq open' /\ <<claim[w].hook, claim[w].version>> \in open'
      BY <1>1, <2>1, NullsAreApart DEF Attempted, TypeOK, Claim
    <2>3. ClaimsAreFenced'
      BY <2>2 DEF FencedInv, ClaimsAreFenced
    <2>4. AttemptIsStored'
      BY <2>2 DEF FencedInv, AttemptIsStored
    <2>. QED
      BY <2>3, <2>4
  <1>5. ASSUME NEW w \in Workers, CommitFinish(w) PROVE ClaimsAreFenced' /\ AttemptIsStored'
    <2>1. PICK new \in Row : Finished(w, claim[w].hook, new)
      BY <1>1, <1>5, FinishChanges
    <2>2. /\ \A v \in Workers : claim'[v] = NoClaim \/ claim'[v] = claim[v]
          /\ \A h \in Hooks : /\ hooks'[h].version = hooks[h].version
                              /\ hooks'[h].status = "processing" => hooks[h].status = "processing"
      BY <1>1, <1>2, <2>1 DEF Finished, TypeOK
    <2>3. \A a \in open : hooks'[a[1]].status = "processing" => a \in open'
      <3>1. hooks'[claim[w].hook].status # "processing"
        BY <1>1, <1>2, <2>1 DEF Finished, TypeOK
      <3>. QED
        BY <2>1, <3>1 DEF Finished, OpenOf
    <2>. QED
      BY <1>1, <2>2, <2>3, FencesStay
  <1>6. ASSUME NEW r \in Requests, CommitReplay(r) \/ CommitDelete(r)
        PROVE ClaimsAreFenced' /\ AttemptIsStored'
    <2>1. PICK status : Requested(r, status) /\ status \in {"queued", "deleted"}
      BY <1>1, <1>6, RequestChanges DEF Callers
    <2>2. /\ claim' = claim /\ open' = open
          /\ \A h \in Hooks : /\ hooks'[h].version = hooks[h].version
                              /\ hooks'[h].status = "processing" => hooks[h].status = "processing"
      BY <2>1 DEF Requested
    <2>. QED
      BY <1>1, <2>2, FencesStay
  <1>7. ASSUME NEW h \in Hooks, LeaseExpires(h) PROVE ClaimsAreFenced' /\ AttemptIsStored'
    <2>1. claim' = claim /\ open' = open /\ hooks' = [hooks EXCEPT ![h].lease = "expired"]
      BY <1>7 DEF LeaseExpires
    <2>2. \A g \in Hooks : /\ hooks'[g].version = hooks[g].version
                            /\ hooks'[g].status = hooks[g].status
      BY <1>1, <2>1 DEF TypeOK, Row
    <2>. QED
      BY <1>1, <2>1, <2>2, FencesStay
  <1>8. ASSUME NEW t \in Callers, RollBack(t) PROVE ClaimsAreFenced' /\ AttemptIsStored'
    <2>1. hooks' = hooks /\ open' = open
      BY <1>8 DEF RollBack
    <2>2. ASSUME NEW w \in Workers
          PROVE  \/ claim'[w] = claim[w]
                 \/ /\ claim[w] # NoClaim /\ claim'[w] # NoClaim
                    /\ claim'[w].hook = claim[w].hook /\ claim'[w].version = claim[w].version
                    /\ claim'[w].step = "failed"
      <3>1. CASE w = t /\ claim[w] # NoClaim
        <4>1. claim'[w] = [claim[w] EXCEPT !.step = "failed"] /\ claim[w] \in Claim
          BY <1>2, <1>8, <3>1 DEF RollBack
        <4>2. claim'[w] \in Claim
          BY <4>1 DEF Claim
        <4>. QED
          BY <3>1, <4>1, <4>2, NullsAreApart DEF Claim
      <3>2. CASE ~(w = t /\ claim[w] # NoClaim)
        BY <1>8, <3>2 DEF RollBack
      <3>. QED
        BY <3>1, <3>2
    <2>. QED
      BY <1>1, <2>1, <2>2, FencesStay
  <1>9. ASSUME UNCHANGED <<hooks, open>>,
               \A v \in Workers : claim'[v] = NoClaim \/ claim'[v] = claim[v]
        PROVE ClaimsAreFenced' /\ AttemptIsStored'
    BY <1>1, <1>9, FencesStay
  <1>10. ASSUME NEW t \in Callers, Refuse(t) PROVE ClaimsAreFenced' /\ AttemptIsStored'
    BY <1>9, <1>10 DEF Refuse, ForgetClaim
  <1>11. ASSUME NEW w \in Workers, GiveUp(w) PROVE ClaimsAreFenced' /\ AttemptIsStored'
    BY <1>9, <1>11 DEF GiveUp, ForgetClaim
  <1>12. \/ \E w \in Workers : CommitClaim(w) \/ CommitAttempt(w) \/ CommitFinish(w) \/ GiveUp(w)
         \/ \E r \in Requests : CommitReplay(r) \/ CommitDelete(r)
         \/ \E h \in Hooks : LeaseExpires(h)
         \/ \E t \in Callers : Refuse(t) \/ RollBack(t)
         \/ UNCHANGED <<hooks, open, claim>>
    BY DEF Next, WorkerStep, RequestStep, TransactionStep, vars, BeginClaim, Snapshot,
           BeginDelivery, Begin, BeginRequest, LockRow, TouchAttempts, SetForwardingPaused
  <1>. QED
    BY <1>3, <1>4, <1>5, <1>6, <1>7, <1>8, <1>9, <1>10, <1>11, <1>12

\* FencedInv is inductive.
THEOREM Fencing == Spec => []FencedInv
  <1>1. Init => ClaimsAreFenced /\ AttemptIsStored
    BY DEF Init, ClaimsAreFenced, AttemptIsStored
  <1>2. QInv /\ [Next]_vars => QInv'
    BY TypeStep, TxStep, LockStep, AttemptsStep DEF QInv
  <1>3. FencedInv /\ [Next]_vars => FencedInv'
    BY <1>2, FencedStep DEF FencedInv
  <1>. QED
    BY QInvInit, <1>1, <1>3, PTL DEF Spec, FencedInv

-----------------------------------------------------------------------------
(* The transactions change the queue in its steps.                           *)

\* The phases a row of each status shows.
LEMMA PhaseOfStatus ==
    ASSUME NEW row \in Row, NEW finishing \in BOOLEAN
    PROVE  /\ row.status = "queued" => Phase(row, finishing) = "queued"
           /\ row.status = "processing" /\ (row.lease = "live" \/ finishing) =>
                  Phase(row, finishing) = "held"
           /\ row.status = "processing" /\ row.lease # "live" /\ ~finishing =>
                  Phase(row, finishing) = "lapsed"
           /\ row.status = "success" => Phase(row, finishing) = "done"
           /\ row.status = "dead_lettered" => Phase(row, finishing) = "dead"
           /\ row.status = "deleted" => Phase(row, finishing) = "gone"
  BY DEF Phase

\* A worker that finishes holds the latest lease of its row, and nobody else does.
LEMMA FinishingHolds ==
    ASSUME QInv, NEW w \in Workers, NEW h \in Hooks, FinishingBy(w, h)
    PROVE  /\ claim[w] \in Claim /\ claim[w].hook = h /\ tx[w].locked = {h}
           /\ claim[w].step = "attempted"
           /\ hooks[h].status = "processing" /\ hooks[h].version = claim[w].version
           /\ \A v \in Workers : FinishingBy(v, h) => v = w
           /\ tx[w].at \in {"locking", "attempts"}
           /\ tx[w].at = "locking" => Selected(w)
  <1>1. TxOK(w) /\ tx[w].kind = "finish" /\ h \in tx[w].locked /\ HoldsLease(w, tx[w].row)
        /\ tx[w] \in Transaction
    BY NullsAreApart DEF QInv, TypeOK, FinishingBy, Callers
  <1>2. /\ claim[w] \in Claim /\ claim[w].hook = h /\ tx[w].locked = {h}
        /\ claim[w].step = "attempted"
    BY <1>1 DEF TxOK, ClaimFits
  <1>3. SameButLease(tx[w].row, hooks[h])
    BY <1>1 DEF TxOK, LockedAsRead, Single
  <1>4. tx[w].at # "begun"
    BY <1>1 DEF TxOK, KindFits
  <1>5. tx[w].at = "locking" => Selected(w)
    <2>1. tx[w].todo \cap tx[w].locked = {} /\ tx[w].todo \subseteq {h}
      BY <1>1, <1>2 DEF TxOK, LocksInOrder, ClaimFits
    <2>. QED
      BY <1>2, <2>1 DEF Selected
  <1>6. \A v \in Workers : FinishingBy(v, h) => v = w
    BY <1>1 DEF QInv, FinishingBy, Callers
  <1>. QED
    BY <1>1, <1>2, <1>3, <1>4, <1>5, <1>6 DEF SameButLease, HoldsLease, Transaction

\* A transaction that is not a worker's, or that neither was nor is finishing anything,
\* does not change who is finishing what.
LEMMA FinishingStays ==
    ASSUME TypeOK, NEW t \in Callers, NEW new, Moved(t, new),
           \A v \in Workers \ {t} : claim'[v] = claim[v],
           NEW h, t \in Workers => (FinishingBy(t, h) <=> FinishingBy(t, h)')
    PROVE  Finishing(h)' = Finishing(h)
  <1>1. \A v \in Workers \ {t} : tx'[v] = tx[v]
    BY DEF TypeOK, Moved, Callers
  <1>2. \A v \in Workers : FinishingBy(v, h)' <=> FinishingBy(v, h)
    BY <1>1 DEF FinishingBy, HoldsLease
  <1>. QED
    BY <1>2 DEF Finishing

\* Rows that keep phase and version under claims that keep their tickets: a stutter.
LEMMA QueueStutters ==
    ASSUME \A h \in Hooks : /\ Phase(hooks'[h], Finishing(h)') = Phase(hooks[h], Finishing(h))
                            /\ hooks'[h].version = hooks[h].version,
           \A w \in Workers : TakenBy(w)' = TakenBy(w)
    PROVE  UNCHANGED Queue!vars
  BY DEF Queue!vars

\* As above, where no row changes, and where who is finishing changes only for rows
\* that are held anyway.
LEMMA QuietStutters ==
    ASSUME TypeOK, hooks' = hooks, \A w \in Workers : TakenBy(w)' = TakenBy(w),
           \A h \in Hooks : Finishing(h)' = Finishing(h) \/ hooks[h].lease = "live"
    PROVE  UNCHANGED Queue!vars
  <1>1. \A h \in Hooks : Phase(hooks'[h], Finishing(h)') = Phase(hooks[h], Finishing(h))
    BY DEF Phase
  <1>. QED
    BY <1>1, QueueStutters

\* Beginning, locking and reading attempts change nothing of the queue: a finish locks
\* its row while the lease is live, or not at all.
LEMMA StatementsStutter ==
    ASSUME QInv, NEW t \in Callers, NEW new \in Transaction, Moved(t, new),
           UNCHANGED <<hooks, claim>>,
           \/ new.locked = tx[t].locked /\ new.kind = tx[t].kind /\ new.row = tx[t].row
           \/ new.locked = {} /\ tx[t].locked = {}
           \/ tx[t].locked = {} /\ \E h \in Hooks : new.locked = {h} /\ new.row = hooks[h]
           \/ new.kind # "finish" /\ tx[t].kind # "finish"
    PROVE  UNCHANGED Queue!vars
  <1>1. TypeOK /\ tx'[t] = new
    BY DEF QInv, TypeOK, Moved
  <1>2. ASSUME NEW h \in Hooks PROVE Finishing(h)' = Finishing(h) \/ hooks[h].lease = "live"
    <2>1. CASE FinishingBy(t, h) <=> FinishingBy(t, h)'
      BY <1>1, <2>1, FinishingStays
    <2>2. CASE ~(FinishingBy(t, h) <=> FinishingBy(t, h)')
      BY <1>1, <2>2 DEF FinishingBy, HoldsLease
    <2>. QED
      BY <2>1, <2>2
  <1>3. \A w \in Workers : TakenBy(w)' = TakenBy(w)
    BY DEF TakenBy
  <1>. QED
    BY <1>1, <1>2, <1>3, QuietStutters

\* CommitClaim takes an item that is queued or lapsed: nobody is finishing a row that
\* another transaction has locked.
LEMMA ClaimTakes ==
    ASSUME QInv, QInv', NEW w \in Workers, CommitClaim(w)
    PROVE  \E h \in Hooks : Queue!Take(w, h)
  <1>1. PICK h \in Hooks, new \in Row : Claimed(w, h, new)
    BY ClaimChanges DEF QInv, Callers
  <1>2. TypeOK /\ TxOK(w) /\ tx[w].kind = "claim" /\ w \in Callers
    BY DEF QInv, CommitClaim, Callers
  <1>3. /\ tx[w].locked = {h} /\ Eligible(hooks[h]) /\ claim[w] = NoClaim
        /\ Moved(w, NoTx) /\ \A v \in Workers \ {w} : claim'[v] = claim[v]
        /\ claim'[w] = [hook |-> h, version |-> hooks[h].version + 1, step |-> "claimed"]
        /\ claim'[w] \in Claim
    BY <1>1, <1>2 DEF Claimed, Moved, TypeOK
  <1>4. ASSUME NEW g \in Hooks PROVE Finishing(g)' = Finishing(g)
    <2>1. ~FinishingBy(w, g)
      BY <1>2 DEF FinishingBy
    <2>2. ~FinishingBy(w, g)'
      <3>1. tx'[w] = NoTx
        BY <1>2, <1>3 DEF Moved, TypeOK
      <3>. QED
        BY <3>1, NullsAreApart DEF FinishingBy
    <2>. QED
      BY <1>2, <1>3, <2>1, <2>2, FinishingStays
  <1>5. ~Finishing(h)
    BY <1>2, <1>3 DEF Finishing, FinishingBy, QInv, Callers
  <1>6. Phase(hooks[h], Finishing(h)) \in {"queued", "lapsed"}
    BY <1>3, <1>5 DEF Phase, Eligible
  <1>7. /\ hooks'[h] = new /\ \A g \in Hooks \ {h} : hooks'[g] = hooks[g]
        /\ Phase(hooks'[h], Finishing(h)') = "held" /\ hooks'[h].version = hooks[h].version + 1
    BY <1>1, <1>2 DEF Claimed, TypeOK, Phase
  <1>8. [g \in Hooks |-> Phase(hooks'[g], Finishing(g)')] =
            [[g \in Hooks |-> Phase(hooks[g], Finishing(g))] EXCEPT ![h] = "held"]
    BY <1>4, <1>7
  <1>9. [g \in Hooks |-> hooks'[g].version] =
            [[g \in Hooks |-> hooks[g].version] EXCEPT ![h] = hooks[h].version + 1]
    BY <1>7
  <1>10. TakenBy(w) = [none |-> "taken"]
    BY <1>3 DEF TakenBy
  <1>11. [v \in Workers |-> TakenBy(v)'] =
            [[v \in Workers |-> TakenBy(v)] EXCEPT
                 ![w] = [item |-> h, lease |-> hooks[h].version + 1]]
    <2>1. TakenBy(w)' = [item |-> h, lease |-> hooks[h].version + 1]
      BY <1>3, NullsAreApart DEF TakenBy
    <2>2. \A v \in Workers \ {w} : TakenBy(v)' = TakenBy(v)
      BY <1>3 DEF TakenBy
    <2>. QED
      BY <2>1, <2>2
  <1>. QED
    BY <1>6, <1>8, <1>9, <1>10, <1>11 DEF Queue!Take, Queue!Nothing

\* CommitFinish reports on the item, under its latest lease.
LEMMA FinishReports ==
    ASSUME QInv, QInv', NEW w \in Workers, CommitFinish(w)
    PROVE  Queue!Report(w)
  <1>1. PICK h \in Hooks, new \in Row : Finished(w, h, new)
    <2>1. PICK new \in Row : Finished(w, claim[w].hook, new)
      BY FinishChanges DEF QInv, Callers
    <2>2. claim[w].hook \in Hooks
      BY <2>1 DEF Finished, Claim
    <2>. QED
      BY <2>1, <2>2
  <1>2. TypeOK /\ w \in Callers /\ tx[w].kind = "finish"
    BY DEF QInv, CommitFinish, Callers
  <1>3. /\ claim[w] \in Claim /\ claim[w].hook = h /\ claim[w].version = hooks[h].version
        /\ FinishingBy(w, h) /\ hooks[h].status = "processing" /\ tx[w].locked = {h}
        /\ Moved(w, NoTx) /\ claim'[w] = NoClaim
        /\ \A v \in Workers \ {w} : claim'[v] = claim[v]
    BY <1>1, <1>2 DEF Finished, FinishingBy, Moved, TypeOK
  <1>4. TakenBy(w) = [item |-> h, lease |-> hooks[h].version]
    BY <1>3, NullsAreApart DEF TakenBy
  <1>5. Queue!Current(w)
    <2>1. Phase(hooks[h], Finishing(h)) = "held"
      BY <1>3 DEF Phase, Finishing
    <2>2. [item |-> h, lease |-> hooks[h].version] # [none |-> "taken"]
      <3>1. "none" \in DOMAIN [none |-> "taken"]
            /\ "none" \notin DOMAIN [item |-> h, lease |-> hooks[h].version]
        OBVIOUS
      <3>. QED
        BY <3>1
    <2>. QED
      BY <1>3, <1>4, <2>1, <2>2 DEF Queue!Current, Queue!Nothing
  <1>6. /\ hooks'[h] = new /\ \A g \in Hooks \ {h} : hooks'[g] = hooks[g]
        /\ hooks'[h].version = hooks[h].version
    BY <1>1, <1>2, <1>3 DEF Finished, TypeOK
  <1>7. PICK outcome \in {"done", "dead", "queued"} : Phase(hooks'[h], Finishing(h)') = outcome
    BY <1>1, <1>6 DEF Finished, Phase
  <1>8. ASSUME NEW g \in Hooks \ {h} PROVE Finishing(g)' = Finishing(g)
    <2>1. ~FinishingBy(w, g)
      BY <1>3 DEF FinishingBy
    <2>2. ~FinishingBy(w, g)'
      <3>1. tx'[w] = NoTx
        BY <1>2, <1>3 DEF Moved, TypeOK
      <3>. QED
        BY <3>1, NullsAreApart DEF FinishingBy
    <2>. QED
      BY <1>2, <1>3, <2>1, <2>2, FinishingStays
  <1>9. [g \in Hooks |-> Phase(hooks'[g], Finishing(g)')] =
            [[g \in Hooks |-> Phase(hooks[g], Finishing(g))] EXCEPT ![h] = outcome]
    <2>1. \A g \in Hooks : Phase(hooks'[g], Finishing(g)') =
                             IF g = h THEN outcome ELSE Phase(hooks[g], Finishing(g))
      BY <1>6, <1>7, <1>8
    <2>. QED
      BY <2>1
  <1>10. [g \in Hooks |-> hooks'[g].version] = [g \in Hooks |-> hooks[g].version]
    BY <1>6
  <1>11. [v \in Workers |-> TakenBy(v)'] =
            [[v \in Workers |-> TakenBy(v)] EXCEPT ![w] = [none |-> "taken"]]
    BY <1>3 DEF TakenBy
  <1>12. TakenBy(w).item = h
    BY <1>4
  <1>. QED
    BY <1>5, <1>7, <1>9, <1>10, <1>11, <1>12 DEF Queue!Report, Queue!Nothing

\* A lease that runs out lapses, unless a finish has the row already: then nothing is
\* lost yet.
LEMMA ExpiryLapses ==
    ASSUME QInv, NEW h \in Hooks, LeaseExpires(h)
    PROVE  Queue!Lapse(h) \/ UNCHANGED Queue!vars
  <1>1. /\ TypeOK /\ UNCHANGED <<tx, claim>>
        /\ hooks[h].status = "processing" /\ hooks[h].lease = "live"
        /\ hooks' = [hooks EXCEPT ![h].lease = "expired"]
    BY DEF QInv, LeaseExpires
  <1>2. /\ \A g \in Hooks \ {h} : hooks'[g] = hooks[g]
        /\ \A g \in Hooks : hooks'[g].version = hooks[g].version
        /\ hooks'[h].status = "processing" /\ hooks'[h].lease = "expired"
    BY <1>1 DEF TypeOK, Row
  <1>3. /\ \A g \in Hooks : Finishing(g)' = Finishing(g)
        /\ \A w \in Workers : TakenBy(w)' = TakenBy(w)
    BY <1>1 DEF Finishing, FinishingBy, HoldsLease, TakenBy
  <1>4. Phase(hooks[h], Finishing(h)) = "held"
    BY <1>1 DEF Phase
  <1>5. CASE Finishing(h)
    <2>1. Phase(hooks'[h], Finishing(h)') = "held"
      BY <1>2, <1>3, <1>5 DEF Phase
    <2>2. \A g \in Hooks : Phase(hooks'[g], Finishing(g)') = Phase(hooks[g], Finishing(g))
      BY <1>2, <1>3, <1>4, <2>1
    <2>. QED
      BY <1>2, <1>3, <2>2, QueueStutters
  <1>6. CASE ~Finishing(h)
    <2>1. Phase(hooks'[h], Finishing(h)') = "lapsed"
      BY <1>2, <1>3, <1>6 DEF Phase
    <2>2. [g \in Hooks |-> Phase(hooks'[g], Finishing(g)')] =
              [[g \in Hooks |-> Phase(hooks[g], Finishing(g))] EXCEPT ![h] = "lapsed"]
      BY <1>2, <1>3, <2>1
    <2>3. [g \in Hooks |-> hooks'[g].version] = [g \in Hooks |-> hooks[g].version]
      BY <1>2
    <2>4. [v \in Workers |-> TakenBy(v)'] = [v \in Workers |-> TakenBy(v)]
      BY <1>3
    <2>. QED
      BY <1>4, <2>2, <2>3, <2>4 DEF Queue!Lapse
  <1>. QED
    BY <1>5, <1>6

\* A transaction undone: a finish that had the row past its lease loses it after all.
LEMMA RollBackLapses ==
    ASSUME QInv, NEW t \in Callers, RollBack(t)
    PROVE  (\E h \in Hooks : Queue!Lapse(h)) \/ UNCHANGED Queue!vars
  <1>1. /\ TypeOK /\ hooks' = hooks
        /\ Moved(t, NoTx) /\ \A v \in Workers \ {t} : claim'[v] = claim[v]
    BY DEF QInv, RollBack, EndTx, Moved
  <1>2. ASSUME NEW h PROVE ~FinishingBy(t, h)'
    <2>1. tx'[t] = NoTx
      BY <1>1 DEF Moved, TypeOK
    <2>. QED
      BY <2>1, NullsAreApart DEF FinishingBy
  <1>3. ASSUME NEW h \in Hooks, t \in Workers => ~FinishingBy(t, h)
        PROVE  Finishing(h)' = Finishing(h)
    BY <1>1, <1>2, <1>3, FinishingStays
  <1>4. ASSUME NEW w \in Workers PROVE TakenBy(w)' = TakenBy(w)
    <2>1. CASE w = t /\ claim[w] # NoClaim
      <3>1. claim[w] \in Claim /\ claim'[w] = [claim[w] EXCEPT !.step = "failed"]
        BY <1>1, <2>1 DEF RollBack, TypeOK
      <3>2. claim'[w] \in Claim /\ claim'[w].hook = claim[w].hook
            /\ claim'[w].version = claim[w].version
        BY <3>1 DEF Claim
      <3>. QED
        BY <2>1, <3>2, NullsAreApart DEF TakenBy
    <2>2. CASE ~(w = t /\ claim[w] # NoClaim)
      BY <2>2 DEF RollBack, TakenBy
    <2>. QED
      BY <2>1, <2>2
  <1>5. CASE \A h \in Hooks : ~(t \in Workers /\ FinishingBy(t, h)) \/ hooks[h].lease = "live"
    <2>1. \A h \in Hooks : Finishing(h)' = Finishing(h) \/ hooks[h].lease = "live"
      BY <1>3, <1>5
    <2>. QED
      BY <1>1, <1>4, <2>1, QuietStutters
  <1>6. ASSUME NEW h \in Hooks, t \in Workers, FinishingBy(t, h), hooks[h].lease # "live"
        PROVE  Queue!Lapse(h)
    <2>1. /\ tx[t].locked = {h} /\ hooks[h].status = "processing"
          /\ \A v \in Workers : FinishingBy(v, h) => v = t
      BY <1>6, FinishingHolds
    <2>2. \A g \in Hooks \ {h} : Finishing(g)' = Finishing(g)
      BY <1>3, <2>1 DEF FinishingBy
    <2>3. ~Finishing(h)'
      <3>1. ASSUME NEW v \in Workers \ {t} PROVE ~FinishingBy(v, h)'
        BY <1>1, <2>1 DEF FinishingBy, HoldsLease, Moved, TypeOK, Callers
      <3>. QED
        BY <1>2, <3>1 DEF Finishing
    <2>4. Phase(hooks[h], Finishing(h)) = "held" /\ Phase(hooks'[h], Finishing(h)') = "lapsed"
      BY <1>1, <1>6, <2>1, <2>3 DEF Phase, Finishing
    <2>5. [g \in Hooks |-> Phase(hooks'[g], Finishing(g)')] =
              [[g \in Hooks |-> Phase(hooks[g], Finishing(g))] EXCEPT ![h] = "lapsed"]
      <3>1. \A g \in Hooks : Phase(hooks'[g], Finishing(g)') =
                               IF g = h THEN "lapsed" ELSE Phase(hooks[g], Finishing(g))
        BY <1>1, <2>2, <2>4
      <3>. QED
        BY <3>1
    <2>6. [g \in Hooks |-> hooks'[g].version] = [g \in Hooks |-> hooks[g].version]
      BY <1>1
    <2>7. [v \in Workers |-> TakenBy(v)'] = [v \in Workers |-> TakenBy(v)]
      BY <1>4
    <2>. QED
      BY <2>4, <2>5, <2>6, <2>7 DEF Queue!Lapse
  <1>. QED
    BY <1>5, <1>6

\* Webhooks given up, without any change of the rows, by somebody who is not finishing.
LEMMA GivingUpDrops ==
    ASSUME QInv, NEW t \in Callers, Moved(t, NoTx), hooks' = hooks, ForgetClaim(t),
           \A h \in Hooks : ~(t \in Workers /\ FinishingBy(t, h))
    PROVE  \E T \in SUBSET Workers : Queue!Drop(T)
  <1>. DEFINE T == {t} \cap Workers
  <1>1. TypeOK /\ tx'[t] = NoTx
    BY DEF QInv, TypeOK, Moved
  <1>2. ASSUME NEW h \in Hooks PROVE Finishing(h)' = Finishing(h)
    <2>1. ~FinishingBy(t, h)'
      BY <1>1, NullsAreApart DEF FinishingBy
    <2>2. \A v \in Workers \ {t} : claim'[v] = claim[v]
      BY DEF ForgetClaim
    <2>. QED
      BY <1>1, <2>1, <2>2, FinishingStays
  <1>3. \A w \in Workers : TakenBy(w)' = IF w \in T THEN [none |-> "taken"] ELSE TakenBy(w)
    BY DEF ForgetClaim, TakenBy
  <1>4. [h \in Hooks |-> Phase(hooks'[h], Finishing(h)')] =
            [h \in Hooks |-> Phase(hooks[h], Finishing(h))]
    BY <1>2
  <1>5. [v \in Workers |-> TakenBy(v)'] =
            [v \in Workers |-> IF v \in T THEN [none |-> "taken"] ELSE TakenBy(v)]
    BY <1>3
  <1>6. [g \in Hooks |-> hooks'[g].version] = [g \in Hooks |-> hooks[g].version]
    OBVIOUS
  <1>7. Queue!Drop(T)
    <2>. HIDE DEF T
    <2>. QED
      BY <1>4, <1>5, <1>6 DEF Queue!Drop, Queue!Nothing
  <1>. QED
    BY <1>7

\* A refusal drops: a finish that holds the lease finds its attempt and is not refused.
LEMMA RefusalDrops ==
    ASSUME FencedInv, NEW t \in Callers, Refuse(t)
    PROVE  \E T \in SUBSET Workers : Queue!Drop(T)
  <1>1. /\ QInv /\ TypeOK /\ TxOK(t) /\ AttemptIsStored
        /\ Moved(t, NoTx) /\ hooks' = hooks /\ ForgetClaim(t)
    BY DEF FencedInv, QInv, Refuse, EndTx, Moved
  <1>2. ASSUME NEW h \in Hooks, t \in Workers, FinishingBy(t, h) PROVE FALSE
    <2>1. /\ claim[t] \in Claim /\ claim[t].hook = h /\ tx[t].locked = {h}
          /\ claim[t].step = "attempted" /\ tx[t].kind = "finish" /\ HoldsLease(t, tx[t].row)
          /\ hooks[h].status = "processing" /\ hooks[h].version = claim[t].version
      BY <1>1, <1>2, FinishingHolds DEF FinishingBy
    <2>2. Allowed(t)
      BY <2>1 DEF Allowed
    <2>3. tx[t].at = "attempts" /\ ~AttemptFits(t)
      BY <2>2 DEF Refuse
    <2>4. <<h, claim[t].version>> \in open
      BY <1>1, <1>2, <2>1, NullsAreApart DEF AttemptIsStored
    <2>5. <<h, claim[t].version>> \in tx[t].saw
      BY <1>1, <2>1, <2>3, <2>4 DEF TxOK, AttemptsAsSeen
    <2>. QED
      BY <2>1, <2>3, <2>5 DEF AttemptFits
  <1>. QED
    BY <1>1, <1>2, GivingUpDrops

\* A replay or a deletion requeues or removes exactly what it has locked.
LEMMA RequestsChangeTheQueue ==
    ASSUME QInv, NEW r \in Requests, CommitReplay(r) \/ CommitDelete(r)
    PROVE  \E I \in SUBSET Hooks : Queue!Requeue(I) \/ Queue!Remove(I)
  <1>. DEFINE status == IF CommitReplay(r) THEN "queued" ELSE "deleted"
              I == tx[r].locked
  <1>1. Requested(r, status) /\ TypeOK /\ r \in Callers
    BY RequestChanges DEF QInv, Callers
  <1>2. /\ I \subseteq Hooks /\ r \notin Workers /\ Moved(r, NoTx) /\ claim' = claim
        /\ \A h \in I : /\ hooks[h].status \in {"queued", "success", "dead_lettered"}
                        /\ hooks'[h].status = status /\ hooks'[h].version = hooks[h].version
        /\ \A h \in Hooks \ I : hooks'[h] = hooks[h]
    BY <1>1 DEF Requested, Moved
  <1>3. \A h \in Hooks : Finishing(h)' = Finishing(h)
    BY <1>1, <1>2, FinishingStays
  <1>. DEFINE phase == IF CommitReplay(r) THEN "queued" ELSE "gone"
  <1>4. \A h \in I : /\ Phase(hooks[h], Finishing(h)) \in {"queued", "done", "dead"}
                     /\ Phase(hooks'[h], Finishing(h)') = phase
    BY <1>2 DEF Phase
  <1>5. I # {} /\ TxOK(r)
    <2>1. TxOK(r) /\ ReadyToCommit(r)
      BY <1>1 DEF QInv, CommitReplay, CommitDelete
    <2>. QED
      BY <1>1, <2>1, CommitsAllowed
  <1>6. tx[r].kind \in Single => \E h \in Hooks : I = {h}
    BY <1>2, <1>5 DEF TxOK, LocksInOrder
  <1>7. tx[r].kind = "bulk" => \A h \in I : Phase(hooks[h], Finishing(h)) = "dead"
    BY <1>5 DEF TxOK, LockedAsRead, Matches, Phase
  <1>8. tx[r].kind = "cleanup" => \A h \in I : Phase(hooks[h], Finishing(h)) \in {"done", "dead"}
    BY <1>5 DEF TxOK, LockedAsRead, Matches, Phase
  <1>9. IF phase = "queued" THEN tx[r].kind \in {"replay", "bulk"}
                            ELSE tx[r].kind \in {"delete", "cleanup"}
    BY DEF CommitReplay, CommitDelete
  <1>. HIDE DEF I, phase, status
  <1>10. Queue!OneIdle(I) \/ tx[r].kind \notin Single
    BY <1>4, <1>6 DEF Queue!OneIdle
  <1>11. [h \in Hooks |-> Phase(hooks'[h], Finishing(h)')] =
            [h \in Hooks |-> IF h \in I THEN phase ELSE Phase(hooks[h], Finishing(h))]
    BY <1>2, <1>3, <1>4
  <1>12. [h \in Hooks |-> hooks'[h].version] = [h \in Hooks |-> hooks[h].version]
    BY <1>2
  <1>13. [v \in Workers |-> TakenBy(v)'] = [v \in Workers |-> TakenBy(v)]
    BY <1>2 DEF TakenBy
  <1>14. CASE phase = "queued"
    <2>1. Queue!OneIdle(I) \/ \A h \in I : Phase(hooks[h], Finishing(h)) = "dead"
      BY <1>7, <1>9, <1>10, <1>14 DEF Single
    <2>. QED
      BY <1>2, <1>11, <1>12, <1>13, <1>14, <2>1 DEF Queue!Requeue
  <1>15. CASE phase = "gone"
    <2>1. Queue!OneIdle(I) \/ \A h \in I : Phase(hooks[h], Finishing(h)) \in {"done", "dead"}
      BY <1>8, <1>9, <1>10, <1>15 DEF Single
    <2>. QED
      BY <1>2, <1>11, <1>12, <1>13, <1>15, <2>1 DEF Queue!Remove
  <1>16. phase = "queued" \/ phase = "gone"
    BY DEF phase
  <1>. QED
    BY <1>2, <1>14, <1>15, <1>16

\* Storing an attempt changes nothing of the queue: the queue stutters.
LEMMA AttemptStutters ==
    ASSUME QInv, NEW w \in Workers, CommitAttempt(w)
    PROVE  UNCHANGED Queue!vars
  <1>1. Attempted(w, claim[w].hook, claim[w].version) /\ TypeOK /\ tx[w].kind = "create"
    BY AttemptChanges DEF QInv, CommitAttempt, Callers
  <1>2. /\ Moved(w, NoTx) /\ hooks' = hooks /\ w \in Callers /\ tx'[w] = NoTx
        /\ claim[w] \in Claim /\ claim'[w] \in Claim
        /\ claim'[w].hook = claim[w].hook /\ claim'[w].version = claim[w].version
        /\ \A v \in Workers \ {w} : claim'[v] = claim[v]
    BY <1>1 DEF Attempted, Moved, TypeOK, Callers, Claim
  <1>3. \A v \in Workers : TakenBy(v)' = TakenBy(v)
    BY <1>2, NullsAreApart DEF TakenBy
  <1>4. ASSUME NEW h \in Hooks PROVE Finishing(h)' = Finishing(h)
    <2>1. ~FinishingBy(w, h) /\ ~FinishingBy(w, h)'
      BY <1>1, <1>2, NullsAreApart DEF FinishingBy
    <2>. QED
      BY <1>1, <1>2, <2>1, FinishingStays
  <1>. QED
    BY <1>1, <1>2, <1>3, <1>4, QuietStutters

\* A pause or resume is no step of the queue.
LEMMA PauseStutters ==
    ASSUME QInv, NEW s \in Sources, NEW value \in BOOLEAN, SetForwardingPaused(s, value)
    PROVE  UNCHANGED Queue!vars
  <1>1. TypeOK /\ UNCHANGED <<hooks, claim>> /\ Workers \subseteq Callers
    BY DEF QInv, SetForwardingPaused, Callers
  <1>2. \A h \in Hooks, w \in Workers : FinishingBy(w, h)' <=> FinishingBy(w, h)
    BY <1>1, PauseMoves DEF FinishingBy, HoldsLease
  <1>3. \A h \in Hooks : Finishing(h)' = Finishing(h)
    BY <1>2 DEF Finishing
  <1>4. \A w \in Workers : TakenBy(w)' = TakenBy(w)
    BY <1>1 DEF TakenBy
  <1>. QED
    BY <1>1, <1>3, <1>4, QuietStutters

\* Every step of the transactions is one of the queue, or none.
LEMMA QueueSteps ==
    ASSUME FencedInv, FencedInv', [Next]_vars
    PROVE  [Queue!Next]_(Queue!vars)
  <1>1. QInv /\ QInv' /\ TypeOK /\ Workers \subseteq Callers /\ Requests \subseteq Callers
    BY DEF FencedInv, QInv, Callers
  <1>. DEFINE Goal == [Queue!Next]_(Queue!vars)
  <1>2. ASSUME UNCHANGED Queue!vars PROVE Goal
    BY <1>2
  <1>3. ASSUME Queue!Next PROVE Goal
    BY <1>3
  <1>. HIDE DEF Goal
  <1>4. ASSUME NEW w \in Workers, BeginClaim(w) PROVE Goal
    <2>1. PICK new \in Transaction : Moved(w, new) /\ new.locked = {} /\ tx[w] = NoTx
      BY <1>1, <1>4, BeginClaimMoves
    <2>2. UNCHANGED <<hooks, claim>> /\ tx[w].locked = {}
      BY <1>4, <2>1, NullsAreApart DEF BeginClaim
    <2>. QED
      BY <1>1, <1>2, <2>1, <2>2, StatementsStutter
  <1>5. ASSUME NEW w \in Workers, BeginDelivery(w) PROVE Goal
    <2>1. PICK new \in Transaction : Moved(w, new) /\ new.locked = {}
      BY <1>1, <1>5, BeginDeliveryMoves
    <2>2. UNCHANGED <<hooks, claim>> /\ tx[w].locked = {}
      BY <1>1, <1>5, BeginDeliveryMoves, NullsAreApart
    <2>. QED
      BY <1>1, <1>2, <2>1, <2>2, StatementsStutter
  <1>6. ASSUME NEW r \in Requests, NEW kind \in {"replay", "delete", "bulk", "cleanup"},
               NEW wanted \in SUBSET Hooks, BeginRequest(r, kind, wanted)
        PROVE Goal
    <2>1. PICK new \in Transaction : Moved(r, new) /\ new.locked = {}
      <3>1. r \in Callers /\ kind \in Kinds /\ Begin(r, kind, wanted)
        BY <1>1, <1>6 DEF BeginRequest, Kinds, Single
      <3>. QED
        BY <1>1, <3>1, BeginMoves
    <2>2. UNCHANGED <<hooks, claim>> /\ tx[r].locked = {}
      BY <1>6, NullsAreApart DEF BeginRequest, Begin
    <2>. QED
      BY <1>1, <1>2, <2>1, <2>2, StatementsStutter
  <1>7. ASSUME NEW w \in Workers, Snapshot(w) PROVE Goal
    <2>1. PICK new \in Transaction : /\ Moved(w, new) /\ new.locked = tx[w].locked
                                     /\ new.kind = tx[w].kind /\ new.row = tx[w].row
      BY <1>1, <1>7, SnapshotMoves
    <2>2. UNCHANGED <<hooks, claim>>
      BY <1>7 DEF Snapshot
    <2>. QED
      BY <1>1, <1>2, <2>1, <2>2, StatementsStutter
  <1>8. ASSUME NEW t \in Callers, NEW h \in Hooks, LockRow(t, h) PROVE Goal
    <2>1. PICK new \in Transaction :
              /\ Moved(t, new) /\ new.kind = tx[t].kind
              /\ IF CanLock(t, h) THEN new.locked = tx[t].locked \cup {h} /\ new.row = hooks[h]
                                  ELSE new.locked = tx[t].locked /\ new.row = tx[t].row
      BY <1>1, <1>8, LockRowMoves
    <2>2. UNCHANGED <<hooks, claim>> /\ h \in tx[t].todo
      BY <1>8 DEF LockRow, NextRows
    <2>3. tx[t].kind = "finish" => tx[t].locked = {}
      BY <1>1, <2>2 DEF QInv, TxOK, LocksInOrder, Single
    <2>. QED
      BY <1>1, <1>2, <2>1, <2>2, <2>3, StatementsStutter
  <1>9. ASSUME NEW t \in Callers, TouchAttempts(t) PROVE Goal
    <2>1. PICK new \in Transaction : /\ Moved(t, new) /\ new.locked = tx[t].locked
                                     /\ new.kind = tx[t].kind /\ new.row = tx[t].row
      BY <1>1, <1>9, TouchAttemptsMoves
    <2>2. UNCHANGED <<hooks, claim>>
      BY <1>9 DEF TouchAttempts
    <2>. QED
      BY <1>1, <1>2, <2>1, <2>2, StatementsStutter
  <1>10. ASSUME NEW w \in Workers, CommitClaim(w) PROVE Goal
    BY <1>1, <1>3, <1>10, ClaimTakes DEF Queue!Next
  <1>11. ASSUME NEW w \in Workers, CommitAttempt(w) PROVE Goal
    BY <1>1, <1>2, <1>11, AttemptStutters
  <1>12. ASSUME NEW w \in Workers, CommitFinish(w) PROVE Goal
    BY <1>1, <1>3, <1>12, FinishReports DEF Queue!Next
  <1>13. ASSUME NEW w \in Workers, GiveUp(w) PROVE Goal
    <2>1. /\ Moved(w, NoTx) /\ hooks' = hooks /\ ForgetClaim(w)
          /\ \A h \in Hooks : ~FinishingBy(w, h)
      BY <1>1, <1>13, NullsAreApart DEF GiveUp, Moved, TypeOK, FinishingBy
    <2>. QED
      BY <1>1, <1>3, <2>1, GivingUpDrops DEF Queue!Next
  <1>14. ASSUME NEW t \in Callers, Refuse(t) PROVE Goal
    BY <1>3, <1>14, RefusalDrops DEF Queue!Next
  <1>15. ASSUME NEW t \in Callers, RollBack(t) PROVE Goal
    BY <1>1, <1>2, <1>3, <1>15, RollBackLapses DEF Queue!Next
  <1>16. ASSUME NEW r \in Requests, CommitReplay(r) \/ CommitDelete(r) PROVE Goal
    BY <1>1, <1>3, <1>16, RequestsChangeTheQueue DEF Queue!Next
  <1>17. ASSUME NEW h \in Hooks, LeaseExpires(h) PROVE Goal
    BY <1>1, <1>2, <1>3, <1>17, ExpiryLapses DEF Queue!Next
  <1>18. ASSUME NEW s \in Sources, NEW value \in BOOLEAN, SetForwardingPaused(s, value) PROVE Goal
    BY <1>1, <1>2, <1>18, PauseStutters
  <1>19. ASSUME UNCHANGED vars PROVE Goal
    <2>1. \A h \in Hooks : Finishing(h)' = Finishing(h)
      BY <1>19 DEF vars, Finishing, FinishingBy, HoldsLease
    <2>2. hooks' = hooks /\ \A w \in Workers : TakenBy(w)' = TakenBy(w)
      BY <1>19 DEF vars, TakenBy
    <2>. QED
      BY <1>1, <1>2, <2>1, <2>2, QuietStutters
  <1>. QED
    <2>1. Goal
      BY <1>4, <1>5, <1>6, <1>7, <1>8, <1>9, <1>10, <1>11, <1>12, <1>13, <1>14, <1>15, <1>16,
         <1>17, <1>18, <1>19
      DEF Next, WorkerStep, RequestStep, TransactionStep
    <2>. QED
      BY <2>1 DEF Goal

\* StepsOfTheQueue: however the statements of the transactions interleave, the rows are
\* handed out, reported on, requeued and removed as the queue with leases promises.
THEOREM TransactionsImplementTheQueue == Spec => StepsOfTheQueue
  <1>1. FencedInv /\ FencedInv' /\ [Next]_vars => [Queue!Next]_(Queue!vars)
    BY QueueSteps
  <1>. QED
    BY <1>1, Fencing, PTL DEF Spec, StepsOfTheQueue

=============================================================================
