--------------------------- MODULE LifecycleProofs ---------------------------
(***************************************************************************)
(* Machine-checked theorems about Lifecycle: for any number of processes,   *)
(* goroutines, configurations and disturbances, and any SHUTDOWN_TIMEOUT.   *)
(***************************************************************************)
EXTENDS Lifecycle, SequenceTheorems, TLAPS

\* The users and what the processes know of them.
AccountOK ==
    /\ env \in Configs
    /\ users \in Seq(Configs)
    /\ config \in [Processes -> Configs]
    /\ \A p \in Processes : \/ found[p] = NoUser
                            \/ found[p].id \in DOMAIN users /\ found[p].row \in Configs
    /\ DOMAIN found = Processes

\* Where the processes and their goroutines are.
ServingOK ==
    /\ pc \in [Processes -> Stages]
    /\ requests \in [Processes -> 0 .. MaxRequests]
    /\ pool \in [Processes -> [Pool -> {"idle", "claimed", "exchanging", "finishing", "returned"}]]
    /\ retention \in [Processes -> {"running", "returned"}]
    /\ cancelled \in [Processes -> BOOLEAN]
    /\ spent \in 0 .. MaxInterference

\* Only a running process has goroutines and requests.
IdleUnlessRunning == \A p \in Processes : ~Running(p) => WorkersDone(p) /\ requests[p] = 0

\* A deadline stands exactly during a shutdown and is never moved, the clock stops at
\* it, and nothing is cut off before it has come.
ClocksOK ==
    /\ clock \in [Processes -> Nat] /\ deadline \in [Processes -> Nat]
    /\ lost \in [Processes -> SUBSET Nat]
    /\ \A p \in Processes :
          /\ deadline[p] = IF pc[p] \in {"draining", "waiting"} THEN ShutdownTimeout ELSE 0
          /\ clock[p] <= deadline[p]
          /\ lost[p] \subseteq {ShutdownTimeout}

\* Whoever waits for the goroutines has let the requests end, or is out of time.
Drained == \A p \in Processes : pc[p] = "waiting" => requests[p] = 0 \/ Expired(p)

PInv == AccountOK /\ ServingOK /\ IdleUnlessRunning /\ ClocksOK /\ Drained

-----------------------------------------------------------------------------
\* Replacing a row of the table keeps its ids.
LEMMA ReplacedRow ==
    ASSUME NEW table \in Seq(Configs), NEW i, NEW row \in Configs
    PROVE  /\ [table EXCEPT ![i] = row] \in Seq(Configs)
           /\ DOMAIN [table EXCEPT ![i] = row] = DOMAIN table
  <1>. DEFINE new == [table EXCEPT ![i] = row]
  <1>1. Len(table) \in Nat /\ DOMAIN table = 1 .. Len(table) /\ \A k \in 1 .. Len(table) : table[k] \in Configs
    OBVIOUS
  <1>2. DOMAIN new = 1 .. Len(table) /\ new \in [1 .. Len(table) -> Configs]
    BY <1>1
  <1>. HIDE DEF new
  <1>3. new \in Seq(Configs)
    BY <1>1, <1>2
  <1>. QED
    BY <1>1, <1>2, <1>3 DEF new

\* Appending a row keeps the ids there are.
LEMMA AppendedRow ==
    ASSUME NEW table \in Seq(Configs), NEW row \in Configs
    PROVE  /\ Append(table, row) \in Seq(Configs)
           /\ DOMAIN table \subseteq DOMAIN Append(table, row)
  <1>1. Append(table, row) \in Seq(Configs) /\ Len(Append(table, row)) = Len(table) + 1
    OBVIOUS
  <1>. QED
    BY <1>1

\* What a step that leaves the account alone owes.
LEMMA AccountUntouched ==
    ASSUME AccountOK, UNCHANGED account
    PROVE  AccountOK'
  BY DEF AccountOK, account

\* A process is the only one that its own steps move.
LEMMA Moves ==
    ASSUME PInv, NEW p \in Processes, NEW stage \in Stages, Goto(p, stage)
    PROVE  /\ pc' \in [Processes -> Stages] /\ pc'[p] = stage
           /\ \A q \in Processes \ {p} : pc'[q] = pc[q]
  BY DEF PInv, ServingOK, Goto

\* A process stays where its goroutines need it to be: it starts or fails to.
LEMMA StartingStep ==
    ASSUME PInv, NEW p \in Processes,
           NEW from \in {"down", "looking", "counting", "creating", "checking"},
           NEW to \in {"down", "looking", "counting", "creating", "checking"},
           pc[p] = from, Goto(p, to), UNCHANGED <<serving, ending, lost, spent>>
    PROVE  ServingOK' /\ IdleUnlessRunning' /\ ClocksOK' /\ Drained'
  <1>1. /\ pc' \in [Processes -> Stages] /\ pc'[p] = to
        /\ \A q \in Processes \ {p} : pc'[q] = pc[q]
    BY Moves DEF Stages
  <1>2. ServingOK'
    BY <1>1 DEF PInv, ServingOK, serving, ending
  <1>3. IdleUnlessRunning'
    BY <1>1 DEF PInv, IdleUnlessRunning, Running, WorkersDone, serving
  <1>4. ClocksOK'
    BY <1>1 DEF PInv, ClocksOK, ending
  <1>5. Drained'
    BY <1>1 DEF PInv, Drained, Expired, ending, serving
  <1>. QED
    BY <1>2, <1>3, <1>4, <1>5

\* The start of the pool, retention and the server; the account is the caller's.
LEMMA ServeStep ==
    ASSUME PInv, NEW p \in Processes, pc[p] \in {"creating", "checking"}, Serve(p)
    PROVE  ServingOK' /\ IdleUnlessRunning' /\ ClocksOK' /\ Drained'
  <1>1. /\ pc' \in [Processes -> Stages] /\ pc'[p] = "serving"
        /\ \A q \in Processes \ {p} : pc'[q] = pc[q]
    BY Moves DEF Stages, Serve
  <1>2. ServingOK'
    BY <1>1 DEF PInv, ServingOK, Serve, ending
  <1>3. IdleUnlessRunning'
    BY <1>1 DEF PInv, IdleUnlessRunning, Running, WorkersDone, Serve, ServingOK
  <1>4. ClocksOK'
    BY <1>1 DEF PInv, ClocksOK, ending, Serve
  <1>5. Drained'
    BY <1>1 DEF PInv, Drained, Expired, ending, Serve
  <1>. QED
    BY <1>2, <1>3, <1>4, <1>5

\* Steps of requests, deliveries and retention: the process stays where it is, and
\* nothing begins in one that is not running, nor a request in one that waits.
LEMMA ServingStep ==
    ASSUME PInv, ServingOK', UNCHANGED <<account, pc, ending, lost>>,
           \A p \in Processes : ~Running(p) => UNCHANGED <<requests[p], pool[p], retention[p]>>,
           \A p \in Processes : pc[p] = "waiting" /\ requests[p] = 0 => requests'[p] = 0
    PROVE  PInv'
  <1>1. IdleUnlessRunning'
    BY DEF PInv, IdleUnlessRunning, Running, WorkersDone
  <1>2. ClocksOK'
    BY DEF PInv, ClocksOK, ending
  <1>3. Drained'
    BY DEF PInv, Drained, Expired, ending
  <1>. QED
    BY <1>1, <1>2, <1>3, AccountUntouched DEF PInv

\* The end of a process, by itself or not.
LEMMA ResetStep ==
    ASSUME PInv, NEW p \in Processes, Reset(p), UNCHANGED <<env, users, config>>,
           spent' \in 0 .. MaxInterference,
           lost' \in [Processes -> SUBSET Nat],
           \A q \in Processes : lost'[q] \subseteq {ShutdownTimeout}
    PROVE  PInv'
  <1>1. /\ pc' \in [Processes -> Stages] /\ pc'[p] = "down"
        /\ \A q \in Processes \ {p} : pc'[q] = pc[q]
    BY Moves DEF Stages, Reset
  <1>2. AccountOK'
    BY DEF PInv, AccountOK, Reset
  <1>3. ServingOK'
    <2>1. 0 \in 0 .. MaxRequests
      BY LifecycleAssumption
    <2>. QED
      BY <1>1, <2>1 DEF PInv, ServingOK, Reset
  <1>4. IdleUnlessRunning'
    BY <1>1 DEF PInv, IdleUnlessRunning, Running, WorkersDone, Reset, ServingOK
  <1>5. ClocksOK'
    <2>1. /\ clock \in [Processes -> Nat] /\ clock' = [clock EXCEPT ![p] = 0]
          /\ deadline \in [Processes -> Nat] /\ deadline' = [deadline EXCEPT ![p] = 0]
      BY DEF PInv, ClocksOK, Reset
    <2>2. clock' \in [Processes -> Nat] /\ deadline' \in [Processes -> Nat]
      BY <2>1
    <2>3. ASSUME NEW q \in Processes
          PROVE  /\ deadline'[q] = IF pc'[q] \in {"draining", "waiting"} THEN ShutdownTimeout ELSE 0
                 /\ clock'[q] <= deadline'[q]
      BY <1>1, <2>1 DEF PInv, ClocksOK
    <2>. QED
      BY <2>2, <2>3 DEF ClocksOK
  <1>6. Drained'
    <2>1. /\ requests \in [Processes -> 0 .. MaxRequests]
          /\ clock \in [Processes -> Nat] /\ deadline \in [Processes -> Nat]
      BY DEF PInv, ServingOK, ClocksOK
    <2>2. \A q \in Processes \ {p} : UNCHANGED <<requests[q], clock[q], deadline[q]>>
      BY <2>1 DEF Reset
    <2>. QED
      BY <1>1, <2>2 DEF PInv, Drained, Expired
  <1>. QED
    BY <1>2, <1>3, <1>4, <1>5, <1>6 DEF PInv

\* A disturbance stays within their number.
LEMMA Interferences == ASSUME PInv, Interfere PROVE spent' \in 0 .. MaxInterference
  BY LifecycleAssumption DEF PInv, ServingOK, Interfere

-----------------------------------------------------------------------------
\* EnsureAdmin, statement by statement.
LEMMA EnsureAdminKeeps ==
    ASSUME PInv, NEW p \in Processes, EnsureAdmin(p)
    PROVE  PInv'
  <1>. USE DEF PInv
  <1>1. CASE FindByEmail(p)
    <2>. DEFINE ids == {i \in DOMAIN users : users[i].email = config[p].email}
    <2>1. CASE ids = {}
      <3>1. Goto(p, "counting") /\ UNCHANGED found
        BY <1>1, <2>1 DEF FindByEmail
      <3>2. AccountOK'
        BY <1>1, <3>1 DEF FindByEmail, AccountOK
      <3>. QED
        BY <1>1, <3>1, <3>2, StartingStep DEF FindByEmail
    <2>2. CASE ids # {}
      <3>1. /\ Goto(p, "checking")
            /\ \E i \in ids : found' = [found EXCEPT ![p] = [id |-> i, row |-> users[i]]]
        BY <1>1, <2>2 DEF FindByEmail
      <3>2. PICK i \in DOMAIN users : found' = [found EXCEPT ![p] = [id |-> i, row |-> users[i]]]
        BY <3>1
      <3>3. users[i] \in Configs
        BY <3>2 DEF AccountOK
      <3>4. AccountOK'
        BY <1>1, <3>2, <3>3 DEF FindByEmail, AccountOK
      <3>. QED
        BY <1>1, <3>1, <3>4, StartingStep DEF FindByEmail
    <2>. QED
      BY <2>1, <2>2
  <1>2. CASE CountUsers(p)
    <2>1. UNCHANGED <<env, users, config, serving, ending, lost, spent>> /\ pc[p] = "counting"
      BY <1>2 DEF CountUsers
    <2>2. CASE Len(users) = 0
      <3>1. Goto(p, "creating") /\ UNCHANGED found
        BY <1>2, <2>2 DEF CountUsers
      <3>2. AccountOK'
        BY <2>1, <3>1 DEF AccountOK
      <3>. QED
        BY <2>1, <3>1, <3>2, StartingStep
    <2>3. CASE Len(users) = 1
      <3>1. Goto(p, "checking") /\ found' = [found EXCEPT ![p] = [id |-> 1, row |-> users[1]]]
        BY <1>2, <2>3 DEF CountUsers
      <3>2. 1 \in DOMAIN users /\ users[1] \in Configs
        <4>1. users \in Seq(Configs) /\ DOMAIN users = 1 .. Len(users)
          BY DEF AccountOK
        <4>2. DOMAIN users = 1 .. 1
          BY <2>3, <4>1, Zenon
        <4>3. 1 \in DOMAIN users
          <5>1. 1 \in 1 .. 1
            OBVIOUS
          <5>. QED
            BY <4>2, <5>1, Zenon
        <4>4. \A i \in 1 .. Len(users) : users[i] \in Configs
          BY <4>1
        <4>. QED
          BY <4>1, <4>3, <4>4, Zenon
      <3>3. AccountOK'
        BY <2>1, <3>1, <3>2 DEF AccountOK
      <3>. QED
        BY <2>1, <3>1, <3>3, StartingStep
    <2>4. CASE Len(users) # 0 /\ Len(users) # 1
      <3>1. Goto(p, "down") /\ UNCHANGED found
        BY <1>2, <2>4 DEF CountUsers
      <3>2. AccountOK'
        BY <2>1, <3>1 DEF AccountOK
      <3>. QED
        BY <2>1, <3>1, <3>2, StartingStep
    <2>. QED
      BY <2>2, <2>3, <2>4
  <1>3. ASSUME Fail(p), pc[p] \in {"creating", "checking"} PROVE PInv'
    <2>1. AccountOK'
      BY <1>3 DEF Fail, AccountOK
    <2>. QED
      BY <1>3, <2>1, StartingStep DEF Fail
  <1>4. ASSUME Serve(p), pc[p] \in {"creating", "checking"},
               users' \in Seq(Configs), DOMAIN users \subseteq DOMAIN users'
        PROVE  PInv'
    <2>1. AccountOK'
      BY <1>4 DEF Serve, AccountOK
    <2>. QED
      BY <1>4, <2>1, ServeStep
  <1>5. config[p] \in Configs /\ users \in Seq(Configs)
    BY DEF AccountOK
  <1>6. CASE CreateAdmin(p)
    BY <1>3, <1>4, <1>5, <1>6, AppendedRow DEF CreateAdmin
  <1>7. CASE AcceptAdmin(p)
    BY <1>4, <1>5, <1>7 DEF AcceptAdmin
  <1>8. CASE UpdateAdmin(p)
    BY <1>3, <1>4, <1>5, <1>8, ReplacedRow DEF UpdateAdmin
  <1>. QED
    BY <1>1, <1>2, <1>6, <1>7, <1>8 DEF EnsureAdmin

\* A step of a delivery.
LEMMA AdvanceKeeps ==
    ASSUME PInv, NEW p \in Processes, NEW g \in Pool,
           NEW from \in {"idle", "claimed", "exchanging", "finishing"},
           NEW to \in {"idle", "claimed", "exchanging", "finishing", "returned"},
           Advance(p, g, from, to), UNCHANGED lost, spent' \in 0 .. MaxInterference
    PROVE  PInv'
  <1>1. ServingOK'
    BY DEF Advance, PInv, ServingOK, ending
  <1>2. Running(p)
    BY DEF Advance, PInv, IdleUnlessRunning, WorkersDone
  <1>3. \A q \in Processes : ~Running(q) => UNCHANGED <<requests[q], pool[q], retention[q]>>
    BY <1>2 DEF Advance, PInv, ServingOK
  <1>4. \A q \in Processes : pc[q] = "waiting" /\ requests[q] = 0 => requests'[q] = 0
    BY DEF Advance
  <1>. QED
    BY <1>1, <1>3, <1>4, ServingStep DEF Advance

\* Deliveries, whichever step they are at.
LEMMA DeliverKeeps ==
    ASSUME PInv, NEW p \in Processes, NEW g \in Pool, Deliver(p, g)
    PROVE  PInv'
  <1>1. CASE LoseResult(p, g)
    BY <1>1, Interferences, AdvanceKeeps DEF LoseResult
  <1>2. CASE ~LoseResult(p, g)
    <2>1. spent' \in 0 .. MaxInterference
      BY <1>2 DEF Deliver, ClaimWebhook, ReturnWorker, Prepare, AbandonClaim, EndExchange,
                  StoreResult, PInv, ServingOK
    <2>. QED
      BY <1>2, <2>1, AdvanceKeeps
         DEF Deliver, ClaimWebhook, ReturnWorker, Prepare, AbandonClaim, EndExchange, StoreResult
  <1>. QED
    BY <1>1, <1>2

\* Requests come and go while the process runs.
LEMMA RequestsKeep ==
    ASSUME PInv, NEW p \in Processes, AcceptRequest(p) \/ AnswerRequest(p)
    PROVE  PInv'
  <1>1. Running(p)
    BY DEF AcceptRequest, AnswerRequest, PInv, IdleUnlessRunning, Running
  <1>2. ServingOK'
    <2>1. requests \in [Processes -> 0 .. MaxRequests] /\ MaxRequests \in Nat
      BY LifecycleAssumption DEF PInv, ServingOK
    <2>2. requests' \in [Processes -> 0 .. MaxRequests]
      <3>1. CASE AcceptRequest(p)
        BY <2>1, <3>1 DEF AcceptRequest
      <3>2. CASE AnswerRequest(p)
        BY <2>1, <3>2 DEF AnswerRequest
      <3>. QED
        BY <3>1, <3>2
    <2>. QED
      BY <2>2 DEF AcceptRequest, AnswerRequest, PInv, ServingOK, ending
  <1>3. \A q \in Processes : ~Running(q) => UNCHANGED <<requests[q], pool[q], retention[q]>>
    BY <1>1 DEF AcceptRequest, AnswerRequest, PInv, ServingOK
  <1>4. \A q \in Processes : pc[q] = "waiting" /\ requests[q] = 0 => requests'[q] = 0
    BY DEF AcceptRequest, AnswerRequest, PInv, ServingOK
  <1>. QED
    BY <1>2, <1>3, <1>4, ServingStep DEF AcceptRequest, AnswerRequest

\* Retention returns.
LEMMA ReturnRetentionKeeps ==
    ASSUME PInv, NEW p \in Processes, ReturnRetention(p)
    PROVE  PInv'
  <1>1. Running(p)
    BY DEF ReturnRetention, PInv, IdleUnlessRunning, WorkersDone
  <1>2. ServingOK'
    BY DEF ReturnRetention, PInv, ServingOK, ending
  <1>3. \A q \in Processes : ~Running(q) => UNCHANGED <<requests[q], pool[q], retention[q]>>
    BY <1>1 DEF ReturnRetention, PInv, ServingOK
  <1>. QED
    BY <1>2, <1>3, ServingStep DEF ReturnRetention

\* The deadline is set once, when the shutdown begins.
LEMMA BeginShutdownKeeps ==
    ASSUME PInv, NEW p \in Processes, BeginShutdown(p), spent' \in 0 .. MaxInterference
    PROVE  PInv'
  <1>1. /\ pc' \in [Processes -> Stages] /\ pc'[p] = "draining" /\ pc[p] = "serving"
        /\ \A q \in Processes \ {p} : pc'[q] = pc[q]
    BY Moves DEF Stages, BeginShutdown
  <1>2. AccountOK'
    BY AccountUntouched DEF PInv, BeginShutdown
  <1>3. ServingOK'
    BY <1>1 DEF PInv, ServingOK, BeginShutdown, serving
  <1>4. IdleUnlessRunning'
    BY <1>1 DEF PInv, IdleUnlessRunning, Running, WorkersDone, BeginShutdown, serving
  <1>5. ClocksOK'
    BY <1>1, LifecycleAssumption DEF PInv, ClocksOK, BeginShutdown
  <1>6. Drained'
    <2>1. \A q \in Processes \ {p} : UNCHANGED <<requests[q], clock[q], deadline[q]>>
      BY DEF BeginShutdown, serving, PInv, ClocksOK
    <2>. QED
      BY <1>1, <2>1 DEF PInv, Drained, Expired
  <1>. QED
    BY <1>2, <1>3, <1>4, <1>5, <1>6 DEF PInv

\* Draining, waiting and the end: both waits share the deadline, and something is cut
\* off only when it was still in progress by then.
LEMMA ShutdownKeeps ==
    ASSUME PInv, NEW p \in Processes, Shutdown(p)
    PROVE  PInv'
  <1>. USE DEF PInv
  <1>1. CASE Tick(p)
    <2>1. AccountOK' /\ ServingOK' /\ IdleUnlessRunning'
      BY <1>1, AccountUntouched
         DEF Tick, ServingOK, IdleUnlessRunning, Running, WorkersDone, serving
    <2>2. ClocksOK'
      BY <1>1 DEF Tick, ClocksOK
    <2>3. Drained'
      <3>1. \A q \in Processes : pc[q] = "waiting" /\ Expired(q) => UNCHANGED clock[q]
        BY <1>1 DEF Tick, Expired, ClocksOK
      <3>. QED
        BY <1>1, <3>1 DEF Tick, Drained, Expired, serving
    <2>. QED
      BY <2>1, <2>2, <2>3
  <1>2. CASE StopWorkers(p)
    <2>1. /\ pc' \in [Processes -> Stages] /\ pc'[p] = "waiting" /\ pc[p] = "draining"
          /\ \A q \in Processes \ {p} : pc'[q] = pc[q]
      BY <1>2, Moves DEF Stages, StopWorkers
    <2>2. AccountOK'
      BY <1>2, AccountUntouched DEF StopWorkers
    <2>3. ServingOK'
      BY <1>2, <2>1 DEF StopWorkers, ServingOK, serving
    <2>4. IdleUnlessRunning'
      BY <1>2, <2>1 DEF StopWorkers, IdleUnlessRunning, Running, WorkersDone, serving
    <2>5. ClocksOK'
      BY <1>2, <2>1 DEF StopWorkers, ClocksOK
    <2>6. Drained'
      BY <1>2, <2>1 DEF StopWorkers, Drained, Expired, serving
    <2>. QED
      BY <2>2, <2>3, <2>4, <2>5, <2>6
  <1>3. CASE Exit(p)
    <2>1. Reset(p) /\ UNCHANGED <<env, users, config, spent>> /\ pc[p] = "waiting"
      BY <1>3 DEF Exit
    <2>. DEFINE cut == requests[p] > 0 \/ \E g \in Pool : pool[p][g] \in {"exchanging", "finishing"}
    <2>2. CASE cut
      <3>1. Expired(p)
        <4>1. CASE requests[p] > 0
          BY <2>1, <4>1 DEF Drained
        <4>2. CASE \E g \in Pool : pool[p][g] \in {"exchanging", "finishing"}
          BY <1>3, <4>2 DEF Exit, WorkersDone
        <4>. QED
          BY <2>2, <4>1, <4>2
      <3>2. clock[p] = ShutdownTimeout
        BY <2>1, <3>1 DEF Expired, ClocksOK
      <3>3. lost' = [lost EXCEPT ![p] = @ \cup {ShutdownTimeout}]
        BY <1>3, <2>2, <3>2 DEF Exit, CutOff
      <3>4. /\ lost' \in [Processes -> SUBSET Nat]
            /\ \A q \in Processes : lost'[q] \subseteq {ShutdownTimeout}
        BY <3>3, LifecycleAssumption DEF ClocksOK
      <3>. QED
        BY <2>1, <3>4, ResetStep DEF ServingOK
    <2>3. CASE ~cut
      <3>1. lost' = lost
        BY <1>3, <2>3 DEF Exit
      <3>. QED
        BY <2>1, <3>1, ResetStep DEF ServingOK, ClocksOK
    <2>. QED
      BY <2>2, <2>3
  <1>. QED
    BY <1>1, <1>2, <1>3 DEF Shutdown

-----------------------------------------------------------------------------
\* The inductive invariant: types, idleness of what does not run, the one deadline, and
\* what may still be in progress under it.
THEOREM LifecycleInvariance == Spec => []PInv
<1>1. Init => PInv
  <2>. SUFFICES ASSUME Init PROVE PInv
    OBVIOUS
  <2>1. AccountOK
    BY DEF Init, AccountOK
  <2>2. ServingOK
    BY LifecycleAssumption DEF Init, ServingOK, Stages
  <2>3. IdleUnlessRunning
    BY DEF Init, IdleUnlessRunning, WorkersDone
  <2>4. ClocksOK
    BY DEF Init, ClocksOK
  <2>5. Drained
    BY DEF Init, Drained
  <2>. QED
    BY <2>1, <2>2, <2>3, <2>4, <2>5 DEF PInv
<1>2. PInv /\ [Next]_vars => PInv'
  <2>. SUFFICES ASSUME PInv, [Next]_vars PROVE PInv'
    OBVIOUS
  <2>1. ASSUME NEW p \in Processes, Start(p) PROVE PInv'
    <3>1. AccountOK'
      BY <2>1 DEF Start, PInv, AccountOK
    <3>. QED
      BY <2>1, <3>1, StartingStep DEF Start, PInv
  <2>2. ASSUME NEW p \in Processes, Signal(p) PROVE PInv'
    BY <2>2, Interferences, BeginShutdownKeeps DEF Signal
  <2>3. ASSUME NEW p \in Processes, Recreate(p) PROVE PInv'
    BY <2>3, BeginShutdownKeeps DEF Recreate, PInv, ServingOK
  <2>4. ASSUME NEW p \in Processes, Crash(p) PROVE PInv'
    BY <2>4, Interferences, ResetStep DEF Crash, PInv, ClocksOK
  <2>5. ASSUME NEW c \in Configs, Reconfigure(c) PROVE PInv'
    <3>1. AccountOK'
      BY <2>5 DEF Reconfigure, PInv, AccountOK
    <3>2. ServingOK'
      BY <2>5, Interferences DEF Reconfigure, PInv, ServingOK, serving, ending
    <3>3. IdleUnlessRunning' /\ ClocksOK' /\ Drained'
      BY <2>5 DEF Reconfigure, PInv, IdleUnlessRunning, Running, WorkersDone, ClocksOK,
                  Drained, Expired, serving, ending
    <3>. QED
      BY <3>1, <3>2, <3>3 DEF PInv
  <2>6. CASE UNCHANGED vars
    BY <2>6, AccountUntouched
       DEF vars, PInv, ServingOK, IdleUnlessRunning, Running, WorkersDone, ClocksOK, Drained,
           Expired, serving, ending
  <2>. QED
    BY <2>1, <2>2, <2>3, <2>4, <2>5, <2>6, EnsureAdminKeeps, DeliverKeeps, RequestsKeep,
       ReturnRetentionKeeps, ShutdownKeeps DEF Next
<1>. QED
  BY <1>1, <1>2, PTL DEF Spec

\* TypeOK: each process is where run() can be, with goroutines only while it runs.
THEOREM LifecycleTypes == Spec => []TypeOK
<1>1. PInv => TypeOK
  BY DEF PInv, TypeOK, AccountOK, ServingOK, IdleUnlessRunning, ClocksOK
<1>. QED
  BY <1>1, LifecycleInvariance, PTL

\* ShutdownIsBoundedAndOrderly: draining and waiting share one deadline, and before it
\* has come stopping cuts off neither a request nor the result of an exchange.
THEOREM ShutdownStaysBounded == Spec => []ShutdownIsBoundedAndOrderly
<1>1. PInv => ShutdownIsBoundedAndOrderly
  BY LifecycleAssumption DEF PInv, ClocksOK, ShutdownIsBoundedAndOrderly
<1>. QED
  BY <1>1, LifecycleInvariance, PTL

=============================================================================
