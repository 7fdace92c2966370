----------------------------- MODULE Lifecycle ------------------------------
(***************************************************************************)
(* The life of the webhookhub process: run() in cmd/webhookhub/main.go.     *)
(* A process reads its configuration, makes the admin account match it      *)
(* (EnsureAdmin, statement by statement: two processes may do it at once),  *)
(* serves requests while its goroutines deliver and clean up, and stops:    *)
(* the HTTP server drains, the goroutines are cancelled and waited for, and *)
(* the database is closed, all under one deadline.  Whatever ended it, the  *)
(* container is started again.                                              *)
(*                                                                          *)
(* Of a delivery only the phases matter in which cancellation or a closed   *)
(* database does something different to it.                                 *)
(***************************************************************************)
EXTENDS Naturals, Sequences, FiniteSets

CONSTANTS
    Processes,         \* containers, more than one during a deployment
    Pool,              \* delivery goroutines of a process
    Configs,           \* values of ADMIN_EMAIL and ADMIN_PASSWORD: [email, password]
    RetentionEnabled,  \* RETENTION_ENABLED
    ShutdownTimeout,   \* SHUTDOWN_TIMEOUT, in ticks
    MaxRequests,       \* bound: HTTP requests of a process at a time
    MaxInterference    \* bound: crashes, signals, failed finalizations, new configurations

ASSUME LifecycleAssumption ==
    /\ \A c \in Configs : DOMAIN c = {"email", "password"}
    /\ RetentionEnabled \in BOOLEAN
    /\ ShutdownTimeout \in Nat \ {0}
    /\ MaxRequests \in Nat /\ MaxInterference \in Nat

VARIABLES
    env,        \* the configuration a starting process gets
    users,      \* table users in order of id; rows are never deleted
    pc,         \* where run() is
    config,     \* the configuration the process loaded
    found,      \* the user EnsureAdmin read: its id and the row as read
    requests,   \* HTTP requests in progress
    pool,       \* the delivery goroutines
    retention,  \* the retention goroutine
    cancelled,  \* workerCtx is cancelled
    clock,      \* ticks since the shutdown began
    deadline,   \* of shutdownCtx, on that clock
    lost,       \* history: clock readings at which stopping cut a request or a result off
    spent       \* used part of MaxInterference

account == <<env, users, config, found>>
serving == <<requests, pool, retention>>
ending  == <<cancelled, clock, deadline>>
vars    == <<account, pc, serving, ending, lost, spent>>

NoUser == [id |-> 0, row |-> [none |-> "user"]]
Stages == {"down", "looking", "counting", "creating", "checking",
           "serving", "draining", "waiting"}

Interfere == spent < MaxInterference /\ spent' = spent + 1

Init == /\ env \in Configs
        /\ users = <<>>
        /\ pc        = [p \in Processes |-> "down"]
        /\ config    \in [Processes -> {env}]
        /\ found     = [p \in Processes |-> NoUser]
        /\ requests  = [p \in Processes |-> 0]
        /\ pool      = [p \in Processes |-> [g \in Pool |-> "returned"]]
        /\ retention = [p \in Processes |-> "returned"]
        /\ cancelled = [p \in Processes |-> FALSE]
        /\ clock     = [p \in Processes |-> 0]
        /\ deadline  = [p \in Processes |-> 0]
        /\ lost      = [p \in Processes |-> {}]
        /\ spent     = 0

Goto(p, stage) == pc' = [pc EXCEPT ![p] = stage]

-----------------------------------------------------------------------------
(* Starting: the configuration, and EnsureAdmin.                             *)

\* (Start_poolFirst and the like, here and below: slips of the code that the properties
\* must notice; no action uses them.)
Start_poolFirst(p) ==
    /\ pc[p] = "down"
    /\ Goto(p, "looking")
    /\ config' = [config EXCEPT ![p] = env]
    /\ pool' = [pool EXCEPT ![p] = [g \in Pool |-> "idle"]]
    /\ UNCHANGED <<env, users, found, requests, retention, ending, lost, spent>>

\* loadConfig and storage.Open.
Start(p) ==
    /\ pc[p] = "down"
    /\ Goto(p, "looking")
    /\ config' = [config EXCEPT ![p] = env]
    /\ UNCHANGED <<env, users, found, serving, ending, lost, spent>>

FindByEmail(p) ==
    LET ids == {i \in DOMAIN users : users[i].email = config[p].email} IN
    /\ pc[p] = "looking"
    /\ IF ids = {}
       THEN Goto(p, "counting") /\ UNCHANGED found
       ELSE /\ Goto(p, "checking")
            /\ \E i \in ids : found' = [found EXCEPT ![p] = [id |-> i, row |-> users[i]]]
    /\ UNCHANGED <<env, users, config, serving, ending, lost, spent>>

CountUsers_mustMatch(p) ==
    /\ pc[p] = "counting"
    /\ Goto(p, IF Len(users) = 0 THEN "creating" ELSE "down")
    /\ UNCHANGED <<env, users, config, found, serving, ending, lost, spent>>

\* A single user is the admin of an earlier configuration.  (More than one: run()
\* returns the error.)
CountUsers(p) ==
    /\ pc[p] = "counting"
    /\ CASE Len(users) = 0 -> Goto(p, "creating") /\ UNCHANGED found
         [] Len(users) = 1 -> /\ Goto(p, "checking")
                              /\ found' = [found EXCEPT ![p] = [id |-> 1, row |-> users[1]]]
         [] OTHER          -> Goto(p, "down") /\ UNCHANGED found
    /\ UNCHANGED <<env, users, config, serving, ending, lost, spent>>

\* The rest of run(): the pool, retention and the server are started.
Serve(p) ==
    /\ Goto(p, "serving")
    /\ pool' = [pool EXCEPT ![p] = [g \in Pool |-> "idle"]]
    /\ retention' = [retention EXCEPT ![p] = IF RetentionEnabled THEN "running" ELSE @]
    /\ found' = [found EXCEPT ![p] = NoUser]
    /\ UNCHANGED <<env, config, requests, ending, lost, spent>>

Fail(p) ==
    /\ Goto(p, "down")
    /\ found' = [found EXCEPT ![p] = NoUser]
    /\ UNCHANGED <<env, users, config, serving, ending, lost, spent>>

\* The unique index on email.
Taken(email, id) == \E i \in DOMAIN users : i # id /\ users[i].email = email

CreateAdmin(p) ==
    /\ pc[p] = "creating"
    /\ IF Taken(config[p].email, 0)
       THEN Fail(p)
       ELSE Serve(p) /\ users' = Append(users, config[p])

\* The password is right: nothing is written.
AcceptAdmin(p) ==
    /\ pc[p] = "checking"
    /\ found[p].row.password = config[p].password
    /\ Serve(p)
    /\ UNCHANGED users

UpdateAdmin(p) ==
    /\ pc[p] = "checking"
    /\ found[p].row.password # config[p].password
    /\ IF Taken(config[p].email, found[p].id)
       THEN Fail(p)
       ELSE Serve(p) /\ users' = [users EXCEPT ![found[p].id] = config[p]]

-----------------------------------------------------------------------------
(* Serving: requests, deliveries, retention.                                 *)

Running(p) == pc[p] \in {"serving", "draining", "waiting"}

AcceptRequest(p) ==
    /\ pc[p] = "serving" /\ requests[p] < MaxRequests
    /\ requests' = [requests EXCEPT ![p] = @ + 1]
    /\ UNCHANGED <<account, pc, pool, retention, ending, lost, spent>>

AnswerRequest(p) ==
    /\ requests[p] > 0
    /\ requests' = [requests EXCEPT ![p] = @ - 1]
    /\ UNCHANGED <<account, pc, pool, retention, ending, lost, spent>>

Advance(p, g, from, to) ==
    /\ pool[p][g] = from
    /\ pool' = [pool EXCEPT ![p][g] = to]
    /\ UNCHANGED <<account, pc, requests, retention, ending>>

ClaimWebhook(p, g) ==
    ~cancelled[p] /\ Advance(p, g, "idle", "claimed") /\ UNCHANGED <<lost, spent>>

\* The loop of runWorker ends.
ReturnWorker(p, g) ==
    cancelled[p] /\ Advance(p, g, "idle", "returned") /\ UNCHANGED <<lost, spent>>

\* The rule is loaded and the attempt created, under the context of the pool.
Prepare(p, g) ==
    ~cancelled[p] /\ Advance(p, g, "claimed", "exchanging") /\ UNCHANGED <<lost, spent>>

\* One of the two failed, or the context is over: the lease is left to run out.
AbandonClaim(p, g) == Advance(p, g, "claimed", "idle") /\ UNCHANGED <<lost, spent>>

\* The target answered, the exchange failed, or cancellation ended it.
EndExchange(p, g) == Advance(p, g, "exchanging", "finishing") /\ UNCHANGED <<lost, spent>>

CutOff(p) == lost' = [lost EXCEPT ![p] = @ \cup {clock[p]}]

StoreResult_sameContext(p, g) ==
    /\ Advance(p, g, "finishing", "idle")
    /\ IF cancelled[p] THEN CutOff(p) ELSE UNCHANGED lost
    /\ UNCHANGED spent

\* finishCtx is detached from the cancellation of the pool.
StoreResult(p, g) == Advance(p, g, "finishing", "idle") /\ UNCHANGED <<lost, spent>>

\* FinishDelivery fails, whether the process stops or not: the database, a lease that
\* was lost, the end of the reserve.  The result is given up.
LoseResult(p, g) == Interfere /\ Advance(p, g, "finishing", "idle") /\ UNCHANGED lost

\* The loop of retention ends, after the cleanup it may be in, which the context ends.
ReturnRetention(p) ==
    /\ retention[p] = "running" /\ cancelled[p]
    /\ retention' = [retention EXCEPT ![p] = "returned"]
    /\ UNCHANGED <<account, pc, requests, pool, ending, lost, spent>>

-----------------------------------------------------------------------------
(* Stopping.                                                                 *)

\* SIGTERM or a failed listener: shutdownCtx starts, and server.Shutdown with it.
BeginShutdown(p) ==
    /\ pc[p] = "serving"
    /\ Goto(p, "draining")
    /\ deadline' = [deadline EXCEPT ![p] = ShutdownTimeout]
    /\ UNCHANGED <<account, serving, cancelled, clock, lost>>

Signal(p) == Interfere /\ BeginShutdown(p)

\* A container whose configuration is no longer the one in .env is replaced.
Recreate(p) == config[p] # env /\ BeginShutdown(p) /\ UNCHANGED spent

\* Both operations under shutdownCtx end with it.
Tick(p) ==
    /\ pc[p] \in {"draining", "waiting"} /\ clock[p] < deadline[p]
    /\ clock' = [clock EXCEPT ![p] = @ + 1]
    /\ UNCHANGED <<account, pc, serving, cancelled, deadline, lost, spent>>

Expired(p) == clock[p] = deadline[p]

StopWorkers_atOnce(p) ==
    /\ pc[p] = "draining"
    /\ Goto(p, "waiting")
    /\ cancelled' = [cancelled EXCEPT ![p] = TRUE]
    /\ UNCHANGED <<account, serving, clock, deadline, lost, spent>>

StopWorkers_newDeadline(p) ==
    /\ pc[p] = "draining"
    /\ requests[p] = 0 \/ Expired(p)
    /\ Goto(p, "waiting")
    /\ cancelled' = [cancelled EXCEPT ![p] = TRUE]
    /\ deadline' = [deadline EXCEPT ![p] = clock[p] + ShutdownTimeout]
    /\ UNCHANGED <<account, serving, clock, lost, spent>>

\* server.Shutdown returned: no request is left, or the deadline passed.
StopWorkers(p) ==
    /\ pc[p] = "draining"
    /\ requests[p] = 0 \/ Expired(p)
    /\ Goto(p, "waiting")
    /\ cancelled' = [cancelled EXCEPT ![p] = TRUE]
    /\ UNCHANGED <<account, serving, clock, deadline, lost, spent>>

WorkersDone(p) == /\ \A g \in Pool : pool[p][g] = "returned"
                  /\ retention[p] = "returned"

Reset(p) ==
    /\ Goto(p, "down")
    /\ requests'  = [requests  EXCEPT ![p] = 0]
    /\ pool'      = [pool      EXCEPT ![p] = [g \in Pool |-> "returned"]]
    /\ retention' = [retention EXCEPT ![p] = "returned"]
    /\ found'     = [found     EXCEPT ![p] = NoUser]
    /\ cancelled' = [cancelled EXCEPT ![p] = FALSE]
    /\ clock'     = [clock     EXCEPT ![p] = 0]
    /\ deadline'  = [deadline  EXCEPT ![p] = 0]

\* waitForWorkers returns, the database is closed, and the process exits, with whatever
\* is still in progress.
Exit(p) ==
    /\ pc[p] = "waiting"
    /\ WorkersDone(p) \/ Expired(p)
    /\ IF requests[p] > 0 \/ \E g \in Pool : pool[p][g] \in {"exchanging", "finishing"}
       THEN CutOff(p) ELSE UNCHANGED lost
    /\ Reset(p)
    /\ UNCHANGED <<env, users, config, spent>>

Crash(p) ==
    /\ pc[p] # "down"
    /\ Interfere
    /\ Reset(p)
    /\ UNCHANGED <<env, users, config, lost>>

\* Another ADMIN_EMAIL or ADMIN_PASSWORD in .env, at any moment.
Reconfigure(c) ==
    /\ Interfere
    /\ env' = c
    /\ UNCHANGED <<users, config, found, pc, serving, ending, lost>>

-----------------------------------------------------------------------------
EnsureAdmin(p) == \/ FindByEmail(p)
                  \/ CountUsers(p)
                  \/ CreateAdmin(p)
                  \/ AcceptAdmin(p)
                  \/ UpdateAdmin(p)

Deliver(p, g) == \/ ClaimWebhook(p, g)
                 \/ Prepare(p, g)
                 \/ AbandonClaim(p, g)
                 \/ EndExchange(p, g)
                 \/ StoreResult(p, g)
                 \/ LoseResult(p, g)
                 \/ ReturnWorker(p, g)

Shutdown(p) == \/ Tick(p)
               \/ StopWorkers(p)
               \/ Exit(p)

Next == \/ \E p \in Processes : Start(p)
        \/ \E p \in Processes : EnsureAdmin(p)
        \/ \E p \in Processes : AcceptRequest(p)
        \/ \E p \in Processes : AnswerRequest(p)
        \/ \E p \in Processes, g \in Pool : Deliver(p, g)
        \/ \E p \in Processes : ReturnRetention(p)
        \/ \E p \in Processes : Signal(p)
        \/ \E p \in Processes : Recreate(p)
        \/ \E p \in Processes : Shutdown(p)
        \/ \E p \in Processes : Crash(p)
        \/ \E c \in Configs : Reconfigure(c)

Spec == Init /\ [][Next]_vars

\* A process keeps executing run(), its container is started again whenever it ends
\* (restart: unless-stopped), and replaced when its configuration is out of date.
Fairness == \A p \in Processes : /\ WF_vars(Start(p))
                                 /\ WF_vars(EnsureAdmin(p))
                                 /\ WF_vars(Recreate(p))
                                 /\ WF_vars(Shutdown(p))

FairSpec == Spec /\ Fairness

-----------------------------------------------------------------------------
(* Properties.                                                               *)

\* Each process is where run() can be, with goroutines only while it is running.
TypeOK ==
    /\ env \in Configs
    /\ users \in Seq(Configs)
    /\ pc \in [Processes -> Stages]
    /\ config \in [Processes -> Configs]
    /\ \A p \in Processes : \/ found[p] = NoUser
                            \/ found[p].id \in DOMAIN users /\ found[p].row \in Configs
    /\ requests \in [Processes -> 0 .. MaxRequests]
    /\ pool \in [Processes -> [Pool -> {"idle", "claimed", "exchanging", "finishing", "returned"}]]
    /\ retention \in [Processes -> {"running", "returned"}]
    /\ cancelled \in [Processes -> BOOLEAN]
    /\ clock \in [Processes -> Nat] /\ deadline \in [Processes -> Nat]
    /\ lost \in [Processes -> SUBSET Nat]
    /\ spent \in 0 .. MaxInterference
    /\ \A p \in Processes : ~Running(p) => WorkersDone(p) /\ requests[p] = 0

\* "Workers stop during graceful shutdown, bounded by SHUTDOWN_TIMEOUT": draining and
\* waiting together take no longer than that, and until all of it has passed, stopping
\* cuts nothing off: not a request that was accepted, and no result of an exchange that
\* was begun, neither by cancelling the pool nor by closing the database.  (A
\* finalization that fails by itself loses its result at any time.)
ShutdownIsBoundedAndOrderly ==
    \A p \in Processes : clock[p] <= ShutdownTimeout /\ lost[p] \subseteq {ShutdownTimeout}

\* "The single admin."
OneAdmin == Len(users) <= 1

\* As long as there is no second user, processes that start at once, fail at the unique
\* index or overtake each other with old configurations all end up serving with the
\* configuration in .env, and its password is the one of the account: no restart loop,
\* and no process that is late puts an earlier password back for good.
AdminSettles ==
    []OneAdmin => <>[](/\ \A p \in Processes : Running(p) /\ config[p] = env
                       /\ users[1].password = env.password)

\* "On startup WebhookHub creates the single admin or updates that account to match
\* the configured values."
AccountMatchesConfig ==
    [][\A p \in Processes :
          (~Running(p) /\ Running(p)') => \E i \in DOMAIN users' : users'[i] = config'[p]]_vars

=============================================================================
