---------------------------- MODULE LoginLimiter ----------------------------
(***************************************************************************)
(* The in-memory login limiter: a map from client address to a shared,      *)
(* mutable entry, and the requests that reserve a slot on an entry before   *)
(* their password check and report the outcome to it afterwards.  Between   *)
(* the two any number of other requests, window ends and sweeps may happen. *)
(*                                                                          *)
(* An entry is a heap object a reservation points to; if the sweep removed  *)
(* the entry from the map, a later request of the same client would get a   *)
(* new object.  The generation of a key tells the objects apart.            *)
(***************************************************************************)
EXTENDS Integers, FiniteSets

CONSTANTS
    Clients,       \* keys of the map: normalised client addresses
    Requests,      \* goroutines serving POST /login
    MaxAttempts,   \* loginMaxAttempts
    Window,        \* loginWindow, in ticks of the clock
    Horizon        \* bound: the clock stops there

ASSUME LimiterAssumption ==
    IsFiniteSet(Requests) /\ MaxAttempts \in Nat \ {0} /\ Window \in Nat \ {0} /\ Horizon \in Nat

VARIABLES
    now,          \* the clock (time zero is Go's zero time)
    entries,      \* limiter.attempts
    generation,   \* which object the map holds, or will hold next, for a client
    nextSweep,    \* limiter.nextSweep
    reservation   \* the *loginReservation of each request

vars == <<now, entries, generation, nextSweep, reservation>>

Entry       == [failures : Nat, pending : Nat, windowEnd : Nat]
Reservation == [client : Clients, generation : Nat, windowEnd : Nat]
Absent      == [no |-> "entry"]
Unreserved  == [no |-> "reservation"]
Outcomes    == {"aborted", "failed", "succeeded"}

Init == /\ now = 1
        /\ entries = [c \in Clients |-> Absent]
        /\ generation = [c \in Clients |-> 0]
        /\ nextSweep = 0
        /\ reservation = [r \in Requests |-> Unreserved]

-----------------------------------------------------------------------------
(* reserve, all of it under the mutex: sweep, find or make the entry, open a  *)
(* new window if the old one ended, and take a slot unless all are taken.     *)

\* (Removable_evenPending and the like, here and below: slips of the code that the
\* properties must notice; no action uses them.)
Removable_evenPending(entry) == now >= entry.windowEnd

Removable(entry) == entry.pending = 0 /\ now >= entry.windowEnd

Swept == {c \in Clients : now >= nextSweep /\ entries[c] # Absent /\ Removable(entries[c])}

EntryFor(c) == IF entries[c] = Absent \/ c \in Swept
               THEN [failures |-> 0, pending |-> 0, windowEnd |-> 0]
               ELSE entries[c]

Opened(c) ==
    IF now >= EntryFor(c).windowEnd
    THEN [EntryFor(c) EXCEPT !.failures = 0, !.windowEnd = now + Window]
    ELSE EntryFor(c)

Full_ignoresPending(entry) == entry.failures >= MaxAttempts

Full_offByOne(entry) ==
    entry.failures >= MaxAttempts \/ entry.failures + entry.pending > MaxAttempts

Full(entry) == entry.failures >= MaxAttempts \/ entry.failures + entry.pending >= MaxAttempts

SweepAndStore(c, entry) ==
    /\ entries' = [d \in Clients |->
                      IF d = c THEN entry ELSE IF d \in Swept THEN Absent ELSE entries[d]]
    /\ generation' = [d \in Clients |-> IF d \in Swept THEN generation[d] + 1 ELSE generation[d]]
    /\ nextSweep' = IF now >= nextSweep THEN now + Window ELSE nextSweep

Reserve(r, c) ==
    /\ reservation[r] = Unreserved
    /\ ~Full(Opened(c))
    /\ SweepAndStore(c, [Opened(c) EXCEPT !.pending = @ + 1])
    /\ reservation' = [reservation EXCEPT ![r] =
           [client |-> c, generation |-> generation'[c], windowEnd |-> Opened(c).windowEnd]]
    /\ UNCHANGED now

\* 429: a refused request still sweeps, and may open a window.
Refuse(c) ==
    /\ Full(Opened(c))
    /\ SweepAndStore(c, Opened(c))
    /\ UNCHANGED <<now, reservation>>

-----------------------------------------------------------------------------
(* finish runs deferred, whichever way the login handler returns.             *)

Counts_anyWindow(res, entry) == TRUE

\* An old request must not change the failures of a newer window.
Counts(res, entry) == now < res.windowEnd /\ entry.windowEnd = res.windowEnd

Finished(res, entry, outcome) ==
    [entry EXCEPT
        !.pending = @ - 1,
        !.failures = IF ~Counts(res, entry) THEN @
                     ELSE CASE outcome = "failed" -> @ + 1
                            [] outcome = "succeeded" -> 0
                            [] OTHER -> @]

Attached(res) == /\ entries[res.client] # Absent
                 /\ generation[res.client] = res.generation

Finish_twice(r, outcome) ==
    LET res == reservation[r] IN
    /\ res # Unreserved
    /\ entries' = [entries EXCEPT ![res.client] = Finished(res, @, outcome)]
    /\ UNCHANGED <<now, generation, nextSweep, reservation>>

\* A reservation of an object the map no longer holds reports to nobody.
Finish(r, outcome) ==
    LET res == reservation[r] IN
    /\ res # Unreserved
    /\ entries' = IF Attached(res)
                  THEN [entries EXCEPT ![res.client] = Finished(res, @, outcome)]
                  ELSE entries
    /\ reservation' = [reservation EXCEPT ![r] = Unreserved]
    /\ UNCHANGED <<now, generation, nextSweep>>

Tick == /\ now < Horizon
        /\ now' = now + 1
        /\ UNCHANGED <<entries, generation, nextSweep, reservation>>

Next == \/ \E r \in Requests, c \in Clients : Reserve(r, c)
        \/ \E c \in Clients : Refuse(c)
        \/ \E r \in Requests, outcome \in Outcomes : Finish(r, outcome)
        \/ Tick

Spec == Init /\ [][Next]_vars

-----------------------------------------------------------------------------
(* Properties.                                                                *)

\* Every variable has its type.
TypeOK ==
    /\ now \in Nat
    /\ entries \in [Clients -> Entry \cup {Absent}]
    /\ generation \in [Clients -> Nat]
    /\ nextSweep \in Nat
    /\ reservation \in [Requests -> Reservation \cup {Unreserved}]

\* Recorded failures and checks in flight never exceed the limit together, so that
\* between two successes no more than the limit can fail in a window, however they
\* interleave.  (A success forgets the failures before it.)
SlotsBounded ==
    \A c \in Clients : entries[c] # Absent => entries[c].failures + entries[c].pending <= MaxAttempts

\* A slot is held exactly while a request holds a reservation: none leaks when windows
\* end or entries are swept, and none is returned to an object outside the map.
SlotsAreReservations ==
    /\ \A r \in Requests : reservation[r] # Unreserved => Attached(reservation[r])
    /\ \A c \in Clients : entries[c] # Absent =>
           entries[c].pending = Cardinality({r \in Requests : reservation[r] # Unreserved
                                                               /\ reservation[r].client = c})

\* Failures change only with a new window, which starts from none, or through a
\* request that reserved and finishes within the entry's current window.
OldRequestsDoNotCount ==
    [][\A c \in Clients :
          (entries[c] # Absent /\ entries'[c] # Absent /\ generation'[c] = generation[c]
             /\ entries'[c].failures # entries[c].failures) =>
          \/ entries'[c].failures = 0 /\ entries'[c].windowEnd > entries[c].windowEnd
          \/ \E r \in Requests : /\ reservation[r] # Unreserved /\ reservation'[r] = Unreserved
                                 /\ reservation[r].client = c
                                 /\ reservation[r].windowEnd = entries[c].windowEnd
                                 /\ now < entries[c].windowEnd]_vars

\* A client that reached the limit is refused until its window ends: nothing that was
\* in flight can lift the block, and no new check starts.
LockoutHolds ==
    [][\A c \in Clients :
          (entries[c] # Absent /\ entries[c].failures >= MaxAttempts /\ now < entries[c].windowEnd) =>
             /\ entries'[c] = entries[c]
             /\ \A r \in Requests :
                    (reservation[r] = Unreserved /\ reservation'[r] # Unreserved)
                        => reservation'[r].client # c]_vars

=============================================================================
