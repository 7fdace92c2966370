------------------------- MODULE LoginLimiterProofs -------------------------
(***************************************************************************)
(* Machine-checked theorems about LoginLimiter: for any number of clients   *)
(* and of requests in flight, any limit and any window.                     *)
(***************************************************************************)
EXTENDS LoginLimiter, FiniteSetTheorems, TLAPS

\* The requests that hold a slot of a client's entry.
Held(c) == {r \in Requests : reservation[r] # Unreserved /\ reservation[r].client = c}

\* The three invariants need each other: a sweep detaches no reservation because the
\* entries it removes have no slot taken, and a slot taken is a reservation.
LInv == TypeOK /\ SlotsBounded /\ SlotsAreReservations

-----------------------------------------------------------------------------
\* "No entry" and "no reservation" are recognised by having none of the fields.
LEMMA NullsAreApart == Absent \notin Entry /\ Unreserved \notin Reservation
  <1>1. "no" \in DOMAIN Absent /\ \A e \in Entry : "no" \notin DOMAIN e
    BY DEF Absent, Entry
  <1>2. "no" \in DOMAIN Unreserved /\ \A r \in Reservation : "no" \notin DOMAIN r
    BY DEF Unreserved, Reservation
  <1>. QED
    BY <1>1, <1>2

\* Slots are counted by the reservations, which are finitely many.
LEMMA HeldIsFinite == \A c \in Clients : IsFiniteSet(Held(c)) /\ Cardinality(Held(c)) \in Nat
  <1>. SUFFICES ASSUME NEW c \in Clients
                PROVE  IsFiniteSet(Held(c)) /\ Cardinality(Held(c)) \in Nat
    OBVIOUS
  <1>1. Held(c) \in SUBSET Requests
    BY DEF Held
  <1>2. IsFiniteSet(Held(c))
    BY <1>1, FS_Subset, LimiterAssumption
  <1>. QED
    BY <1>2, FS_CardinalityType

\* An entry has as many slots taken as requests hold, an absent one none; a sweep
\* removes only entries without any.
LEMMA SlotsHeld ==
    ASSUME LInv, NEW c \in Clients
    PROVE  /\ entries[c] # Absent => entries[c] \in Entry /\ entries[c].pending = Cardinality(Held(c))
           /\ entries[c] = Absent => Held(c) = {}
           /\ c \in Swept => entries[c] # Absent /\ now >= entries[c].windowEnd /\ Held(c) = {}
  <1>1. entries[c] # Absent => entries[c] \in Entry /\ entries[c].pending = Cardinality(Held(c))
    BY DEF LInv, TypeOK, SlotsAreReservations, Held
  <1>2. entries[c] = Absent => Held(c) = {}
    BY DEF LInv, SlotsAreReservations, Attached, Held
  <1>3. c \in Swept => entries[c] # Absent /\ entries[c].pending = 0 /\ now >= entries[c].windowEnd
    BY DEF Swept, Removable
  <1>4. c \in Swept => Held(c) = {}
    BY <1>1, <1>3, HeldIsFinite, FS_EmptySet
  <1>. QED
    BY <1>1, <1>2, <1>3, <1>4

\* A new window changes the failures and the end of an entry.
LEMMA NewWindowEntry ==
    ASSUME NEW e \in Entry, NEW end \in Nat
    PROVE  [e EXCEPT !.failures = 0, !.windowEnd = end]
             = [failures |-> 0, pending |-> e.pending, windowEnd |-> end]
  <1>0. PICK f : f = [e EXCEPT !.failures = 0]
    OBVIOUS
  <1>1. [e EXCEPT !.failures = 0, !.windowEnd = end] = [f EXCEPT !.windowEnd = end]
    BY <1>0
  <1>2. f = [failures |-> 0, pending |-> e.pending, windowEnd |-> e.windowEnd]
    BY <1>0 DEF Entry
  <1>3. f \in Entry /\ f.failures = 0 /\ f.pending = e.pending
    BY <1>2 DEF Entry
  <1>4. [f EXCEPT !.windowEnd = end]
          = [failures |-> f.failures, pending |-> f.pending, windowEnd |-> end]
    BY <1>3 DEF Entry
  <1>. QED
    BY <1>1, <1>3, <1>4, Zenon

\* finish gives one slot back, and adds one failure at most.
LEMMA FinishedEntry ==
    ASSUME NEW e \in Entry, NEW res, NEW outcome \in Outcomes
    PROVE  \E failures \in 0 .. e.failures + 1 :
              /\ Finished(res, e, outcome)
                    = [failures |-> failures, pending |-> e.pending - 1, windowEnd |-> e.windowEnd]
              /\ failures # e.failures => Counts(res, e)
  <1>. DEFINE failures == IF ~Counts(res, e) THEN e.failures
                          ELSE CASE outcome = "failed" -> e.failures + 1
                                 [] outcome = "succeeded" -> 0
                                 [] OTHER -> e.failures
  <1>1. /\ failures \in 0 .. e.failures + 1
        /\ failures # e.failures => Counts(res, e)
    <2>1. e.failures \in Nat
      BY DEF Entry
    <2>. QED
      BY <2>1
  <1>2. Finished(res, e, outcome) = [e EXCEPT !.pending = e.pending - 1, !.failures = failures]
    BY DEF Finished
  <1>. HIDE DEF failures
  <1>3. [e EXCEPT !.pending = e.pending - 1, !.failures = failures]
          = [failures |-> failures, pending |-> e.pending - 1, windowEnd |-> e.windowEnd]
    <2>0. PICK f : f = [e EXCEPT !.pending = e.pending - 1]
      OBVIOUS
    <2>1. [e EXCEPT !.pending = e.pending - 1, !.failures = failures] = [f EXCEPT !.failures = failures]
      BY <2>0
    <2>2. f = [failures |-> e.failures, pending |-> e.pending - 1, windowEnd |-> e.windowEnd]
      BY <2>0 DEF Entry
    <2>3. /\ f \in [failures : Nat, pending : Int, windowEnd : Nat]
          /\ f.pending = e.pending - 1 /\ f.windowEnd = e.windowEnd
      BY <2>2 DEF Entry
    <2>4. [f EXCEPT !.failures = failures]
            = [failures |-> failures, pending |-> f.pending, windowEnd |-> f.windowEnd]
      BY <2>3
    <2>. QED
      BY <2>1, <2>3, <2>4, Zenon
  <1>. QED
    BY <1>1, <1>2, <1>3

\* What reserve finds or makes: an entry within the limit, its window still open, and
\* with the slots that requests of the client hold.
LEMMA OpenedEntry ==
    ASSUME LInv, NEW c \in Clients
    PROVE  /\ Opened(c) \in Entry
           /\ Opened(c).pending = Cardinality(Held(c))
           /\ Opened(c).failures + Opened(c).pending <= MaxAttempts
           /\ entries[c] # Absent /\ now < entries[c].windowEnd => Opened(c) = entries[c]
           /\ (entries[c] # Absent /\ c \notin Swept
                 /\ Opened(c).failures # entries[c].failures)
                => Opened(c).failures = 0 /\ Opened(c).windowEnd > entries[c].windowEnd
  <1>. DEFINE entry == EntryFor(c)
  <1>. USE NullsAreApart, LimiterAssumption
  <1>1. now \in Nat
    BY DEF LInv, TypeOK
  <1>2. CASE entries[c] = Absent \/ c \in Swept
    <2>1. entry = [failures |-> 0, pending |-> 0, windowEnd |-> 0]
      BY <1>2 DEF EntryFor
    <2>2. Opened(c) = [failures |-> 0, pending |-> 0, windowEnd |-> now + Window]
      <3>1. entry \in Entry /\ now + Window \in Nat /\ now >= entry.windowEnd
        BY <1>1, <2>1 DEF Entry
      <3>2. Opened(c) = [entry EXCEPT !.failures = 0, !.windowEnd = now + Window]
        BY <3>1 DEF Opened
      <3>. HIDE DEF entry
      <3>3. Opened(c) = [failures |-> 0, pending |-> entry.pending, windowEnd |-> now + Window]
        BY <3>1, <3>2, NewWindowEntry, Zenon
      <3>. QED
        BY <2>1, <3>3
    <2>3. Held(c) = {} /\ Cardinality(Held(c)) = 0
      BY <1>2, SlotsHeld, FS_EmptySet
    <2>4. entries[c] # Absent => now >= entries[c].windowEnd /\ entries[c].windowEnd \in Nat
      BY <1>2, SlotsHeld DEF Entry
    <2>. QED
      BY <1>1, <1>2, <2>2, <2>3, <2>4 DEF Entry
  <1>3. CASE entries[c] # Absent /\ c \notin Swept
    <2>1. entry = entries[c] /\ entry \in Entry /\ entry.pending = Cardinality(Held(c))
      BY <1>3, SlotsHeld DEF EntryFor
    <2>2. entry.failures + entry.pending <= MaxAttempts
      BY <1>3, <2>1 DEF LInv, SlotsBounded
    <2>3. Opened(c) = IF now >= entry.windowEnd
                      THEN [failures |-> 0, pending |-> entry.pending, windowEnd |-> now + Window]
                      ELSE entry
      <3>1. now + Window \in Nat
        BY <1>1
      <3>2. Opened(c) = IF now >= entry.windowEnd
                        THEN [entry EXCEPT !.failures = 0, !.windowEnd = now + Window]
                        ELSE entry
        BY DEF Opened
      <3>. HIDE DEF entry
      <3>. QED
        BY <2>1, <3>1, <3>2, NewWindowEntry, Zenon
    <2>. HIDE DEF entry
    <2>. QED
      BY <1>1, <1>3, <2>1, <2>2, <2>3 DEF Entry
  <1>. QED
    BY <1>2, <1>3

\* A sweep and a store keep the other clients' invariants, whatever is stored.
LEMMA SweepKeepsOthers ==
    ASSUME LInv, NEW c \in Clients, NEW entry \in Entry, SweepAndStore(c, entry)
    PROVE  /\ entries' \in [Clients -> Entry \cup {Absent}]
           /\ generation' \in [Clients -> Nat]
           /\ nextSweep' \in Nat
           /\ entries'[c] = entry
           /\ \A d \in Clients : d # c => entries'[d] = IF d \in Swept THEN Absent ELSE entries[d]
           /\ \A d \in Clients : Held(d) # {} => generation'[d] = generation[d]
  <1>1. \A d \in Clients : Held(d) # {} => d \notin Swept
    BY SlotsHeld
  <1>. QED
    BY <1>1, LimiterAssumption DEF SweepAndStore, LInv, TypeOK

-----------------------------------------------------------------------------
\* A request that takes a slot.
LEMMA ReserveKeeps ==
    ASSUME LInv, NEW r \in Requests, NEW c \in Clients, Reserve(r, c)
    PROVE  LInv'
  <1>. DEFINE entry == [Opened(c) EXCEPT !.pending = @ + 1]
              res   == [client |-> c, generation |-> generation'[c],
                        windowEnd |-> Opened(c).windowEnd]
  <1>. USE NullsAreApart, LimiterAssumption
  <1>1. /\ Opened(c) \in Entry /\ Opened(c).pending = Cardinality(Held(c))
        /\ ~Full(Opened(c))
    BY OpenedEntry DEF Reserve
  <1>2. /\ entry \in Entry /\ entry.pending = Cardinality(Held(c)) + 1
        /\ entry.failures + entry.pending <= MaxAttempts
    BY <1>1 DEF Entry, Full
  <1>3. SweepAndStore(c, entry)
    BY DEF Reserve
  <1>4. /\ now' = now /\ reservation[r] = Unreserved
        /\ reservation' = [reservation EXCEPT ![r] = res]
    BY DEF Reserve
  <1>. HIDE DEF entry
  <1>5. /\ entries' \in [Clients -> Entry \cup {Absent}]
        /\ generation' \in [Clients -> Nat]
        /\ nextSweep' \in Nat
        /\ entries'[c] = entry
        /\ \A d \in Clients : d # c => entries'[d] = IF d \in Swept THEN Absent ELSE entries[d]
        /\ \A d \in Clients : Held(d) # {} => generation'[d] = generation[d]
    BY <1>2, <1>3, SweepKeepsOthers
  <1>6. res \in Reservation /\ res.client = c /\ res.generation = generation'[c]
    BY <1>1, <1>5 DEF Reservation, Entry
  <1>. HIDE DEF res
  <1>7. reservation \in [Requests -> Reservation \cup {Unreserved}]
    BY DEF LInv, TypeOK
  <1>8. Held(c)' = Held(c) \cup {r} /\ r \notin Held(c)
    BY <1>4, <1>6, <1>7 DEF Held
  <1>9. \A d \in Clients : d # c => Held(d)' = Held(d)
    BY <1>4, <1>6, <1>7 DEF Held
  <1>10. TypeOK'
    BY <1>4, <1>5, <1>6 DEF LInv, TypeOK
  <1>11. SlotsBounded'
    BY <1>2, <1>5 DEF LInv, SlotsBounded
  <1>12. ASSUME NEW q \in Requests, reservation'[q] # Unreserved
         PROVE  Attached(reservation[q])'
    <2>1. CASE q = r
      BY <1>2, <1>4, <1>5, <1>6, <1>7, <2>1 DEF Attached
    <2>2. CASE q # r
      <3>. DEFINE d == reservation[q].client
      <3>1. reservation'[q] = reservation[q] /\ reservation[q] \in Reservation /\ d \in Clients
        BY <1>4, <1>7, <1>12, <2>2 DEF Reservation
      <3>2. Attached(reservation[q]) /\ q \in Held(d)
        BY <1>12, <3>1 DEF LInv, SlotsAreReservations, Held
      <3>3. d \notin Swept
        BY <3>1, <3>2, SlotsHeld
      <3>4. entries'[d] # Absent /\ generation'[d] = generation[d]
        BY <1>2, <1>5, <3>1, <3>2, <3>3 DEF Attached
      <3>. QED
        BY <3>1, <3>2, <3>4 DEF Attached
    <2>. QED
      BY <2>1, <2>2
  <1>13. ASSUME NEW d \in Clients, entries'[d] # Absent
         PROVE  entries'[d].pending = Cardinality(Held(d)')
    <2>1. CASE d = c
      <3>1. IsFiniteSet(Held(c)) /\ Cardinality(Held(c) \cup {r}) = Cardinality(Held(c)) + 1
        BY <1>8, HeldIsFinite, FS_AddElement
      <3>. QED
        BY <1>2, <1>5, <1>8, <2>1, <3>1
    <2>2. CASE d # c
      <3>1. entries'[d] = entries[d]
        BY <1>5, <1>13, <2>2
      <3>. QED
        BY <1>9, <1>13, <2>2, <3>1, SlotsHeld
    <2>. QED
      BY <2>1, <2>2
  <1>14. SlotsAreReservations'
    BY <1>12, <1>13 DEF SlotsAreReservations, Held
  <1>. QED
    BY <1>10, <1>11, <1>14 DEF LInv

\* A refused request.
LEMMA RefuseKeeps ==
    ASSUME LInv, NEW c \in Clients, Refuse(c)
    PROVE  LInv'
  <1>. DEFINE entry == Opened(c)
  <1>. USE NullsAreApart, LimiterAssumption
  <1>1. /\ entry \in Entry /\ entry.pending = Cardinality(Held(c))
        /\ entry.failures + entry.pending <= MaxAttempts
    BY OpenedEntry
  <1>2. SweepAndStore(c, entry) /\ now' = now /\ reservation' = reservation
    BY DEF Refuse
  <1>. HIDE DEF entry
  <1>3. /\ entries' \in [Clients -> Entry \cup {Absent}]
        /\ generation' \in [Clients -> Nat]
        /\ nextSweep' \in Nat
        /\ entries'[c] = entry
        /\ \A d \in Clients : d # c => entries'[d] = IF d \in Swept THEN Absent ELSE entries[d]
        /\ \A d \in Clients : Held(d) # {} => generation'[d] = generation[d]
    BY <1>1, <1>2, SweepKeepsOthers
  <1>4. \A d \in Clients : Held(d)' = Held(d)
    BY <1>2 DEF Held
  <1>5. TypeOK'
    BY <1>2, <1>3 DEF LInv, TypeOK
  <1>6. SlotsBounded'
    BY <1>1, <1>3 DEF LInv, SlotsBounded
  <1>7. ASSUME NEW q \in Requests, reservation[q] # Unreserved
        PROVE  Attached(reservation[q])'
    <2>. DEFINE d == reservation[q].client
    <2>1. reservation'[q] = reservation[q] /\ d \in Clients
      BY <1>2, <1>7 DEF LInv, TypeOK, Reservation
    <2>2. Attached(reservation[q]) /\ q \in Held(d)
      BY <1>7 DEF LInv, SlotsAreReservations, Held
    <2>3. d \notin Swept
      BY <2>1, <2>2, SlotsHeld
    <2>4. entries'[d] # Absent /\ generation'[d] = generation[d]
      BY <1>1, <1>3, <2>1, <2>2, <2>3 DEF Attached
    <2>. QED
      BY <2>1, <2>2, <2>4 DEF Attached
  <1>8. ASSUME NEW d \in Clients, entries'[d] # Absent
        PROVE  entries'[d].pending = Cardinality(Held(d)')
    BY <1>1, <1>3, <1>4, <1>8, SlotsHeld
  <1>9. SlotsAreReservations'
    BY <1>2, <1>7, <1>8 DEF SlotsAreReservations, Held
  <1>. QED
    BY <1>5, <1>6, <1>9 DEF LInv

\* A request that gives its slot back, whatever the outcome.
LEMMA FinishKeeps ==
    ASSUME LInv, NEW r \in Requests, NEW outcome \in Outcomes, Finish(r, outcome)
    PROVE  LInv'
  <1>. PICK res : res = reservation[r]
    OBVIOUS
  <1>. PICK c : c = res.client
    OBVIOUS
  <1>. DEFINE new == Finished(res, entries[c], outcome)
  <1>. USE NullsAreApart, LimiterAssumption
  <1>1. /\ res \in Reservation /\ c \in Clients /\ r \in Held(c) /\ Attached(res)
        /\ reservation' = [reservation EXCEPT ![r] = Unreserved]
        /\ UNCHANGED <<now, generation, nextSweep>>
    BY DEF Finish, LInv, TypeOK, SlotsAreReservations, Held, Reservation
  <1>2. entries' = [entries EXCEPT ![c] = new]
    BY <1>1 DEF Finish
  <1>3. entries[c] \in Entry /\ entries[c].pending = Cardinality(Held(c))
    BY <1>1, SlotsHeld DEF Attached
  <1>4. /\ IsFiniteSet(Held(c)) /\ Cardinality(Held(c)) \in Nat \ {0}
        /\ Cardinality(Held(c) \ {r}) = Cardinality(Held(c)) - 1
    BY <1>1, HeldIsFinite, FS_EmptySet, FS_RemoveElement
  <1>5. /\ new \in Entry
        /\ new.pending = entries[c].pending - 1
        /\ new.failures + new.pending <= entries[c].failures + entries[c].pending
    BY <1>3, <1>4, FinishedEntry DEF Entry
  <1>. HIDE DEF new
  <1>6. /\ entries' \in [Clients -> Entry \cup {Absent}] /\ entries'[c] = new
        /\ \A d \in Clients \ {c} : entries'[d] = entries[d]
    BY <1>1, <1>2, <1>5 DEF LInv, TypeOK
  <1>7. reservation \in [Requests -> Reservation \cup {Unreserved}]
    BY DEF LInv, TypeOK
  <1>8. \A q \in Requests : reservation'[q] # Unreserved => q # r /\ reservation'[q] = reservation[q]
    BY <1>1, <1>7
  <1>9. Held(c)' = Held(c) \ {r}
    BY <1>1, <1>7 DEF Held
  <1>10. \A d \in Clients \ {c} : Held(d)' = Held(d)
    BY <1>1, <1>7 DEF Held
  <1>11. TypeOK'
    BY <1>1, <1>6, <1>7 DEF LInv, TypeOK
  <1>12. entries[c].failures + entries[c].pending <= MaxAttempts
    BY <1>1 DEF LInv, SlotsBounded, Attached
  <1>13. new.failures + new.pending <= MaxAttempts
    BY <1>3, <1>5, <1>12 DEF Entry
  <1>14. SlotsBounded'
    BY <1>6, <1>13 DEF LInv, SlotsBounded
  <1>15. ASSUME NEW q \in Requests, reservation'[q] # Unreserved
         PROVE  Attached(reservation[q])'
    <2>1. Attached(reservation[q]) /\ reservation'[q] = reservation[q] /\ reservation[q].client \in Clients
      BY <1>7, <1>8, <1>15 DEF LInv, SlotsAreReservations, Reservation
    <2>. QED
      BY <1>1, <1>5, <1>6, <2>1 DEF Attached
  <1>16. ASSUME NEW d \in Clients, entries'[d] # Absent
         PROVE  entries'[d].pending = Cardinality(Held(d)')
    <2>1. CASE d = c
      BY <1>3, <1>4, <1>5, <1>6, <1>9, <2>1
    <2>2. CASE d # c
      BY <1>6, <1>10, <1>16, <2>2, SlotsHeld
    <2>. QED
      BY <2>1, <2>2
  <1>17. SlotsAreReservations'
    BY <1>15, <1>16 DEF SlotsAreReservations, Held
  <1>. QED
    BY <1>11, <1>14, <1>17 DEF LInv

\* Time passes.
LEMMA TickKeeps == ASSUME LInv, Tick PROVE LInv'
  BY DEF LInv, Tick, TypeOK, SlotsBounded, SlotsAreReservations, Attached

-----------------------------------------------------------------------------
\* The inductive invariant: slots are bounded, and are the reservations in flight.
THEOREM LimiterInvariance == Spec => []LInv
<1>1. Init => LInv
  <2>. SUFFICES ASSUME Init PROVE LInv
    OBVIOUS
  <2>1. \A c \in Clients : entries[c] = Absent
    BY DEF Init
  <2>2. \A r \in Requests : reservation[r] = Unreserved
    BY DEF Init
  <2>3. TypeOK
    BY DEF Init, TypeOK
  <2>. QED
    BY <2>1, <2>2, <2>3 DEF LInv, SlotsBounded, SlotsAreReservations
<1>2. LInv /\ [Next]_vars => LInv'
  <2>. SUFFICES ASSUME LInv, [Next]_vars PROVE LInv'
    OBVIOUS
  <2>1. CASE UNCHANGED vars
    BY <2>1 DEF vars, LInv, TypeOK, SlotsBounded, SlotsAreReservations, Attached
  <2>. QED
    BY <2>1, ReserveKeeps, RefuseKeeps, FinishKeeps, TickKeeps DEF Next
<1>. QED
  BY <1>1, <1>2, PTL DEF Spec

\* TypeOK: every variable keeps its type.
THEOREM LimiterTypes == Spec => []TypeOK
<1>1. LInv => TypeOK
  BY DEF LInv
<1>. QED
  BY <1>1, LimiterInvariance, PTL

\* SlotsBounded: failures and checks in flight together never exceed the limit, for
\* every interleaving of reserve, finish and sweep.
THEOREM LimitHolds == Spec => []SlotsBounded
<1>1. LInv => SlotsBounded
  BY DEF LInv
<1>. QED
  BY <1>1, LimiterInvariance, PTL

\* SlotsAreReservations: pending counts the requests that will finish, and each of
\* them finishes on the entry that the map holds.
THEOREM NoSlotLeaks == Spec => []SlotsAreReservations
<1>1. LInv => SlotsAreReservations
  BY DEF LInv
<1>. QED
  BY <1>1, LimiterInvariance, PTL

\* The two ways in which an entry's failures change.
NewWindow(c) == entries'[c].failures = 0 /\ entries'[c].windowEnd > entries[c].windowEnd

Finishes(r, c) == /\ reservation[r] # Unreserved /\ reservation'[r] = Unreserved
                  /\ reservation[r].client = c
                  /\ reservation[r].windowEnd = entries[c].windowEnd
                  /\ now < entries[c].windowEnd

\* OldRequestsDoNotCount: finish changes failures only within the window that the
\* request reserved in.
THEOREM OldRequestsNeverCount == Spec => OldRequestsDoNotCount
<1>. DEFINE Counted ==
       \A c \in Clients :
          (entries[c] # Absent /\ entries'[c] # Absent /\ generation'[c] = generation[c]
             /\ entries'[c].failures # entries[c].failures) =>
          \/ entries'[c].failures = 0 /\ entries'[c].windowEnd > entries[c].windowEnd
          \/ \E r \in Requests : /\ reservation[r] # Unreserved /\ reservation'[r] = Unreserved
                                 /\ reservation[r].client = c
                                 /\ reservation[r].windowEnd = entries[c].windowEnd
                                 /\ now < entries[c].windowEnd
<1>1. LInv /\ [Next]_vars => [Counted]_vars
  <2>. SUFFICES ASSUME LInv, [Next]_vars, NEW c \in Clients,
                       entries[c] # Absent, entries'[c] # Absent, generation'[c] = generation[c],
                       entries'[c].failures # entries[c].failures
                PROVE  \/ NewWindow(c)
                       \/ \E r \in Requests : Finishes(r, c)
    BY DEF NewWindow, Finishes
  <2>. USE NullsAreApart
  <2>1. ASSUME NEW d \in Clients, NEW entry \in Entry, SweepAndStore(d, entry),
               entry.failures = Opened(d).failures, entry.windowEnd = Opened(d).windowEnd
        PROVE  NewWindow(c)
    <3>1. generation \in [Clients -> Nat]
      BY DEF LInv, TypeOK
    <3>2. c \notin Swept
      BY <2>1, <3>1 DEF SweepAndStore
    <3>3. d = c /\ entries'[c] = entry
      BY <2>1, <3>2, SweepKeepsOthers
    <3>. QED
      BY <2>1, <3>2, <3>3, OpenedEntry DEF NewWindow
  <2>2. ASSUME NEW r \in Requests, NEW d \in Clients, Reserve(r, d) PROVE NewWindow(c)
    <3>. DEFINE entry == [Opened(d) EXCEPT !.pending = @ + 1]
    <3>1. /\ entry \in Entry /\ entry.failures = Opened(d).failures
          /\ entry.windowEnd = Opened(d).windowEnd
      BY OpenedEntry DEF Entry
    <3>2. SweepAndStore(d, entry)
      BY <2>2 DEF Reserve
    <3>. HIDE DEF entry
    <3>. QED
      BY <2>1, <3>1, <3>2
  <2>3. ASSUME NEW d \in Clients, Refuse(d) PROVE NewWindow(c)
    BY <2>1, <2>3, OpenedEntry DEF Refuse
  <2>4. ASSUME NEW r \in Requests, NEW outcome \in Outcomes, Finish(r, outcome) PROVE Finishes(r, c)
    <3>. DEFINE res == reservation[r]
    <3>1. /\ res # Unreserved /\ Attached(res) /\ reservation'[r] = Unreserved
          /\ entries' = [entries EXCEPT ![res.client] = Finished(res, @, outcome)]
      BY <2>4 DEF Finish, LInv, SlotsAreReservations, TypeOK
    <3>2. entries[c] \in Entry /\ entries \in [Clients -> Entry \cup {Absent}]
      BY DEF LInv, TypeOK
    <3>3. res.client = c /\ entries'[c] = Finished(res, entries[c], outcome)
      BY <3>1, <3>2
    <3>4. Counts(res, entries[c])
      BY <3>2, <3>3, FinishedEntry
    <3>. QED
      BY <3>1, <3>3, <3>4 DEF Counts, Finishes
  <2>5. ASSUME entries' = entries PROVE FALSE
    BY <2>5
  <2>. QED
    BY <2>2, <2>3, <2>4, <2>5 DEF Next, Tick, vars
<1>. QED
  BY <1>1, LimiterInvariance, PTL DEF Spec, OldRequestsDoNotCount

\* LockoutHolds: an entry at the limit is left alone until its window ends, and its
\* client gets no new reservation.
THEOREM LockoutStays == Spec => LockoutHolds
<1>. DEFINE Blocked(c) ==
       entries[c] # Absent /\ entries[c].failures >= MaxAttempts /\ now < entries[c].windowEnd
     Refused(c) ==
       /\ entries'[c] = entries[c]
       /\ \A r \in Requests : (reservation[r] = Unreserved /\ reservation'[r] # Unreserved)
                                  => reservation'[r].client # c
     Locked == \A c \in Clients : Blocked(c) => Refused(c)
<1>1. LInv /\ [Next]_vars => [Locked]_vars
  <2>. SUFFICES ASSUME LInv, [Next]_vars, NEW c \in Clients, Blocked(c) PROVE Refused(c)
    OBVIOUS
  <2>. USE NullsAreApart, LimiterAssumption
  <2>1. entries[c] \in Entry /\ entries[c].pending = Cardinality(Held(c)) /\ now \in Nat
    BY SlotsHeld DEF LInv, TypeOK
  <2>2. Held(c) = {}
    <3>1. entries[c].failures + entries[c].pending <= MaxAttempts
      BY DEF LInv, SlotsBounded
    <3>2. entries[c].pending = 0
      BY <2>1, <3>1 DEF Entry
    <3>. QED
      BY <2>1, <3>2, HeldIsFinite, FS_EmptySet
  <2>3. Opened(c) = entries[c] /\ Full(Opened(c))
    BY OpenedEntry DEF Full
  <2>4. c \notin Swept
    BY <2>1, SlotsHeld DEF Entry
  <2>5. reservation \in [Requests -> Reservation \cup {Unreserved}]
    BY DEF LInv, TypeOK
  <2>6. ASSUME NEW r \in Requests, NEW d \in Clients, Reserve(r, d) PROVE Refused(c)
    <3>1. d # c
      BY <2>3, <2>6 DEF Reserve
    <3>2. entries'[c] = entries[c]
      BY <2>4, <2>6, <3>1 DEF Reserve, SweepAndStore
    <3>3. \A q \in Requests : reservation[q] = Unreserved /\ reservation'[q] # Unreserved
                                 => reservation'[q].client = d
      BY <2>5, <2>6 DEF Reserve
    <3>. QED
      BY <3>1, <3>2, <3>3
  <2>7. ASSUME NEW d \in Clients, Refuse(d) PROVE Refused(c)
    BY <2>3, <2>4, <2>7 DEF Refuse, SweepAndStore
  <2>8. ASSUME NEW r \in Requests, NEW outcome \in Outcomes, Finish(r, outcome) PROVE Refused(c)
    <3>1. /\ reservation[r] # Unreserved
          /\ reservation' = [reservation EXCEPT ![r] = Unreserved]
      BY <2>8 DEF Finish
    <3>2. reservation[r].client # c
      BY <2>2, <3>1 DEF Held
    <3>3. entries'[c] = entries[c]
      BY <2>8, <3>2 DEF Finish, LInv, TypeOK
    <3>. QED
      BY <2>5, <3>1, <3>3
  <2>9. ASSUME UNCHANGED <<entries, reservation>> PROVE Refused(c)
    BY <2>9
  <2>. QED
    BY <2>6, <2>7, <2>8, <2>9 DEF Next, Tick, vars
<1>. QED
  BY <1>1, LimiterInvariance, PTL DEF Spec, LockoutHolds

=============================================================================
