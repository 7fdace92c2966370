---------------------------- MODULE LeasedQueue ----------------------------
(***************************************************************************)
(* What the delivery pipeline promises, without tables, attempts, rules or  *)
(* time: a queue of items handed out under numbered leases.  An item is     *)
(* held under at most one current lease; only the taker of that lease can   *)
(* report the item done or dead, or give it back; an item that is held is   *)
(* neither requeued nor removed; several items at once are requeued only if *)
(* all of them are dead, and removed only if none of them is still wanted;  *)
(* a lease that lapsed is taken over under a new number, after which the    *)
(* old taker has no say any more; a removed item never comes back.          *)
(***************************************************************************)
EXTENDS Naturals

CONSTANTS Items, Takers

VARIABLES
    phase,    \* of each item: one of Phases
    lease,    \* number of the item's latest lease
    taken     \* what each taker believes to hold: an item and a lease number

vars == <<phase, lease, taken>>

Nothing == [none |-> "taken"]
Ticket  == [item : Items, lease : Nat]
Phases  == {"new", "queued", "held", "lapsed", "done", "dead", "gone"}

TypeOK ==
    /\ phase \in [Items -> Phases]
    /\ lease \in [Items -> Nat]
    /\ taken \in [Takers -> Ticket \cup {Nothing}]

Init == /\ phase = [i \in Items |-> "new"]
        /\ lease = [i \in Items |-> 0]
        /\ taken = [t \in Takers |-> Nothing]

Add(i) == /\ phase[i] = "new"
          /\ phase' = [phase EXCEPT ![i] = "queued"]
          /\ UNCHANGED <<lease, taken>>

Take(t, i) == /\ taken[t] = Nothing
              /\ phase[i] \in {"queued", "lapsed"}
              /\ phase' = [phase EXCEPT ![i] = "held"]
              /\ lease' = [lease EXCEPT ![i] = @ + 1]
              /\ taken' = [taken EXCEPT ![t] = [item |-> i, lease |-> lease[i] + 1]]

Current(t) == /\ taken[t] # Nothing
              /\ phase[taken[t].item] = "held"
              /\ lease[taken[t].item] = taken[t].lease

\* The holder reports: the item is done, given up for dead, or back in the queue.
Report(t) == /\ Current(t)
             /\ \E outcome \in {"done", "dead", "queued"} :
                    phase' = [phase EXCEPT ![taken[t].item] = outcome]
             /\ taken' = [taken EXCEPT ![t] = Nothing]
             /\ UNCHANGED lease

\* Takers walk away: an error, a lost lease, a crash of all of them.
Drop(T) == /\ taken' = [t \in Takers |-> IF t \in T THEN Nothing ELSE taken[t]]
           /\ UNCHANGED <<phase, lease>>

Lapse(i) == /\ phase[i] = "held"
            /\ phase' = [phase EXCEPT ![i] = "lapsed"]
            /\ UNCHANGED <<lease, taken>>

\* One item that is asked for by name may be in any phase in which nobody has it.
OneIdle(I) == \E i \in Items : I = {i} /\ phase[i] \in {"queued", "done", "dead"}

Requeue(I) == /\ OneIdle(I) \/ (\A i \in I : phase[i] = "dead")
              /\ phase' = [i \in Items |-> IF i \in I THEN "queued" ELSE phase[i]]
              /\ UNCHANGED <<lease, taken>>

Remove(I) == /\ OneIdle(I) \/ (\A i \in I : phase[i] \in {"done", "dead"})
             /\ phase' = [i \in Items |-> IF i \in I THEN "gone" ELSE phase[i]]
             /\ UNCHANGED <<lease, taken>>

Next == \/ \E i \in Items : Add(i) \/ Lapse(i)
        \/ \E t \in Takers, i \in Items : Take(t, i)
        \/ \E t \in Takers : Report(t)
        \/ \E T \in SUBSET Takers : Drop(T)
        \/ \E I \in SUBSET Items : Requeue(I) \/ Remove(I)

Spec == Init /\ [][Next]_vars

=============================================================================
