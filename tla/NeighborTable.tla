---------------------------- MODULE NeighborTable ----------------------------
(***************************************************************************)
(* What the receive half of the daemon promises to a reader of its         *)
(* neighbour tables, without the state machine that keeps the promise.     *)
(*                                                                         *)
(* A table is a set of neighbours with a time to live.  A round of a port  *)
(* takes one from every timer of that port's table.  Before it does, it    *)
(* may have written the timer of a neighbour that was heard, or struck the *)
(* neighbours whose timer is at zero - all of them, and no other.  A table *)
(* with such a neighbour in it takes no news until it is struck, and it is *)
(* struck some time.                                                       *)
(***************************************************************************)
EXTENDS Naturals

CONSTANTS Ports, Ids, MaxTTL

VARIABLE table

Neighbor == [id : Ids, ttl : 0 .. MaxTTL]

Dead(t) == {n \in t : n.ttl = 0}

Later(t) == {[n EXCEPT !.ttl = IF @ > 0 THEN @ - 1 ELSE 0] : n \in t}

Init == table = [p \in Ports |-> {}]

\* A round without news.
Age(p) == table' = [table EXCEPT ![p] = Later(@)]

\* A round in which a frame of neighbour id was taken.
Hear(p, id, ttl) ==
  /\ Dead(table[p]) = {}
  /\ table' = [table EXCEPT ![p] =
                 Later({n \in @ : n.id # id} \cup {[id |-> id, ttl |-> ttl]})]

\* A round in which the aged neighbours were struck.
Purge(p) ==
  /\ Dead(table[p]) # {}
  /\ table' = [table EXCEPT ![p] = Later(@ \ Dead(@))]

Next ==
  \E p \in Ports :
    \/ Age(p)
    \/ \E id \in Ids, ttl \in 0 .. MaxTTL : Hear(p, id, ttl)
    \/ Purge(p)

Spec == Init /\ [][Next]_table /\ \A p \in Ports : WF_table(Purge(p))

=============================================================================
