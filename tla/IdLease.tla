------------------------------- MODULE IdLease -------------------------------
(***************************************************************************)
(* What the resource manager of the crate promises: every id is leased to  *)
(* at most one holder at a time, it is leased only while it is free, and   *)
(* only its holder gives it back.  Nothing is said of the order in which   *)
(* ids are handed out.                                                     *)
(***************************************************************************)

CONSTANTS
  Id,        \* the ids that can be leased
  Holder,    \* the owners a lease can have
  NoHolder   \* stands for the holder of a free id, no member of Holder

VARIABLE lease

Init == lease = [i \in Id |-> NoHolder]

Take(h, i) ==
  /\ lease[i] = NoHolder
  /\ lease' = [lease EXCEPT ![i] = h]

GiveBack(h, i) ==
  /\ lease[i] = h
  /\ lease' = [lease EXCEPT ![i] = NoHolder]

Next == \E h \in Holder, i \in Id : Take(h, i) \/ GiveBack(h, i)

Spec == Init /\ [][Next]_lease
=============================================================================
