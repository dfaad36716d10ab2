--------------------------- MODULE ResourceManager ---------------------------
(***************************************************************************)
(* The id allocator behind cameras, VENC channels, VPSS groups and the     *)
(* channels of a VPSS group (struct ResourceManager).  Its two collections *)
(* live behind one mutex that every method holds from its first to its     *)
(* last line, so each method is one step.  An id travels inside an         *)
(* AcquiredResource guard: `held' says which guards each holder (a thread) *)
(* owns, and dropping a guard releases its id.                             *)
(*                                                                         *)
(* A call that returns ResourceUnavailable changes nothing: it is the      *)
(* stuttering step.                                                        *)
(***************************************************************************)
EXTENDS Integers, FiniteSetsExt

CONSTANTS
  Capacity,  \* number of ids, VENC_MAX_CHN_NUM for instance
  Holder,    \* the threads that share the manager
  NoHolder   \* stands for the holder of a free id

ASSUME CapacityAssumption == Capacity \in Nat
ASSUME NoHolderAssumption == NoHolder \notin Holder

VARIABLES
  available, \* ResourceState::available
  busy,      \* ResourceState::busy
  held       \* the ids in the AcquiredResource guards of each holder

vars == <<available, busy, held>>

Ids == 0 .. (Capacity - 1)

TypeOK ==
  /\ available \in SUBSET Ids
  /\ busy \in SUBSET Ids
  /\ held \in [Holder -> SUBSET Ids]

-----------------------------------------------------------------------------
Init ==
  /\ available = Ids
  /\ busy = {}
  /\ held = [h \in Holder |-> {}]

(* Mutant of Hand: the id is read with first() and stays available. *)
HandKeepsAvailable(h, id) ==
  /\ busy' = busy \cup {id}
  /\ held' = [held EXCEPT ![h] = @ \cup {id}]
  /\ UNCHANGED available

(* Moves `id' from one collection to the other and wraps it in a guard. *)
Hand(h, id) ==
  /\ available' = available \ {id}
  /\ busy' = busy \cup {id}
  /\ held' = [held EXCEPT ![h] = @ \cup {id}]

(* acqure: the lowest free id. *)
Acqure(h) ==
  /\ available # {}
  /\ Hand(h, Min(available))

(* Mutant of AcqureSpecific: the result of available.remove is ignored. *)
AcqureSpecificUnchecked(h, id) == Hand(h, id)

(* acqure_specific: the id the caller asks for, when it is free. *)
AcqureSpecific(h, id) ==
  /\ id \in available
  /\ Hand(h, id)

(* Mutant of Release: the id leaves busy and never becomes available. *)
ReleaseForgets(h, id) ==
  /\ id \in held[h]
  /\ busy' = busy \ {id}
  /\ held' = [held EXCEPT ![h] = @ \ {id}]
  /\ UNCHANGED available

(* release, called by the drop of a guard.  An id that is not busy is      *)
(* reported and not made available; the guard is gone either way.          *)
Release(h, id) ==
  /\ id \in held[h]
  /\ busy' = busy \ {id}
  /\ available' = IF id \in busy THEN available \cup {id} ELSE available
  /\ held' = [held EXCEPT ![h] = @ \ {id}]

Next ==
  \E h \in Holder :
    \/ Acqure(h)
    \/ \E id \in Ids : AcqureSpecific(h, id) \/ Release(h, id)

Spec == Init /\ [][Next]_vars

-----------------------------------------------------------------------------
(* No two holders own a guard for the same id: two handles never drive the *)
(* same native channel (ResourceManager::acqure, acqure_specific).         *)
Exclusive ==
  \A g, h \in Holder : g # h => held[g] \cap held[h] = {}

(* An id is unavailable exactly while some guard holds it.  So             *)
(* acqure fails only when every id is in use, a dropped guard always makes *)
(* its id available again, and the release of a guard never reports an     *)
(* error (AcquiredResource::drop).                                         *)
Conserved ==
  /\ busy = UNION {held[h] : h \in Holder}
  /\ available = Ids \ busy

-----------------------------------------------------------------------------
(* The holder of an id, for the abstract specification. *)
LeaseOf(id) ==
  IF \E h \in Holder : id \in held[h]
  THEN CHOOSE h \in Holder : id \in held[h]
  ELSE NoHolder

Lease == INSTANCE IdLease
           WITH Id <- Ids, lease <- [id \in Ids |-> LeaseOf(id)]

(* The manager implements exclusive leases: every step of it takes one free *)
(* id, gives one back, or changes no lease.                                 *)
ImplementsLease == Lease!Spec
=============================================================================
