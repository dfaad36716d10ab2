----------------------- MODULE ResourceManager_proofs -----------------------
(***************************************************************************)
(* Machine-checked proofs about ResourceManager, for any capacity and any  *)
(* set of threads: its type invariant, the exclusivity and conservation of *)
(* ids, and that it implements the exclusive leases of IdLease.            *)
(***************************************************************************)
EXTENDS ResourceManager, WellFoundedInduction, TLAPS

(* A set of natural numbers that is not empty has a least element.         *)
LEMMA LeastExists ==
  ASSUME NEW S \in SUBSET Nat, S # {}
  PROVE  Min(S) \in S
<1>1. S \subseteq Nat
  OBVIOUS
<1>2. IsWellFoundedOn({p \in Nat \X Nat : p[1] < p[2]}, Nat)
  BY NatLessThanWellFounded DEF OpToRel
<1>3. PICK x \in S : \A y \in S : <<y, x>> \notin {p \in Nat \X Nat : p[1] < p[2]}
  BY <1>1, <1>2, WFMin
<1>4. ASSUME NEW y \in S
      PROVE  x =< y
  <2>1. x \in Nat /\ y \in Nat
    BY <1>1
  <2>2. ASSUME y < x
        PROVE  <<y, x>> \in {p \in Nat \X Nat : p[1] < p[2]}
    <3> DEFINE p == <<y, x>>
    <3>1. p \in Nat \X Nat /\ p[1] = y /\ p[2] = x
      BY <2>1
    <3> HIDE DEF p
    <3>2. QED
      BY <2>2, <3>1 DEF p
  <2>3. ~ (y < x)
    BY <1>3, <2>2
  <2>4. QED
    BY <2>1, <2>3
<1>5. QED
  BY <1>4 DEF Min

(* The lowest free id is a free id (BTreeSet::pop_first).                  *)
LEMMA LowestIsFree ==
  ASSUME NEW S \in SUBSET Ids, S # {}
  PROVE  Min(S) \in S
<1>1. S \subseteq Nat
  BY CapacityAssumption DEF Ids
<1>2. QED
  BY <1>1, LeastExists

-----------------------------------------------------------------------------
(* Every id stays in the range of the manager, whatever the threads do.    *)
THEOREM TypeCorrect == Spec => []TypeOK
<1>1. Init => TypeOK
  BY DEF Init, TypeOK
<1>2. TypeOK /\ [Next]_vars => TypeOK'
  <2> SUFFICES ASSUME TypeOK, [Next]_vars
               PROVE  TypeOK'
    OBVIOUS
  <2>1. ASSUME NEW h \in Holder, Acqure(h)
        PROVE  TypeOK'
    <3>1. Min(available) \in Ids
      BY <2>1, LowestIsFree DEF Acqure, TypeOK
    <3>2. QED
      BY <2>1, <3>1 DEF Acqure, Hand, TypeOK
  <2>2. ASSUME NEW h \in Holder, NEW id \in Ids, AcqureSpecific(h, id)
        PROVE  TypeOK'
    BY <2>2 DEF AcqureSpecific, Hand, TypeOK
  <2>3. ASSUME NEW h \in Holder, NEW id \in Ids, Release(h, id)
        PROVE  TypeOK'
    BY <2>3 DEF Release, TypeOK
  <2>4. CASE UNCHANGED vars
    BY <2>4 DEF vars, TypeOK
  <2>5. QED
    BY <2>1, <2>2, <2>3, <2>4 DEF Next
<1>3. QED
  BY <1>1, <1>2, PTL DEF Spec

(* The invariant is inductive as it stands: exclusivity needs conservation *)
(* (a free id is in no guard), conservation needs exclusivity (dropping a  *)
(* guard leaves no other one for its id).                                  *)
IInv == TypeOK /\ Exclusive /\ Conserved

(* Handing a free id to a holder keeps guards disjoint and collections in  *)
(* step with the guards.                                                   *)
LEMMA HandKeepsIInv ==
  ASSUME IInv, NEW h \in Holder, NEW id \in available, Hand(h, id)
  PROVE  Exclusive' /\ Conserved'
<1>1. \A g \in Holder : held'[g] = IF g = h THEN held[g] \cup {id} ELSE held[g]
  BY DEF Hand, IInv, TypeOK
<1>2. \A g \in Holder : id \notin held[g]
  BY DEF IInv, Conserved
<1>3. Exclusive'
  BY <1>1, <1>2 DEF IInv, Exclusive
<1>4. Conserved'
  <2>1. UNION {held'[g] : g \in Holder}
          = (UNION {held[g] : g \in Holder}) \cup {id}
    BY <1>1
  <2>2. QED
    BY <2>1 DEF Hand, IInv, Conserved
<1>5. QED
  BY <1>3, <1>4

(* Dropping a guard makes exactly its id free.                             *)
LEMMA ReleaseKeepsIInv ==
  ASSUME IInv, NEW h \in Holder, NEW id \in Ids, Release(h, id)
  PROVE  Exclusive' /\ Conserved'
<1>1. \A g \in Holder : held'[g] = IF g = h THEN held[g] \ {id} ELSE held[g]
  BY DEF Release, IInv, TypeOK
<1>2. \A g \in Holder : g # h => id \notin held[g]
  BY DEF Release, IInv, Exclusive
<1>3. Exclusive'
  BY <1>1 DEF IInv, Exclusive
<1>4. Conserved'
  <2>1. id \in busy
    BY DEF Release, IInv, Conserved
  <2>2. UNION {held'[g] : g \in Holder}
          = (UNION {held[g] : g \in Holder}) \ {id}
    BY <1>1, <1>2
  <2>3. busy' = busy \ {id} /\ available' = available \cup {id}
    BY <2>1 DEF Release
  <2>4. QED
    BY <2>2, <2>3 DEF IInv, Conserved
<1>5. QED
  BY <1>3, <1>4

LEMMA StepKeepsIInv == IInv /\ [Next]_vars /\ TypeOK' => IInv'
<1> SUFFICES ASSUME IInv, [Next]_vars, TypeOK'
             PROVE  Exclusive' /\ Conserved'
  BY DEF IInv
<1>1. ASSUME NEW h \in Holder, Acqure(h)
      PROVE  Exclusive' /\ Conserved'
  <2>1. Min(available) \in available
    BY <1>1, LowestIsFree DEF Acqure, IInv, TypeOK
  <2>2. QED
    BY <1>1, <2>1, HandKeepsIInv DEF Acqure
<1>2. ASSUME NEW h \in Holder, NEW id \in Ids, AcqureSpecific(h, id)
      PROVE  Exclusive' /\ Conserved'
  BY <1>2, HandKeepsIInv DEF AcqureSpecific
<1>3. ASSUME NEW h \in Holder, NEW id \in Ids, Release(h, id)
      PROVE  Exclusive' /\ Conserved'
  BY <1>3, ReleaseKeepsIInv
<1>4. CASE UNCHANGED vars
  BY <1>4 DEF vars, IInv, Exclusive, Conserved
<1>5. QED
  BY <1>1, <1>2, <1>3, <1>4 DEF Next

LEMMA Invariance == Spec => []IInv
<1>1. Init => IInv
  BY DEF Init, IInv, TypeOK, Exclusive, Conserved
<1>2. QED
  BY <1>1, StepKeepsIInv, TypeCorrect, PTL DEF Spec

(* No id is ever in the guards of two threads, for any number of ids and   *)
(* threads (acqure, acqure_specific, release).                             *)
THEOREM IdsAreExclusive == Spec => []Exclusive
BY Invariance, PTL DEF IInv

(* An id is unavailable exactly while a guard holds it: dropping a guard   *)
(* never fails and no id is ever lost.                                     *)
THEOREM IdsAreConserved == Spec => []Conserved
BY Invariance, PTL DEF IInv

-----------------------------------------------------------------------------
(* Refinement.  While guards are exclusive, the lease of an id is whoever  *)
(* holds the guard, and the lease of a free id is NoHolder.                *)
LEMMA LeaseOfHeld ==
  ASSUME Exclusive, NEW id, NEW h \in Holder, id \in held[h]
  PROVE  LeaseOf(id) = h
BY DEF LeaseOf, Exclusive

LEMMA LeaseOfFree ==
  ASSUME NEW id, \A h \in Holder : id \notin held[h]
  PROVE  LeaseOf(id) = NoHolder
BY DEF LeaseOf

(* The lease function after a step that changes who holds `id' only.       *)
LEMMA OtherLeasesKept ==
  ASSUME NEW id, NEW other,
         \A h \in Holder : other \in held'[h] <=> other \in held[h]
  PROVE  LeaseOf(other)' = LeaseOf(other)
BY DEF LeaseOf

LEMMA HandTakesLease ==
  ASSUME IInv, IInv', NEW h \in Holder, NEW id \in available, Hand(h, id)
  PROVE  Lease!Take(h, id)
<1>1. \A g \in Holder : held'[g] = IF g = h THEN held[g] \cup {id} ELSE held[g]
  BY DEF Hand, IInv, TypeOK
<1>2. id \in Ids
  BY DEF IInv, TypeOK
<1>3. LeaseOf(id) = NoHolder
  BY LeaseOfFree DEF IInv, Conserved
<1>4. LeaseOf(id)' = h
  <2>1. id \in held'[h]
    BY <1>1
  <2>2. \A g \in Holder : id \in held'[g] => g = h
    BY <2>1 DEF IInv, Exclusive
  <2>3. QED
    BY <2>1, <2>2 DEF LeaseOf
<1>5. \A other \in Ids : other # id => LeaseOf(other)' = LeaseOf(other)
  BY <1>1, OtherLeasesKept
<1>6. QED
  BY <1>2, <1>3, <1>4, <1>5 DEF Lease!Take

LEMMA ReleaseGivesLeaseBack ==
  ASSUME IInv, NEW h \in Holder, NEW id \in Ids, Release(h, id)
  PROVE  Lease!GiveBack(h, id)
<1>1. \A g \in Holder : held'[g] = IF g = h THEN held[g] \ {id} ELSE held[g]
  BY DEF Release, IInv, TypeOK
<1>2. LeaseOf(id) = h
  BY LeaseOfHeld DEF Release, IInv
<1>3. LeaseOf(id)' = NoHolder
  <2>1. \A g \in Holder : id \notin held'[g]
    BY <1>1 DEF Release, IInv, Exclusive
  <2>2. QED
    BY <2>1 DEF LeaseOf
<1>4. \A other \in Ids : other # id => LeaseOf(other)' = LeaseOf(other)
  BY <1>1, OtherLeasesKept
<1>5. QED
  BY <1>2, <1>3, <1>4 DEF Lease!GiveBack

(* The manager implements the abstract specification of exclusive leases:  *)
(* acqure and acqure_specific take a lease, dropping a guard gives it back. *)
THEOREM ManagerImplementsLease == Spec => ImplementsLease
<1>1. Init => Lease!Init
  BY LeaseOfFree DEF Init, Lease!Init
<1>2. IInv /\ IInv' /\ [Next]_vars => [Lease!Next]_([id \in Ids |-> LeaseOf(id)])
  <2> SUFFICES ASSUME IInv, IInv', [Next]_vars
               PROVE  [Lease!Next]_([id \in Ids |-> LeaseOf(id)])
    OBVIOUS
  <2>1. ASSUME NEW h \in Holder, Acqure(h)
        PROVE  Lease!Next
    <3>1. Min(available) \in available /\ Min(available) \in Ids
      BY <2>1, LowestIsFree DEF Acqure, IInv, TypeOK
    <3>2. QED
      BY <2>1, <3>1, HandTakesLease DEF Acqure, Lease!Next
  <2>2. ASSUME NEW h \in Holder, NEW id \in Ids, AcqureSpecific(h, id)
        PROVE  Lease!Next
    BY <2>2, HandTakesLease DEF AcqureSpecific, Lease!Next
  <2>3. ASSUME NEW h \in Holder, NEW id \in Ids, Release(h, id)
        PROVE  Lease!Next
    BY <2>3, ReleaseGivesLeaseBack DEF Lease!Next
  <2>4. CASE UNCHANGED vars
    BY <2>4 DEF vars, LeaseOf
  <2>5. QED
    BY <2>1, <2>2, <2>3, <2>4 DEF Next
<1>3. QED
  BY <1>1, <1>2, Invariance, PTL DEF Spec, ImplementsLease, Lease!Spec
=============================================================================
