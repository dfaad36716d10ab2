--------------------------- MODULE VpssGroup_proofs ---------------------------
(***************************************************************************)
(* Machine-checked proofs about VpssGroup, for any number of threads,      *)
(* groups, channels, sources and faults: groups use their ids as           *)
(* ResourceManager allows, a group outlives its parts, what the objects    *)
(* say is what the library has, and what stays behind has cost failures.   *)
(***************************************************************************)
EXTENDS VpssGroup, FiniteSetTheorems, TLAPS

Manager ==
  INSTANCE ResourceManager_proofs
    WITH Holder <- Thread, NoHolder <- NoThread, held <- Held

(* A thread has an id exactly while it is in the life of a group.          *)
Shape ==
  /\ pc \in [Thread -> Pc]
  /\ grp \in [Thread -> Ids \cup {NoId}]
  /\ \A t \in Thread : grp[t] = NoId <=> pc[t] = "none"

LEMMA ShapeInvariant == Spec => []Shape
<1>1. Init => Shape
  BY DEF Init, Shape, Pc
<1>2. Shape /\ [Next]_vars => Shape'
  <2> SUFFICES ASSUME Shape, [Next]_vars
               PROVE  Shape'
    OBVIOUS
  <2> USE DEF Shape, Pc, Goto, NoId, Ids, resourceVars, groupVars
  <2>1. ASSUME NEW t \in Thread, Acqure(t)
        PROVE  Shape'
    BY <2>1, CapacityAssumption DEF Acqure
  <2>2. ASSUME NEW t \in Thread, ReleaseId(t)
        PROVE  Shape'
    BY <2>2, CapacityAssumption DEF ReleaseId
  <2>3. ASSUME NEW t \in Thread,
               \/ CreateGrp(t) \/ CreateGrpFails(t)
               \/ Start(t) \/ StartFails(t)
               \/ \E src \in Source : BindVi(t, src)
               \/ Unbind(t)
               \/ Drop(t) \/ DropStop(t) \/ DropDestroy(t)
        PROVE  Shape'
    BY <2>3
    DEF CreateGrp, CreateGrpFails, Start, StartFails, BindVi, Unbind, Drop,
        DropStop, DropDestroy
  <2>4. ASSUME NEW t \in Thread, NEW c \in Chns, AcqureChn(t) \/ ChnNext(t, c)
        PROVE  Shape'
    BY <2>4
    DEF AcqureChn, ChnNext, SetChnAttr, SetChnAttrFails, EnableChn,
        EnableChnFails, DisableChn, DisableChnFails, DropChn, DropDisable,
        ReleaseChn
  <2>5. ASSUME NEW t \in Thread, AcqureChn(t)
        PROVE  Shape'
    BY <2>5 DEF AcqureChn
  <2>6. CASE UNCHANGED vars
    BY <2>6 DEF vars
  <2>7. QED
    BY <2>1, <2>2, <2>3, <2>4, <2>5, <2>6 DEF Next, GroupNext
<1>3. QED
  BY <1>1, <1>2, PTL DEF Spec

(* Acquiring the id of a group and dropping its guard are the manager's    *)
(* steps; every other step leaves the manager and the guards alone.        *)
THEOREM GroupsUseResourceManager == Spec => UsesResourceManager
<1>1. Init => Resources!Init
  BY DEF Init, Resources!Init, Resources!Ids, Ids, Held
<1>2. Shape /\ [Next]_vars => [Resources!Next]_(Resources!vars)
  <2> SUFFICES ASSUME Shape, [Next]_vars
               PROVE  Resources!Next \/ UNCHANGED Resources!vars
    OBVIOUS
  <2>1. ASSUME NEW t \in Thread, Acqure(t)
        PROVE  Resources!Next
    BY <2>1 DEF Acqure, Resources!Next
  <2>2. ASSUME NEW t \in Thread, ReleaseId(t)
        PROVE  Resources!Next
    <3>1. grp[t] \in Resources!Ids
      BY <2>2 DEF ReleaseId, Shape, Resources!Ids, Ids
    <3>2. QED
      BY <2>2, <3>1 DEF ReleaseId, Resources!Next
  <2>3. ASSUME UNCHANGED resourceVars
        PROVE  UNCHANGED Resources!vars
    BY <2>3 DEF resourceVars, Resources!vars, Held
  <2>4. ASSUME NEW t \in Thread, GroupNext(t)
        PROVE  Acqure(t) \/ ReleaseId(t) \/ UNCHANGED resourceVars
    BY <2>4
    DEF GroupNext, CreateGrp, CreateGrpFails, Start, StartFails, BindVi,
        Unbind, Drop, DropStop, DropDestroy
  <2>5. ASSUME NEW t \in Thread, NEW c \in Chns, ChnNext(t, c)
        PROVE  UNCHANGED resourceVars
    BY <2>5
    DEF ChnNext, SetChnAttr, SetChnAttrFails, EnableChn, EnableChnFails,
        DisableChn, DisableChnFails, DropChn, DropDisable, ReleaseChn
  <2>6. ASSUME NEW t \in Thread, AcqureChn(t)
        PROVE  UNCHANGED resourceVars
    BY <2>6 DEF AcqureChn
  <2>7. CASE UNCHANGED vars
    BY <2>7, <2>3 DEF vars
  <2>8. QED
    BY <2>1, <2>2, <2>3, <2>4, <2>5, <2>6, <2>7 DEF Next
<1>3. QED
  BY <1>1, <1>2, ShapeInvariant, PTL
  DEF Spec, UsesResourceManager, Resources!Spec

(* So what is proved of the manager holds of the ids of VPSS groups: none is      *)
(* lost or handed out twice, and they are leased as IdLease says            *)
(* (src/src/vpss.rs, VpssGroup::acqure and the drop of its AcquiredResource). *)
THEOREM GroupIdsAreLeased ==
  Spec => []Resources!Conserved /\ Resources!ImplementsLease
<1>1. Manager!Init <=> Resources!Init
  BY DEF Manager!Init, Resources!Init, Manager!Ids, Resources!Ids
<1>2. [Manager!Next]_(Manager!vars) <=> [Resources!Next]_(Resources!vars)
  BY DEF Manager!Next, Resources!Next, Manager!Ids, Resources!Ids, Manager!vars,
     Resources!vars, Manager!Acqure, Resources!Acqure, Manager!Hand, Resources!Hand,
     Manager!AcqureSpecific, Resources!AcqureSpecific, Manager!Release,
     Resources!Release, Manager!Min, Resources!Min
<1>3. Manager!Conserved <=> Resources!Conserved
  BY DEF Manager!Conserved, Resources!Conserved, Manager!Ids, Resources!Ids
<1>4. Manager!Lease!Init <=> Resources!Lease!Init
  BY DEF Manager!Lease!Init, Resources!Lease!Init, Manager!Ids, Resources!Ids,
     Manager!LeaseOf, Resources!LeaseOf
<1>5. [Manager!Lease!Next]_([id \in Manager!Ids |-> Manager!LeaseOf(id)])
        <=> [Resources!Lease!Next]_([id \in Resources!Ids |-> Resources!LeaseOf(id)])
  BY DEF Manager!Lease!Next, Resources!Lease!Next, Manager!Lease!Take,
     Resources!Lease!Take, Manager!Lease!GiveBack, Resources!Lease!GiveBack,
     Manager!Ids, Resources!Ids, Manager!LeaseOf, Resources!LeaseOf
<1>6. Manager!Spec => []Manager!Conserved
  BY CapacityAssumption, SentinelAssumption, Manager!IdsAreConserved
<1>7. Manager!Spec => Manager!ImplementsLease
  BY CapacityAssumption, SentinelAssumption, Manager!ManagerImplementsLease
<1>8. QED
  BY <1>1, <1>2, <1>3, <1>4, <1>5, <1>6, <1>7, GroupsUseResourceManager, PTL
  DEF UsesResourceManager, Manager!Spec, Resources!Spec, Manager!ImplementsLease,
      Resources!ImplementsLease, Manager!Lease!Spec, Resources!Lease!Spec

-----------------------------------------------------------------------------
(* The inductive invariant.  An object agrees with the library because no  *)
(* other thread has its group (an id in a guard is not available), and     *)
(* because a group is not destroyed while a channel or a bind shares it.   *)

IdsExclusive ==
  /\ \A t \in Thread : grp[t] # NoId => grp[t] \notin available
  /\ \A t, u \in Thread : grp[t] # NoId /\ grp[t] = grp[u] => t = u

GroupHasNative ==
  \A t \in Thread : HasGroup(t) => native[grp[t]] # "absent"

PartsHaveGroup ==
  \A t \in Thread :
    bind[t] # NoSource \/ (\E c \in Chns : chn[t][c] # "free")
      => pc[t] \in {"ready", "shared"}

(* The parts of ObjectsAgree that do not depend on the faults.             *)
StateAgrees ==
  \A t \in Thread : pc[t] \in {"ready", "shared"} =>
    (state[t] = "Started" <=> native[grp[t]] = "started")

ChnsAgree ==
  \A t \in Thread, c \in Chns :
    /\ chn[t][c] \in {"enabled", "disabling"} =>
         nativeChn[grp[t]][c] = "enabled"
    /\ chn[t][c] = "disabled" => nativeChn[grp[t]][c] # "none"

BindAgrees ==
  \A t \in Thread : bind[t] # NoSource => binds[grp[t]] = bind[t]

IInv ==
  /\ TypeOK
  /\ Shape
  /\ IdsExclusive
  /\ GroupHasNative
  /\ PartsHaveGroup
  /\ StateAgrees
  /\ ChnsAgree
  /\ BindAgrees

(* What the invariant is for.                                              *)
LEMMA IInvSuffices == IInv => GroupOutlivesParts
BY DEF IInv, Shape, IdsExclusive, GroupHasNative, PartsHaveGroup, HasGroup,
       GroupOutlivesParts

(* What acquiring and releasing do to the ids.                             *)
LEMMA AcqureTakesFreeId ==
  ASSUME IInv, NEW t \in Thread, Acqure(t)
  PROVE  \E id \in available :
           /\ grp' = [grp EXCEPT ![t] = id]
           /\ available' = available \ {id}
           /\ busy' = busy \cup {id}
<1> DEFINE m == Resources!Min(available)
<1>1. PICK id \in Ids : grp' = [grp EXCEPT ![t] = id]
  BY DEF Acqure
<1>2. available \in SUBSET Manager!Ids /\ available # {}
  BY DEF Acqure, Resources!Acqure, IInv, TypeOK, Manager!Ids, Ids
<1>3. m \in available
  BY <1>2, CapacityAssumption, SentinelAssumption, Manager!LowestIsFree
  DEF Resources!Min, Manager!Min
<1>4. /\ available' = available \ {m}
      /\ busy' = busy \cup {m}
      /\ Held' = [Held EXCEPT ![t] = @ \cup {m}]
  BY DEF Acqure, Resources!Acqure, Resources!Hand
<1> HIDE DEF m
<1>5. Held'[t] = {id} /\ Held'[t] = {m}
  <2>1. grp[t] = NoId /\ grp'[t] = id /\ id # NoId
    BY <1>1 DEF Acqure, IInv, TypeOK, Shape, Ids, NoId
  <2>2. QED
    BY <1>4, <2>1 DEF Held
<1>6. id = m
  BY <1>5
<1>7. QED
  BY <1>1, <1>3, <1>4, <1>6

LEMMA ReleaseIdFreesOnlyItsOwn ==
  ASSUME IInv, NEW t \in Thread, ReleaseId(t)
  PROVE  /\ grp[t] \in Ids
         /\ grp' = [grp EXCEPT ![t] = NoId]
         /\ available' \subseteq available \cup {grp[t]}
         /\ busy' \subseteq busy
<1>1. grp[t] \in Ids
  BY DEF ReleaseId, IInv, Shape
<1>2. QED
  BY <1>1 DEF ReleaseId, Resources!Release

(* Every operation preserves the invariant.                                *)
USE DEF HasGroup, Unshared, Goto, ChnGoto, Fault, Pc, ChnPc, Ids, NoId,
        resourceVars, groupVars, nativeVars

LEMMA AcqureKeepsIInv ==
  ASSUME IInv, NEW t \in Thread, Acqure(t)
  PROVE  IInv'
<1>1. PICK id \in available :
        /\ grp' = [grp EXCEPT ![t] = id]
        /\ available' = available \ {id}
        /\ busy' = busy \cup {id}
  BY AcqureTakesFreeId
<1>11. /\ pc[t] = "none" /\ bind[t] = NoSource
       /\ \A c \in Chns : chn[t][c] = "free"
       /\ \A u \in Thread : u # t => grp'[u] = grp[u]
       /\ UNCHANGED <<bind, chn, native, nativeChn, binds>>
  BY <1>1 DEF Acqure, IInv, Shape, PartsHaveGroup
<1>2. TypeOK'
  BY <1>1, CapacityAssumption
  DEF Acqure, IInv, TypeOK
<1>3. Shape'
  BY <1>1, CapacityAssumption
  DEF Acqure, IInv, Shape
<1>4. IdsExclusive'
  BY <1>1, CapacityAssumption
  DEF Acqure, IInv, Shape, IdsExclusive
<1>5. GroupHasNative'
  BY <1>1, CapacityAssumption
  DEF Acqure, IInv, TypeOK, Shape, IdsExclusive, GroupHasNative
<1>6. PartsHaveGroup'
  BY <1>1, CapacityAssumption
  DEF Acqure, IInv, TypeOK, Shape, PartsHaveGroup
<1>7. StateAgrees'
  BY <1>1, CapacityAssumption
  DEF Acqure, IInv, TypeOK, Shape, IdsExclusive, GroupHasNative,
      StateAgrees
<1>8. ChnsAgree'
  BY <1>11 DEF IInv, ChnsAgree
<1>9. BindAgrees'
  BY <1>11 DEF IInv, BindAgrees
<1>10. QED
  BY <1>2, <1>3, <1>4, <1>5, <1>6, <1>7, <1>8, <1>9 DEF IInv

LEMMA CreateGrpKeepsIInv ==
  ASSUME IInv, NEW t \in Thread, CreateGrp(t)
  PROVE  IInv'
<1>1. grp[t] \in Ids /\ grp[t] # NoId
  BY DEF CreateGrp, IInv, Shape, PartsHaveGroup
<1>2. TypeOK'
  BY <1>1, MaxFaultsAssumption
  DEF CreateGrp, IInv, TypeOK
<1>3. Shape'
  BY <1>1, MaxFaultsAssumption
  DEF CreateGrp, IInv, Shape
<1>4. IdsExclusive'
  BY <1>1, MaxFaultsAssumption
  DEF CreateGrp, IInv, Shape, IdsExclusive
<1>5. GroupHasNative'
  BY <1>1, MaxFaultsAssumption
  DEF CreateGrp, IInv, TypeOK, Shape, IdsExclusive, GroupHasNative
<1>6. PartsHaveGroup'
  BY <1>1, MaxFaultsAssumption
  DEF CreateGrp, IInv, TypeOK, Shape, PartsHaveGroup
<1>7. StateAgrees'
  BY <1>1, MaxFaultsAssumption
  DEF CreateGrp, IInv, TypeOK, Shape, IdsExclusive, GroupHasNative,
      StateAgrees
<1>8. ChnsAgree'
  BY <1>1, MaxFaultsAssumption
  DEF CreateGrp, IInv, TypeOK, Shape, IdsExclusive, PartsHaveGroup,
      ChnsAgree
<1>9. BindAgrees'
  BY <1>1, MaxFaultsAssumption
  DEF CreateGrp, IInv, TypeOK, Shape, IdsExclusive, PartsHaveGroup,
      BindAgrees
<1>10. QED
  BY <1>2, <1>3, <1>4, <1>5, <1>6, <1>7, <1>8, <1>9 DEF IInv

LEMMA CreateGrpFailsKeepsIInv ==
  ASSUME IInv, NEW t \in Thread, CreateGrpFails(t)
  PROVE  IInv'
<1>1. grp[t] \in Ids /\ grp[t] # NoId
  BY DEF CreateGrpFails, IInv, Shape, PartsHaveGroup
<1>2. TypeOK'
  BY <1>1, MaxFaultsAssumption
  DEF CreateGrpFails, IInv, TypeOK
<1>3. Shape'
  BY <1>1, MaxFaultsAssumption
  DEF CreateGrpFails, IInv, Shape
<1>4. IdsExclusive'
  BY <1>1, MaxFaultsAssumption
  DEF CreateGrpFails, IInv, Shape, IdsExclusive
<1>5. GroupHasNative'
  BY <1>1, MaxFaultsAssumption
  DEF CreateGrpFails, IInv, TypeOK, Shape, IdsExclusive, GroupHasNative
<1>6. PartsHaveGroup'
  BY <1>1, MaxFaultsAssumption
  DEF CreateGrpFails, IInv, TypeOK, Shape, PartsHaveGroup
<1>7. StateAgrees'
  BY <1>1, MaxFaultsAssumption
  DEF CreateGrpFails, IInv, TypeOK, Shape, IdsExclusive, GroupHasNative,
      StateAgrees
<1>8. ChnsAgree'
  BY <1>1, MaxFaultsAssumption
  DEF CreateGrpFails, IInv, TypeOK, Shape, IdsExclusive, PartsHaveGroup,
      ChnsAgree
<1>9. BindAgrees'
  BY <1>1, MaxFaultsAssumption
  DEF CreateGrpFails, IInv, TypeOK, Shape, IdsExclusive, PartsHaveGroup,
      BindAgrees
<1>10. QED
  BY <1>2, <1>3, <1>4, <1>5, <1>6, <1>7, <1>8, <1>9 DEF IInv

LEMMA StartKeepsIInv ==
  ASSUME IInv, NEW t \in Thread, Start(t)
  PROVE  IInv'
<1>1. grp[t] \in Ids /\ grp[t] # NoId
  BY DEF Start, IInv, Shape, PartsHaveGroup
<1>2. TypeOK'
  BY <1>1, MaxFaultsAssumption
  DEF Start, IInv, TypeOK
<1>3. Shape'
  BY <1>1, MaxFaultsAssumption
  DEF Start, IInv, Shape
<1>4. IdsExclusive'
  BY <1>1, MaxFaultsAssumption
  DEF Start, IInv, Shape, IdsExclusive
<1>5. GroupHasNative'
  BY <1>1, MaxFaultsAssumption
  DEF Start, IInv, TypeOK, Shape, IdsExclusive, GroupHasNative
<1>6. PartsHaveGroup'
  BY <1>1, MaxFaultsAssumption
  DEF Start, IInv, TypeOK, Shape, PartsHaveGroup
<1>7. StateAgrees'
  BY <1>1, MaxFaultsAssumption
  DEF Start, IInv, TypeOK, Shape, IdsExclusive, GroupHasNative,
      StateAgrees
<1>8. ChnsAgree'
  BY <1>1, MaxFaultsAssumption
  DEF Start, IInv, TypeOK, Shape, IdsExclusive, PartsHaveGroup,
      ChnsAgree
<1>9. BindAgrees'
  BY <1>1, MaxFaultsAssumption
  DEF Start, IInv, TypeOK, Shape, IdsExclusive, PartsHaveGroup,
      BindAgrees
<1>10. QED
  BY <1>2, <1>3, <1>4, <1>5, <1>6, <1>7, <1>8, <1>9 DEF IInv

LEMMA StartFailsKeepsIInv ==
  ASSUME IInv, NEW t \in Thread, StartFails(t)
  PROVE  IInv'
<1>1. grp[t] \in Ids /\ grp[t] # NoId
  BY DEF StartFails, IInv, Shape, PartsHaveGroup
<1>2. TypeOK'
  BY <1>1, MaxFaultsAssumption
  DEF StartFails, IInv, TypeOK
<1>3. Shape'
  BY <1>1, MaxFaultsAssumption
  DEF StartFails, IInv, Shape
<1>4. IdsExclusive'
  BY <1>1, MaxFaultsAssumption
  DEF StartFails, IInv, Shape, IdsExclusive
<1>5. GroupHasNative'
  BY <1>1, MaxFaultsAssumption
  DEF StartFails, IInv, TypeOK, Shape, IdsExclusive, GroupHasNative
<1>6. PartsHaveGroup'
  BY <1>1, MaxFaultsAssumption
  DEF StartFails, IInv, TypeOK, Shape, PartsHaveGroup
<1>7. StateAgrees'
  BY <1>1, MaxFaultsAssumption
  DEF StartFails, IInv, TypeOK, Shape, IdsExclusive, GroupHasNative,
      StateAgrees
<1>8. ChnsAgree'
  BY <1>1, MaxFaultsAssumption
  DEF StartFails, IInv, TypeOK, Shape, IdsExclusive, PartsHaveGroup,
      ChnsAgree
<1>9. BindAgrees'
  BY <1>1, MaxFaultsAssumption
  DEF StartFails, IInv, TypeOK, Shape, IdsExclusive, PartsHaveGroup,
      BindAgrees
<1>10. QED
  BY <1>2, <1>3, <1>4, <1>5, <1>6, <1>7, <1>8, <1>9 DEF IInv

LEMMA BindViKeepsIInv ==
  ASSUME IInv, NEW t \in Thread, NEW src \in Source, BindVi(t, src)
  PROVE  IInv'
<1>1. grp[t] \in Ids /\ grp[t] # NoId
  BY DEF BindVi, IInv, Shape, PartsHaveGroup
<1>2. TypeOK'
  BY <1>1, MaxFaultsAssumption
  DEF BindVi, IInv, TypeOK
<1>3. Shape'
  BY <1>1, MaxFaultsAssumption
  DEF BindVi, IInv, Shape
<1>4. IdsExclusive'
  BY <1>1, MaxFaultsAssumption
  DEF BindVi, IInv, Shape, IdsExclusive
<1>5. GroupHasNative'
  BY <1>1, MaxFaultsAssumption
  DEF BindVi, IInv, TypeOK, Shape, IdsExclusive, GroupHasNative
<1>6. PartsHaveGroup'
  BY <1>1, MaxFaultsAssumption
  DEF BindVi, IInv, TypeOK, Shape, PartsHaveGroup
<1>7. StateAgrees'
  BY <1>1, MaxFaultsAssumption
  DEF BindVi, IInv, TypeOK, Shape, IdsExclusive, GroupHasNative,
      StateAgrees
<1>8. ChnsAgree'
  BY <1>1, MaxFaultsAssumption
  DEF BindVi, IInv, TypeOK, Shape, IdsExclusive, PartsHaveGroup,
      ChnsAgree
<1>9. BindAgrees'
  BY <1>1, MaxFaultsAssumption
  DEF BindVi, IInv, TypeOK, Shape, IdsExclusive, PartsHaveGroup,
      BindAgrees
<1>10. QED
  BY <1>2, <1>3, <1>4, <1>5, <1>6, <1>7, <1>8, <1>9 DEF IInv

LEMMA UnbindKeepsIInv ==
  ASSUME IInv, NEW t \in Thread, Unbind(t)
  PROVE  IInv'
<1>1. grp[t] \in Ids /\ grp[t] # NoId
  BY DEF Unbind, IInv, Shape, PartsHaveGroup
<1>11. \A u \in Thread : u # t /\ pc[u] # "none" =>
        grp[u] \in Ids /\ grp[u] # grp[t]
  BY <1>1 DEF IInv, Shape, IdsExclusive
<1>2. TypeOK'
  BY <1>1, MaxFaultsAssumption
  DEF Unbind, IInv, TypeOK
<1>3. Shape'
  BY <1>1, MaxFaultsAssumption
  DEF Unbind, IInv, Shape
<1>4. IdsExclusive'
  BY <1>1, MaxFaultsAssumption
  DEF Unbind, IInv, Shape, IdsExclusive
<1>5. GroupHasNative'
  BY <1>1, MaxFaultsAssumption
  DEF Unbind, IInv, TypeOK, Shape, IdsExclusive, GroupHasNative
<1>6. PartsHaveGroup'
  BY <1>1, MaxFaultsAssumption
  DEF Unbind, IInv, TypeOK, Shape, PartsHaveGroup
<1>7. StateAgrees'
  BY <1>1, MaxFaultsAssumption
  DEF Unbind, IInv, TypeOK, Shape, IdsExclusive, GroupHasNative,
      StateAgrees
<1>8. ChnsAgree'
  BY <1>1, MaxFaultsAssumption
  DEF Unbind, IInv, TypeOK, Shape, IdsExclusive, PartsHaveGroup,
      ChnsAgree
<1>9. BindAgrees'
  <2> SUFFICES ASSUME NEW u \in Thread, bind'[u] # NoSource
               PROVE  binds'[grp[u]] = bind'[u]
    BY DEF Unbind, BindAgrees
  <2>1. u # t /\ bind'[u] = bind[u] /\ pc[u] # "none"
    BY DEF Unbind, IInv, TypeOK, PartsHaveGroup
  <2>2. binds'[grp[u]] = binds[grp[u]]
    BY <2>1, <1>11 DEF Unbind, IInv, TypeOK
  <2>3. QED
    BY <2>1, <2>2 DEF IInv, BindAgrees
<1>10. QED
  BY <1>2, <1>3, <1>4, <1>5, <1>6, <1>7, <1>8, <1>9 DEF IInv

LEMMA DropKeepsIInv ==
  ASSUME IInv, NEW t \in Thread, Drop(t)
  PROVE  IInv'
<1>1. grp[t] \in Ids /\ grp[t] # NoId
  BY DEF Drop, IInv, Shape, PartsHaveGroup
<1>2. TypeOK'
  BY <1>1, MaxFaultsAssumption
  DEF Drop, IInv, TypeOK
<1>3. Shape'
  BY <1>1, MaxFaultsAssumption
  DEF Drop, IInv, Shape
<1>4. IdsExclusive'
  BY <1>1, MaxFaultsAssumption
  DEF Drop, IInv, Shape, IdsExclusive
<1>5. GroupHasNative'
  BY <1>1, MaxFaultsAssumption
  DEF Drop, IInv, TypeOK, Shape, IdsExclusive, GroupHasNative
<1>6. PartsHaveGroup'
  BY <1>1, MaxFaultsAssumption
  DEF Drop, IInv, TypeOK, Shape, PartsHaveGroup
<1>7. StateAgrees'
  BY <1>1, MaxFaultsAssumption
  DEF Drop, IInv, TypeOK, Shape, IdsExclusive, GroupHasNative,
      StateAgrees
<1>8. ChnsAgree'
  BY <1>1, MaxFaultsAssumption
  DEF Drop, IInv, TypeOK, Shape, IdsExclusive, PartsHaveGroup,
      ChnsAgree
<1>9. BindAgrees'
  BY <1>1, MaxFaultsAssumption
  DEF Drop, IInv, TypeOK, Shape, IdsExclusive, PartsHaveGroup,
      BindAgrees
<1>10. QED
  BY <1>2, <1>3, <1>4, <1>5, <1>6, <1>7, <1>8, <1>9 DEF IInv

LEMMA DropStopKeepsIInv ==
  ASSUME IInv, NEW t \in Thread, DropStop(t)
  PROVE  IInv'
<1>1. grp[t] \in Ids /\ grp[t] # NoId
  BY DEF DropStop, IInv, Shape, PartsHaveGroup
<1>11. \A u \in Thread : u # t /\ pc[u] # "none" =>
        grp[u] \in Ids /\ grp[u] # grp[t]
  BY <1>1 DEF IInv, Shape, IdsExclusive
<1>12. /\ native' \in [Ids -> {"absent", "created", "started"}]
       /\ native'[grp[t]] # "absent"
       /\ \A i \in Ids : i # grp[t] => native'[i] = native[i]
       /\ UNCHANGED <<grp, state>>
       /\ \A u \in Thread : u # t => pc'[u] = pc[u]
       /\ pc'[t] = "destroying"
  <2>1. /\ native \in [Ids -> {"absent", "created", "started"}]
        /\ native[grp[t]] # "absent" /\ HasGroup(t)
    BY <1>1 DEF DropStop, IInv, TypeOK, GroupHasNative, HasGroup
  <2>2. native' = native \/ native' = [native EXCEPT ![grp[t]] = "created"]
    BY DEF DropStop
  <2>3. /\ UNCHANGED <<grp, state>> /\ \A u \in Thread : u # t => pc'[u] = pc[u]
        /\ pc'[t] = "destroying"
    BY DEF DropStop, IInv, Shape, Goto, resourceVars
  <2>4. QED
    BY <1>1, <2>1, <2>2, <2>3
<1>2. TypeOK'
  <2>1. faults' \in 0 .. MaxFaults /\ pc' \in [Thread -> Pc]
    BY MaxFaultsAssumption DEF DropStop, Fault, Goto, IInv, TypeOK, Pc
  <2>2. QED
    BY <1>12, <2>1 DEF DropStop, IInv, TypeOK, resourceVars
<1>3. Shape'
  BY <1>1, MaxFaultsAssumption
  DEF DropStop, IInv, Shape
<1>4. IdsExclusive'
  BY <1>1, MaxFaultsAssumption
  DEF DropStop, IInv, Shape, IdsExclusive
<1>5. GroupHasNative'
  BY <1>11, <1>12 DEF IInv, GroupHasNative
<1>6. PartsHaveGroup'
  BY <1>1, MaxFaultsAssumption
  DEF DropStop, IInv, TypeOK, Shape, PartsHaveGroup
<1>7. StateAgrees'
  BY <1>11, <1>12 DEF IInv, StateAgrees
<1>8. ChnsAgree'
  BY <1>1, MaxFaultsAssumption
  DEF DropStop, IInv, TypeOK, Shape, IdsExclusive, PartsHaveGroup,
      ChnsAgree
<1>9. BindAgrees'
  BY <1>1, MaxFaultsAssumption
  DEF DropStop, IInv, TypeOK, Shape, IdsExclusive, PartsHaveGroup,
      BindAgrees
<1>10. QED
  BY <1>2, <1>3, <1>4, <1>5, <1>6, <1>7, <1>8, <1>9 DEF IInv

LEMMA DropDestroyKeepsIInv ==
  ASSUME IInv, NEW t \in Thread, DropDestroy(t)
  PROVE  IInv'
<1>1. grp[t] \in Ids /\ grp[t] # NoId
  BY DEF DropDestroy, IInv, Shape, PartsHaveGroup
<1>11. \A u \in Thread : u # t /\ pc[u] # "none" =>
        grp[u] \in Ids /\ grp[u] # grp[t]
  BY <1>1 DEF IInv, Shape, IdsExclusive
<1>12. /\ native' \in [Ids -> {"absent", "created", "started"}]
       /\ nativeChn' \in [Ids -> [Chns -> {"none", "configured", "enabled"}]]
       /\ \A i \in Ids : i # grp[t] =>
            native'[i] = native[i] /\ nativeChn'[i] = nativeChn[i]
  <2>1. \/ /\ native' = [native EXCEPT ![grp[t]] = "absent"]
           /\ nativeChn' =
                [nativeChn EXCEPT ![grp[t]] = [c \in Chns |-> "none"]]
        \/ UNCHANGED <<native, nativeChn>>
    BY DEF DropDestroy
  <2>2. native \in [Ids -> {"absent", "created", "started"}]
    BY DEF IInv, TypeOK
  <2>3. nativeChn \in [Ids -> [Chns -> {"none", "configured", "enabled"}]]
    BY DEF IInv, TypeOK
  <2>4. native' \in [Ids -> {"absent", "created", "started"}]
    BY <1>1, <2>1, <2>2
  <2>5. nativeChn' \in [Ids -> [Chns -> {"none", "configured", "enabled"}]]
    BY <1>1, <2>1, <2>3
  <2>6. QED
    BY <1>1, <2>1, <2>2, <2>3, <2>4, <2>5
<1>13. /\ UNCHANGED <<grp, state, chn, bind, binds, available, busy>>
       /\ \A u \in Thread : u # t => pc'[u] = pc[u]
       /\ pc' = [pc EXCEPT ![t] = "releasing"] /\ pc'[t] = "releasing"
       /\ faults' \in 0 .. MaxFaults
       /\ \A c \in Chns : chn[t][c] = "free"
  BY MaxFaultsAssumption DEF DropDestroy, IInv, TypeOK, PartsHaveGroup
<1>2. TypeOK'
  BY <1>12, <1>13 DEF IInv, TypeOK
<1>3. Shape'
  BY <1>1, MaxFaultsAssumption
  DEF DropDestroy, IInv, Shape
<1>4. IdsExclusive'
  BY <1>1, MaxFaultsAssumption
  DEF DropDestroy, IInv, Shape, IdsExclusive
<1>5. GroupHasNative'
  BY <1>11, <1>12, <1>13 DEF IInv, GroupHasNative
<1>6. PartsHaveGroup'
  BY <1>1, MaxFaultsAssumption
  DEF DropDestroy, IInv, TypeOK, Shape, PartsHaveGroup
<1>7. StateAgrees'
  BY <1>11, <1>12, <1>13 DEF IInv, StateAgrees
<1>8. ChnsAgree'
  <2> SUFFICES ASSUME NEW u \in Thread, NEW c \in Chns, chn[u][c] # "free"
               PROVE  u # t /\ nativeChn'[grp[u]][c] = nativeChn[grp[u]][c]
    BY <1>13 DEF IInv, ChnsAgree
  <2>1. u # t /\ pc[u] # "none"
    BY <1>13 DEF IInv, PartsHaveGroup
  <2>2. QED
    BY <2>1, <1>11, <1>12
<1>9. BindAgrees'
  BY <1>1, MaxFaultsAssumption
  DEF DropDestroy, IInv, TypeOK, Shape, IdsExclusive, PartsHaveGroup,
      BindAgrees
<1>10. QED
  BY <1>2, <1>3, <1>4, <1>5, <1>6, <1>7, <1>8, <1>9 DEF IInv

LEMMA ReleaseIdKeepsIInv ==
  ASSUME IInv, NEW t \in Thread, ReleaseId(t)
  PROVE  IInv'
<1>1. /\ grp[t] \in Ids
      /\ grp' = [grp EXCEPT ![t] = NoId]
      /\ available' \subseteq available \cup {grp[t]}
      /\ busy' \subseteq busy
  BY ReleaseIdFreesOnlyItsOwn
<1>2. /\ UNCHANGED <<state, bind, chn, native, nativeChn, binds, faults>>
      /\ pc' = [pc EXCEPT ![t] = "none"] /\ pc[t] = "releasing"
  BY DEF ReleaseId, Goto, nativeVars
<1>3. \A u \in Thread : u # t => pc'[u] = pc[u] /\ grp'[u] = grp[u]
  BY <1>1, <1>2 DEF IInv, Shape
<1>4. /\ pc'[t] = "none" /\ ~HasGroup(t)' /\ bind[t] = NoSource
      /\ \A c \in Chns : chn[t][c] = "free"
  BY <1>2 DEF IInv, Shape, PartsHaveGroup, HasGroup
<1>5. TypeOK'
  BY <1>1, CapacityAssumption
  DEF ReleaseId, IInv, TypeOK
<1>6. Shape'
  BY <1>1, CapacityAssumption
  DEF ReleaseId, IInv, Shape
<1>7. IdsExclusive'
  BY <1>1, CapacityAssumption
  DEF ReleaseId, IInv, Shape, IdsExclusive
<1>8. GroupHasNative'
  BY <1>2, <1>3, <1>4 DEF IInv, GroupHasNative, HasGroup
<1>9. PartsHaveGroup'
  BY <1>2, <1>3, <1>4 DEF IInv, PartsHaveGroup
<1>10. StateAgrees'
  BY <1>2, <1>3, <1>4 DEF IInv, StateAgrees
<1>11. ChnsAgree'
  BY <1>2, <1>3, <1>4 DEF IInv, ChnsAgree
<1>12. BindAgrees'
  BY <1>2, <1>3, <1>4 DEF IInv, BindAgrees
<1>13. QED
  BY <1>5, <1>6, <1>7, <1>8, <1>9, <1>10, <1>11, <1>12 DEF IInv

(* The lowest free channel id is a free one. *)
LEMMA AcqureChnTakesFreeId ==
  ASSUME IInv, NEW t \in Thread, AcqureChn(t)
  PROVE  \E c \in Chns : chn[t][c] = "free" /\ ChnGoto(t, c, "configuring")
<1> DEFINE free == {c \in Chns : chn[t][c] = "free"}
<1>1. free \in SUBSET Nat /\ free # {}
  BY CapacityAssumption DEF AcqureChn, Chns
<1>2. Min(free) \in free
  BY <1>1, CapacityAssumption, SentinelAssumption, Manager!LeastExists
  DEF Min, Manager!Min
<1>3. ChnGoto(t, Min(free), "configuring")
  BY DEF AcqureChn
<1>4. QED
  BY <1>2, <1>3

LEMMA AcqureChnKeepsIInv ==
  ASSUME IInv, NEW t \in Thread, AcqureChn(t)
  PROVE  IInv'
<1>1. /\ grp[t] \in Ids /\ grp[t] # NoId
      /\ \E c \in Chns : chn[t][c] = "free" /\ ChnGoto(t, c, "configuring")
  BY AcqureChnTakesFreeId DEF AcqureChn, IInv, Shape
<1>11. /\ pc[t] = "ready" /\ UNCHANGED <<pc, bind>>
       /\ \A u \in Thread : u # t => chn'[u] = chn[u]
  BY <1>1 DEF AcqureChn, IInv, TypeOK
<1>2. TypeOK'
  BY <1>1, MaxFaultsAssumption
  DEF AcqureChn, IInv, TypeOK
<1>3. Shape'
  BY <1>1, MaxFaultsAssumption
  DEF AcqureChn, IInv, Shape
<1>4. IdsExclusive'
  BY <1>1, MaxFaultsAssumption
  DEF AcqureChn, IInv, Shape, IdsExclusive
<1>5. GroupHasNative'
  BY <1>1, MaxFaultsAssumption
  DEF AcqureChn, IInv, TypeOK, Shape, IdsExclusive, GroupHasNative
<1>6. PartsHaveGroup'
  BY <1>11 DEF IInv, PartsHaveGroup
<1>7. StateAgrees'
  BY <1>1, MaxFaultsAssumption
  DEF AcqureChn, IInv, TypeOK, Shape, IdsExclusive, GroupHasNative,
      StateAgrees
<1>8. ChnsAgree'
  BY <1>1, MaxFaultsAssumption
  DEF AcqureChn, IInv, TypeOK, Shape, IdsExclusive, PartsHaveGroup,
      ChnsAgree
<1>9. BindAgrees'
  BY <1>1, MaxFaultsAssumption
  DEF AcqureChn, IInv, TypeOK, Shape, IdsExclusive, PartsHaveGroup,
      BindAgrees
<1>10. QED
  BY <1>2, <1>3, <1>4, <1>5, <1>6, <1>7, <1>8, <1>9 DEF IInv

LEMMA SetChnAttrKeepsIInv ==
  ASSUME IInv, NEW t \in Thread, NEW c \in Chns, SetChnAttr(t, c)
  PROVE  IInv'
<1>1. grp[t] \in Ids /\ grp[t] # NoId
  BY DEF SetChnAttr, IInv, Shape, PartsHaveGroup
<1>2. TypeOK'
  BY <1>1, MaxFaultsAssumption
  DEF SetChnAttr, IInv, TypeOK
<1>3. Shape'
  BY <1>1, MaxFaultsAssumption
  DEF SetChnAttr, IInv, Shape
<1>4. IdsExclusive'
  BY <1>1, MaxFaultsAssumption
  DEF SetChnAttr, IInv, Shape, IdsExclusive
<1>5. GroupHasNative'
  BY <1>1, MaxFaultsAssumption
  DEF SetChnAttr, IInv, TypeOK, Shape, IdsExclusive, GroupHasNative
<1>6. PartsHaveGroup'
  BY <1>1, MaxFaultsAssumption
  DEF SetChnAttr, IInv, TypeOK, Shape, PartsHaveGroup
<1>7. StateAgrees'
  BY <1>1, MaxFaultsAssumption
  DEF SetChnAttr, IInv, TypeOK, Shape, IdsExclusive, GroupHasNative,
      StateAgrees
<1>8. ChnsAgree'
  BY <1>1, MaxFaultsAssumption
  DEF SetChnAttr, IInv, TypeOK, Shape, IdsExclusive, PartsHaveGroup,
      ChnsAgree
<1>9. BindAgrees'
  BY <1>1, MaxFaultsAssumption
  DEF SetChnAttr, IInv, TypeOK, Shape, IdsExclusive, PartsHaveGroup,
      BindAgrees
<1>10. QED
  BY <1>2, <1>3, <1>4, <1>5, <1>6, <1>7, <1>8, <1>9 DEF IInv

LEMMA SetChnAttrFailsKeepsIInv ==
  ASSUME IInv, NEW t \in Thread, NEW c \in Chns, SetChnAttrFails(t, c)
  PROVE  IInv'
<1>1. grp[t] \in Ids /\ grp[t] # NoId
  BY DEF SetChnAttrFails, IInv, Shape, PartsHaveGroup
<1>2. TypeOK'
  BY <1>1, MaxFaultsAssumption
  DEF SetChnAttrFails, IInv, TypeOK
<1>3. Shape'
  BY <1>1, MaxFaultsAssumption
  DEF SetChnAttrFails, IInv, Shape
<1>4. IdsExclusive'
  BY <1>1, MaxFaultsAssumption
  DEF SetChnAttrFails, IInv, Shape, IdsExclusive
<1>5. GroupHasNative'
  BY <1>1, MaxFaultsAssumption
  DEF SetChnAttrFails, IInv, TypeOK, Shape, IdsExclusive, GroupHasNative
<1>6. PartsHaveGroup'
  BY <1>1, MaxFaultsAssumption
  DEF SetChnAttrFails, IInv, TypeOK, Shape, PartsHaveGroup
<1>7. StateAgrees'
  BY <1>1, MaxFaultsAssumption
  DEF SetChnAttrFails, IInv, TypeOK, Shape, IdsExclusive, GroupHasNative,
      StateAgrees
<1>8. ChnsAgree'
  BY <1>1, MaxFaultsAssumption
  DEF SetChnAttrFails, IInv, TypeOK, Shape, IdsExclusive, PartsHaveGroup,
      ChnsAgree
<1>9. BindAgrees'
  BY <1>1, MaxFaultsAssumption
  DEF SetChnAttrFails, IInv, TypeOK, Shape, IdsExclusive, PartsHaveGroup,
      BindAgrees
<1>10. QED
  BY <1>2, <1>3, <1>4, <1>5, <1>6, <1>7, <1>8, <1>9 DEF IInv

LEMMA EnableChnKeepsIInv ==
  ASSUME IInv, NEW t \in Thread, NEW c \in Chns, EnableChn(t, c)
  PROVE  IInv'
<1>1. grp[t] \in Ids /\ grp[t] # NoId
  BY DEF EnableChn, IInv, Shape, PartsHaveGroup
<1>2. TypeOK'
  BY <1>1, MaxFaultsAssumption
  DEF EnableChn, IInv, TypeOK
<1>3. Shape'
  BY <1>1, MaxFaultsAssumption
  DEF EnableChn, IInv, Shape
<1>4. IdsExclusive'
  BY <1>1, MaxFaultsAssumption
  DEF EnableChn, IInv, Shape, IdsExclusive
<1>5. GroupHasNative'
  BY <1>1, MaxFaultsAssumption
  DEF EnableChn, IInv, TypeOK, Shape, IdsExclusive, GroupHasNative
<1>6. PartsHaveGroup'
  BY <1>1, MaxFaultsAssumption
  DEF EnableChn, IInv, TypeOK, Shape, PartsHaveGroup
<1>7. StateAgrees'
  BY <1>1, MaxFaultsAssumption
  DEF EnableChn, IInv, TypeOK, Shape, IdsExclusive, GroupHasNative,
      StateAgrees
<1>8. ChnsAgree'
  BY <1>1, MaxFaultsAssumption
  DEF EnableChn, IInv, TypeOK, Shape, IdsExclusive, PartsHaveGroup,
      ChnsAgree
<1>9. BindAgrees'
  BY <1>1, MaxFaultsAssumption
  DEF EnableChn, IInv, TypeOK, Shape, IdsExclusive, PartsHaveGroup,
      BindAgrees
<1>10. QED
  BY <1>2, <1>3, <1>4, <1>5, <1>6, <1>7, <1>8, <1>9 DEF IInv

LEMMA EnableChnFailsKeepsIInv ==
  ASSUME IInv, NEW t \in Thread, NEW c \in Chns, EnableChnFails(t, c)
  PROVE  IInv'
<1>1. grp[t] \in Ids /\ grp[t] # NoId
  BY DEF EnableChnFails, IInv, Shape, PartsHaveGroup
<1>2. TypeOK'
  BY <1>1, MaxFaultsAssumption
  DEF EnableChnFails, IInv, TypeOK
<1>3. Shape'
  BY <1>1, MaxFaultsAssumption
  DEF EnableChnFails, IInv, Shape
<1>4. IdsExclusive'
  BY <1>1, MaxFaultsAssumption
  DEF EnableChnFails, IInv, Shape, IdsExclusive
<1>5. GroupHasNative'
  BY <1>1, MaxFaultsAssumption
  DEF EnableChnFails, IInv, TypeOK, Shape, IdsExclusive, GroupHasNative
<1>6. PartsHaveGroup'
  BY <1>1, MaxFaultsAssumption
  DEF EnableChnFails, IInv, TypeOK, Shape, PartsHaveGroup
<1>7. StateAgrees'
  BY <1>1, MaxFaultsAssumption
  DEF EnableChnFails, IInv, TypeOK, Shape, IdsExclusive, GroupHasNative,
      StateAgrees
<1>8. ChnsAgree'
  BY <1>1, MaxFaultsAssumption
  DEF EnableChnFails, IInv, TypeOK, Shape, IdsExclusive, PartsHaveGroup,
      ChnsAgree
<1>9. BindAgrees'
  BY <1>1, MaxFaultsAssumption
  DEF EnableChnFails, IInv, TypeOK, Shape, IdsExclusive, PartsHaveGroup,
      BindAgrees
<1>10. QED
  BY <1>2, <1>3, <1>4, <1>5, <1>6, <1>7, <1>8, <1>9 DEF IInv

LEMMA DisableChnKeepsIInv ==
  ASSUME IInv, NEW t \in Thread, NEW c \in Chns, DisableChn(t, c)
  PROVE  IInv'
<1>1. grp[t] \in Ids /\ grp[t] # NoId
  BY DEF DisableChn, IInv, Shape, PartsHaveGroup
<1>2. TypeOK'
  BY <1>1, MaxFaultsAssumption
  DEF DisableChn, IInv, TypeOK
<1>3. Shape'
  BY <1>1, MaxFaultsAssumption
  DEF DisableChn, IInv, Shape
<1>4. IdsExclusive'
  BY <1>1, MaxFaultsAssumption
  DEF DisableChn, IInv, Shape, IdsExclusive
<1>5. GroupHasNative'
  BY <1>1, MaxFaultsAssumption
  DEF DisableChn, IInv, TypeOK, Shape, IdsExclusive, GroupHasNative
<1>6. PartsHaveGroup'
  BY <1>1, MaxFaultsAssumption
  DEF DisableChn, IInv, TypeOK, Shape, PartsHaveGroup
<1>7. StateAgrees'
  BY <1>1, MaxFaultsAssumption
  DEF DisableChn, IInv, TypeOK, Shape, IdsExclusive, GroupHasNative,
      StateAgrees
<1>8. ChnsAgree'
  BY <1>1, MaxFaultsAssumption
  DEF DisableChn, IInv, TypeOK, Shape, IdsExclusive, PartsHaveGroup,
      ChnsAgree
<1>9. BindAgrees'
  BY <1>1, MaxFaultsAssumption
  DEF DisableChn, IInv, TypeOK, Shape, IdsExclusive, PartsHaveGroup,
      BindAgrees
<1>10. QED
  BY <1>2, <1>3, <1>4, <1>5, <1>6, <1>7, <1>8, <1>9 DEF IInv

LEMMA DisableChnFailsKeepsIInv ==
  ASSUME IInv, NEW t \in Thread, NEW c \in Chns, DisableChnFails(t, c)
  PROVE  IInv'
<1>1. grp[t] \in Ids /\ grp[t] # NoId
  BY DEF DisableChnFails, IInv, Shape, PartsHaveGroup
<1>2. TypeOK'
  BY <1>1, MaxFaultsAssumption
  DEF DisableChnFails, IInv, TypeOK
<1>3. Shape'
  BY <1>1, MaxFaultsAssumption
  DEF DisableChnFails, IInv, Shape
<1>4. IdsExclusive'
  BY <1>1, MaxFaultsAssumption
  DEF DisableChnFails, IInv, Shape, IdsExclusive
<1>5. GroupHasNative'
  BY <1>1, MaxFaultsAssumption
  DEF DisableChnFails, IInv, TypeOK, Shape, IdsExclusive, GroupHasNative
<1>6. PartsHaveGroup'
  BY <1>1, MaxFaultsAssumption
  DEF DisableChnFails, IInv, TypeOK, Shape, PartsHaveGroup
<1>7. StateAgrees'
  BY <1>1, MaxFaultsAssumption
  DEF DisableChnFails, IInv, TypeOK, Shape, IdsExclusive, GroupHasNative,
      StateAgrees
<1>8. ChnsAgree'
  BY <1>1, MaxFaultsAssumption
  DEF DisableChnFails, IInv, TypeOK, Shape, IdsExclusive, PartsHaveGroup,
      ChnsAgree
<1>9. BindAgrees'
  BY <1>1, MaxFaultsAssumption
  DEF DisableChnFails, IInv, TypeOK, Shape, IdsExclusive, PartsHaveGroup,
      BindAgrees
<1>10. QED
  BY <1>2, <1>3, <1>4, <1>5, <1>6, <1>7, <1>8, <1>9 DEF IInv

LEMMA DropChnKeepsIInv ==
  ASSUME IInv, NEW t \in Thread, NEW c \in Chns, DropChn(t, c)
  PROVE  IInv'
<1>1. grp[t] \in Ids /\ grp[t] # NoId
  BY DEF DropChn, IInv, Shape, PartsHaveGroup
<1>11. /\ chn' \in [Thread -> [Chns -> ChnPc]]
       /\ \A u \in Thread, d \in Chns :
            u # t \/ d # c => chn'[u][d] = chn[u][d]
       /\ chn[t][c] # "free"
       /\ UNCHANGED <<pc, bind>>
  <2>1. PICK p \in ChnPc : chn' = [chn EXCEPT ![t][c] = p]
    BY DEF DropChn
  <2>2. chn \in [Thread -> [Chns -> ChnPc]]
    BY DEF IInv, TypeOK
  <2>3. chn' \in [Thread -> [Chns -> ChnPc]]
    BY <2>1, <2>2
  <2>4. chn[t][c] # "free" /\ UNCHANGED <<pc, bind>>
    BY DEF DropChn
  <2>5. QED
    BY <2>1, <2>2, <2>3, <2>4
<1>2. TypeOK'
  BY <1>11 DEF DropChn, IInv, TypeOK
<1>3. Shape'
  BY <1>1, MaxFaultsAssumption
  DEF DropChn, IInv, Shape
<1>4. IdsExclusive'
  BY <1>1, MaxFaultsAssumption
  DEF DropChn, IInv, Shape, IdsExclusive
<1>5. GroupHasNative'
  BY <1>1, MaxFaultsAssumption
  DEF DropChn, IInv, TypeOK, Shape, IdsExclusive, GroupHasNative
<1>6. PartsHaveGroup'
  BY <1>11 DEF IInv, PartsHaveGroup
<1>7. StateAgrees'
  BY <1>1, MaxFaultsAssumption
  DEF DropChn, IInv, TypeOK, Shape, IdsExclusive, GroupHasNative,
      StateAgrees
<1>8. ChnsAgree'
  BY <1>1, MaxFaultsAssumption
  DEF DropChn, IInv, TypeOK, Shape, IdsExclusive, PartsHaveGroup,
      ChnsAgree
<1>9. BindAgrees'
  BY <1>1, MaxFaultsAssumption
  DEF DropChn, IInv, TypeOK, Shape, IdsExclusive, PartsHaveGroup,
      BindAgrees
<1>10. QED
  BY <1>2, <1>3, <1>4, <1>5, <1>6, <1>7, <1>8, <1>9 DEF IInv

LEMMA DropDisableKeepsIInv ==
  ASSUME IInv, NEW t \in Thread, NEW c \in Chns, DropDisable(t, c)
  PROVE  IInv'
<1>1. grp[t] \in Ids /\ grp[t] # NoId
  BY DEF DropDisable, IInv, Shape, PartsHaveGroup
<1>11. /\ chn' \in [Thread -> [Chns -> ChnPc]]
       /\ \A u \in Thread, d \in Chns :
            u # t \/ d # c => chn'[u][d] = chn[u][d]
       /\ chn[t][c] # "free"
       /\ UNCHANGED <<pc, bind>>
  BY DEF DropDisable, IInv, TypeOK
<1>12. \A u \in Thread : u # t /\ pc[u] # "none" =>
        grp[u] \in Ids /\ grp[u] # grp[t]
  BY <1>1 DEF IInv, Shape, IdsExclusive
<1>13. /\ nativeChn' \in [Ids -> [Chns -> {"none", "configured", "enabled"}]]
       /\ faults' \in 0 .. MaxFaults
       /\ \A i \in Ids, d \in Chns : i # grp[t] \/ d # c =>
            nativeChn'[i][d] = nativeChn[i][d]
  <2>1. \/ nativeChn' = [nativeChn EXCEPT ![grp[t]][c] = "configured"]
        \/ UNCHANGED nativeChn
    BY DEF DropDisable
  <2>2. nativeChn \in [Ids -> [Chns -> {"none", "configured", "enabled"}]]
    BY DEF IInv, TypeOK
  <2>3. nativeChn' \in [Ids -> [Chns -> {"none", "configured", "enabled"}]]
    BY <1>1, <2>1, <2>2
  <2>4. faults' \in 0 .. MaxFaults
    BY MaxFaultsAssumption DEF DropDisable, IInv, TypeOK
  <2>5. QED
    BY <1>1, <2>1, <2>2, <2>3, <2>4
<1>2. TypeOK'
  BY <1>11, <1>13 DEF DropDisable, IInv, TypeOK
<1>3. Shape'
  BY <1>1, MaxFaultsAssumption
  DEF DropDisable, IInv, Shape
<1>4. IdsExclusive'
  BY <1>1, MaxFaultsAssumption
  DEF DropDisable, IInv, Shape, IdsExclusive
<1>5. GroupHasNative'
  BY <1>1, MaxFaultsAssumption
  DEF DropDisable, IInv, TypeOK, Shape, IdsExclusive, GroupHasNative
<1>6. PartsHaveGroup'
  BY <1>1, MaxFaultsAssumption
  DEF DropDisable, IInv, TypeOK, Shape, PartsHaveGroup
<1>7. StateAgrees'
  BY <1>1, MaxFaultsAssumption
  DEF DropDisable, IInv, TypeOK, Shape, IdsExclusive, GroupHasNative,
      StateAgrees
<1>8. ChnsAgree'
  <2> SUFFICES ASSUME NEW u \in Thread, NEW d \in Chns,
                      chn'[u][d] \notin {"free", "releasing"}
               PROVE  /\ chn'[u][d] = chn[u][d]
                      /\ nativeChn'[grp[u]][d] = nativeChn[grp[u]][d]
    BY DEF DropDisable, IInv, ChnsAgree
  <2>1. u # t \/ d # c
    BY DEF DropDisable, IInv, TypeOK
  <2>2. chn'[u][d] = chn[u][d]
    BY <1>11, <2>1
  <2>3. grp[u] \in Ids /\ (grp[u] # grp[t] \/ d # c)
    <3>1. pc[u] # "none"
      BY <2>2 DEF IInv, PartsHaveGroup
    <3>2. QED
      BY <1>1, <1>12, <2>1, <3>1
  <2>4. QED
    BY <1>13, <2>2, <2>3
<1>9. BindAgrees'
  BY <1>1, MaxFaultsAssumption
  DEF DropDisable, IInv, TypeOK, Shape, IdsExclusive, PartsHaveGroup,
      BindAgrees
<1>10. QED
  BY <1>2, <1>3, <1>4, <1>5, <1>6, <1>7, <1>8, <1>9 DEF IInv

LEMMA ReleaseChnKeepsIInv ==
  ASSUME IInv, NEW t \in Thread, NEW c \in Chns, ReleaseChn(t, c)
  PROVE  IInv'
<1>1. grp[t] \in Ids /\ grp[t] # NoId
  BY DEF ReleaseChn, IInv, Shape, PartsHaveGroup
<1>2. TypeOK'
  BY <1>1, MaxFaultsAssumption
  DEF ReleaseChn, IInv, TypeOK
<1>3. Shape'
  BY <1>1, MaxFaultsAssumption
  DEF ReleaseChn, IInv, Shape
<1>4. IdsExclusive'
  BY <1>1, MaxFaultsAssumption
  DEF ReleaseChn, IInv, Shape, IdsExclusive
<1>5. GroupHasNative'
  BY <1>1, MaxFaultsAssumption
  DEF ReleaseChn, IInv, TypeOK, Shape, IdsExclusive, GroupHasNative
<1>6. PartsHaveGroup'
  BY <1>1, MaxFaultsAssumption
  DEF ReleaseChn, IInv, TypeOK, Shape, PartsHaveGroup
<1>7. StateAgrees'
  BY <1>1, MaxFaultsAssumption
  DEF ReleaseChn, IInv, TypeOK, Shape, IdsExclusive, GroupHasNative,
      StateAgrees
<1>8. ChnsAgree'
  BY <1>1, MaxFaultsAssumption
  DEF ReleaseChn, IInv, TypeOK, Shape, IdsExclusive, PartsHaveGroup,
      ChnsAgree
<1>9. BindAgrees'
  BY <1>1, MaxFaultsAssumption
  DEF ReleaseChn, IInv, TypeOK, Shape, IdsExclusive, PartsHaveGroup,
      BindAgrees
<1>10. QED
  BY <1>2, <1>3, <1>4, <1>5, <1>6, <1>7, <1>8, <1>9 DEF IInv

HIDE DEF HasGroup, Unshared, Goto, ChnGoto, Fault, Pc, ChnPc, Ids, NoId,
         resourceVars, groupVars, nativeVars

LEMMA Invariance == Spec => []IInv
<1>1. Init => IInv
  <2> SUFFICES ASSUME Init PROVE IInv
    OBVIOUS
  <2>1. TypeOK
    BY MaxFaultsAssumption DEF Init, TypeOK, Pc, ChnPc, NoId
  <2>2. Shape
    BY DEF Init, Shape, Pc
  <2>3. QED
    BY <2>1, <2>2
    DEF Init, IInv, IdsExclusive, GroupHasNative, PartsHaveGroup,
        StateAgrees, ChnsAgree, BindAgrees, HasGroup, NoId
<1>2. IInv /\ [Next]_vars => IInv'
  <2> SUFFICES ASSUME IInv, [Next]_vars
               PROVE  IInv'
    OBVIOUS
  <2>1. ASSUME NEW t \in Thread, GroupNext(t)
        PROVE  IInv'
    BY <2>1, AcqureKeepsIInv, CreateGrpKeepsIInv, CreateGrpFailsKeepsIInv,
       StartKeepsIInv, StartFailsKeepsIInv, BindViKeepsIInv, UnbindKeepsIInv,
       DropKeepsIInv, DropStopKeepsIInv, DropDestroyKeepsIInv,
       ReleaseIdKeepsIInv
    DEF GroupNext
  <2>2. ASSUME NEW t \in Thread, NEW c \in Chns, ChnNext(t, c)
        PROVE  IInv'
    BY <2>2, SetChnAttrKeepsIInv, SetChnAttrFailsKeepsIInv,
       EnableChnKeepsIInv, EnableChnFailsKeepsIInv, DisableChnKeepsIInv,
       DisableChnFailsKeepsIInv, DropChnKeepsIInv, DropDisableKeepsIInv,
       ReleaseChnKeepsIInv
    DEF ChnNext
  <2>3. CASE UNCHANGED vars
    BY <2>3
    DEF vars, resourceVars, groupVars, nativeVars, IInv, TypeOK, Shape,
        IdsExclusive, GroupHasNative, PartsHaveGroup, StateAgrees, ChnsAgree,
        BindAgrees, HasGroup
  <2>4. QED
    BY <2>1, <2>2, <2>3, AcqureChnKeepsIInv DEF Next
<1>3. QED
  BY <1>1, <1>2, PTL DEF Spec

-----------------------------------------------------------------------------
(* The state keeps its type.                                               *)
THEOREM TypeCorrect == Spec => []TypeOK
<1>1. IInv => TypeOK
  BY DEF IInv
<1>2. QED
  BY <1>1, Invariance, PTL

(* The native group of a group object exists, is nobody else's and is not  *)
(* destroyed while a channel or a bind shares it, whichever handle of the  *)
(* owned variants goes first (VpssGroupInner::drop).                       *)
THEOREM GroupsOutliveTheirParts == Spec => []GroupOutlivesParts
BY IInvSuffices, Invariance, PTL
-----------------------------------------------------------------------------
(* A set that gains at most one element gains at most one in size.         *)
LEMMA OneMore ==
  ASSUME NEW S, NEW T, NEW x, IsFiniteSet(S), T \subseteq S \cup {x}
  PROVE  /\ IsFiniteSet(T)
         /\ Cardinality(S) \in Nat /\ Cardinality(T) \in Nat
         /\ Cardinality(T) =< Cardinality(S) + 1
         /\ T \subseteq S => Cardinality(T) =< Cardinality(S)
<1>1. /\ IsFiniteSet(S \cup {x})
      /\ Cardinality(S \cup {x}) = IF x \in S THEN Cardinality(S) ELSE Cardinality(S) + 1
  BY FS_AddElement, Zenon
<1>2. IsFiniteSet(T) /\ Cardinality(T) =< Cardinality(S \cup {x})
  BY <1>1, FS_Subset
<1>3. Cardinality(S) \in Nat /\ Cardinality(T) \in Nat
  BY <1>2, FS_CardinalityType
<1>4. T \subseteq S => Cardinality(T) =< Cardinality(S)
  BY FS_Subset
<1>5. QED
  BY <1>1, <1>2, <1>3, <1>4

(* A failed stop shows only when the destroy gives BUSY: the account takes *)
(* the group in when its stop fails.                                       *)
DoomedGroups ==
  {i \in Ids : native[i] # "absent"
               /\ \A t \in Thread : HasGroup(t) /\ grp[t] = i =>
                    pc[t] = "destroying" /\ native[i] = "started"}

Account ==
  /\ IsFiniteSet(DoomedGroups) /\ IsFiniteSet(LeftChns) /\ IsFiniteSet(LeftBinds)
  /\ Cardinality(DoomedGroups) + Cardinality(LeftChns) + Cardinality(LeftBinds) =< faults

(* What a step can add to each account. *)
Gains(groups, chns, sources) ==
  /\ DoomedGroups' \subseteq DoomedGroups \cup groups
  /\ LeftChns' \subseteq LeftChns \cup chns
  /\ LeftBinds' \subseteq LeftBinds \cup sources

USE DEF HasGroup, Goto, ChnGoto, Fault, Pc, ChnPc, resourceVars, groupVars, nativeVars

(* The groups of a thread are its own. *)
LEMMA GroupIsOwn ==
  ASSUME IInv, NEW t \in Thread, pc[t] # "none"
  PROVE  /\ grp[t] \in Ids
         /\ \A u \in Thread : u # t => grp[u] # grp[t]
BY DEF IInv, Shape, IdsExclusive

(* Steps of a group that leave nothing behind. *)
LEMMA LifeGainsNothing ==
  ASSUME IInv, NEW t \in Thread,
         \/ Acqure(t) \/ CreateGrp(t) \/ CreateGrpFails(t)
         \/ Start(t) \/ StartFails(t) \/ Drop(t) \/ ReleaseId(t)
  PROVE  Gains({}, {}, {}) /\ faults' \in {faults, faults + 1}
<1>1. UNCHANGED <<bind, chn, nativeChn, binds>> /\ faults' \in {faults, faults + 1}
  BY DEF Acqure, CreateGrp, CreateGrpFails, Start, StartFails, Drop, ReleaseId
<1>2. \A u \in Thread : u # t => grp'[u] = grp[u] /\ pc'[u] = pc[u]
  BY DEF Acqure, CreateGrp, CreateGrpFails, Start, StartFails, Drop, ReleaseId,
         IInv, TypeOK
<1>3. \/ grp'[t] = grp[t]
      \/ bind[t] = NoSource /\ (\A c \in Chns : chn[t][c] = "free") /\ ~HasGroup(t)
  <2>1. CASE Acqure(t) \/ ReleaseId(t)
    BY <2>1 DEF Acqure, ReleaseId, IInv, PartsHaveGroup
  <2>2. CASE CreateGrp(t) \/ CreateGrpFails(t) \/ Start(t) \/ StartFails(t) \/ Drop(t)
    <3>1. UNCHANGED resourceVars
      BY <2>2, Zenon DEF CreateGrp, CreateGrpFails, Start, StartFails, Drop
    <3>2. QED
      BY <3>1
  <2>3. QED
    BY <2>1, <2>2
<1>4. HasGroup(t) => grp'[t] = grp[t] /\ pc'[t] \in {"ready", "shared"} /\ pc[t] # "destroying"
  BY DEF Acqure, CreateGrp, CreateGrpFails, Start, StartFails, Drop, ReleaseId,
         IInv, TypeOK
<1>5. \/ UNCHANGED native
      \/ /\ grp'[t] = grp[t] /\ pc'[t] = "ready"
         /\ \A i \in Ids : i # grp[t] => native'[i] = native[i]
  BY DEF Acqure, CreateGrp, CreateGrpFails, Start, StartFails, Drop, ReleaseId,
         IInv, TypeOK
<1>6. DoomedGroups' \subseteq DoomedGroups
  BY <1>2, <1>3, <1>4, <1>5 DEF DoomedGroups
<1>7. LeftChns' \subseteq LeftChns /\ LeftBinds' \subseteq LeftBinds
  BY <1>1, <1>2, <1>3 DEF LeftChns, LeftBinds
<1>8. QED
  BY <1>1, <1>6, <1>7 DEF Gains

LEMMA BindGains ==
  ASSUME IInv, NEW t \in Thread, Unbind(t) \/ \E src \in Source : BindVi(t, src)
  PROVE  \/ Gains({}, {}, {}) /\ faults' = faults
         \/ Gains({}, {}, {grp[t]}) /\ faults' = faults + 1
<1>1. UNCHANGED <<grp, pc, chn, native, nativeChn>>
  BY DEF Unbind, BindVi
<1>2. DoomedGroups' = DoomedGroups /\ LeftChns' = LeftChns
  BY <1>1 DEF DoomedGroups, LeftChns
<1>3. grp[t] \in Ids /\ \A u \in Thread : u # t => grp[u] # grp[t]
  BY GroupIsOwn DEF Unbind, BindVi, IInv, PartsHaveGroup
<1>4. CASE Unbind(t)
  BY <1>1, <1>2, <1>3, <1>4 DEF Unbind, LeftBinds, Gains, IInv, TypeOK
<1>5. CASE \E src \in Source : BindVi(t, src)
  BY <1>1, <1>2, <1>3, <1>5, SentinelAssumption DEF BindVi, LeftBinds, Gains, IInv, TypeOK
<1>6. QED
  BY <1>4, <1>5

LEMMA DropGains ==
  ASSUME IInv, NEW t \in Thread, DropStop(t) \/ DropDestroy(t)
  PROVE  \/ Gains({}, {}, {}) /\ faults' = faults
         \/ Gains({grp[t]}, {}, {}) /\ faults' = faults + 1
<1>1. UNCHANGED <<grp, bind, chn, binds>>
  BY DEF DropStop, DropDestroy
<1>2. grp[t] \in Ids /\ \A u \in Thread : u # t => grp[u] # grp[t]
  BY GroupIsOwn DEF DropStop, DropDestroy
<1>3. LeftBinds' = LeftBinds
  BY <1>1 DEF LeftBinds
<1>4. LeftChns' \subseteq LeftChns
  <2>1. \A i \in Ids, c \in Chns : nativeChn'[i][c] = "enabled" => nativeChn[i][c] = "enabled"
    <3>1. CASE nativeChn' = nativeChn
      BY <3>1
    <3>2. CASE nativeChn' = [nativeChn EXCEPT ![grp[t]] = [c \in Chns |-> "none"]]
      <4>1. DOMAIN nativeChn = Ids
        BY DEF IInv, TypeOK
      <4>2. \A i \in Ids : nativeChn'[i] =
              IF i = grp[t] THEN [c \in Chns |-> "none"] ELSE nativeChn[i]
        BY <3>2, <4>1
      <4>3. \A c \in Chns : nativeChn'[grp[t]][c] = "none"
        BY <1>2, <4>2
      <4>4. QED
        BY <4>2, <4>3
    <3>3. nativeChn' = nativeChn \/ nativeChn' = [nativeChn EXCEPT ![grp[t]] = [c \in Chns |-> "none"]]
      BY Zenon DEF DropStop, DropDestroy
    <3>4. QED
      BY <3>1, <3>2, <3>3
  <2>2. QED
    BY <1>1, <2>1 DEF LeftChns
<1>5. CASE DropStop(t)
  <2>1. DoomedGroups' \subseteq DoomedGroups \cup {grp[t]}
    BY <1>2, <1>5 DEF DropStop, DoomedGroups, IInv, TypeOK
  <2>2. faults' = faults => native'[grp[t]] # "started"
    BY <1>2, <1>5, MaxFaultsAssumption DEF DropStop, IInv, TypeOK, StateAgrees
  <2>3. pc'[t] = "destroying"
    BY <1>5 DEF DropStop, IInv, TypeOK
  <2>4. faults' = faults => grp[t] \notin DoomedGroups'
    BY <1>1, <2>2, <2>3 DEF DoomedGroups
  <2>5. faults' = faults \/ faults' = faults + 1
    BY <1>5 DEF DropStop
  <2>6. QED
    BY <1>3, <1>4, <2>1, <2>4, <2>5 DEF Gains
<1>6. CASE DropDestroy(t)
  <2>1. DoomedGroups' \subseteq DoomedGroups \cup {grp[t]}
    BY <1>2, <1>6 DEF DropDestroy, DoomedGroups, IInv, TypeOK
  <2>2. faults' = faults \/ faults' = faults + 1
    BY <1>6 DEF DropDestroy
  <2>3. CASE native[grp[t]] = "started"
    <3>1. grp[t] \in DoomedGroups
      BY <1>2, <1>6, <2>3 DEF DropDestroy, DoomedGroups
    <3>2. QED
      BY <1>3, <1>4, <2>1, <2>2, <3>1 DEF Gains
  <2>4. CASE native[grp[t]] # "started" /\ faults' = faults
    <3>1. native'[grp[t]] = "absent"
      BY <1>2, <1>6, <2>4, MaxFaultsAssumption DEF DropDestroy, IInv, TypeOK
    <3>2. grp[t] \notin DoomedGroups'
      BY <3>1 DEF DoomedGroups
    <3>3. QED
      BY <1>3, <1>4, <2>1, <2>4, <3>2 DEF Gains
  <2>5. QED
    BY <1>3, <1>4, <2>1, <2>2, <2>3, <2>4 DEF Gains
<1>7. QED
  BY <1>5, <1>6

(* A channel is left enabled only by a failing disable of its drop. *)
LEMMA ChnGains ==
  ASSUME IInv, NEW t \in Thread, NEW c \in Chns,
         ChnNext(t, c) \/ AcqureChn(t)
  PROVE  \/ Gains({}, {}, {}) /\ faults' \in {faults, faults + 1}
         \/ Gains({}, {<<grp[t], c>>}, {}) /\ faults' = faults + 1
<1>1. UNCHANGED <<grp, pc, bind, native, binds>>
  BY DEF ChnNext, AcqureChn, SetChnAttr, SetChnAttrFails, EnableChn,
         EnableChnFails, DisableChn, DisableChnFails, DropChn, DropDisable, ReleaseChn
<1>2. DoomedGroups' = DoomedGroups /\ LeftBinds' = LeftBinds
  BY <1>1 DEF DoomedGroups, LeftBinds
<1>3. CASE \/ AcqureChn(t) \/ SetChnAttr(t, c) \/ SetChnAttrFails(t, c)
           \/ EnableChnFails(t, c) \/ DisableChnFails(t, c) \/ DropChn(t, c)
           \/ ReleaseChn(t, c)
  <2>1. \A u \in Thread, d \in Chns :
          chn[u][d] \in {"enabled", "disabling"} => chn'[u][d] \in {"enabled", "disabling"}
    <3>1. CASE AcqureChn(t)
      <4>1. PICK free \in Chns : chn[t][free] = "free" /\ ChnGoto(t, free, "configuring")
        BY <3>1, AcqureChnTakesFreeId
      <4>2. \A u \in Thread, d \in Chns : u # t \/ d # free => chn'[u][d] = chn[u][d]
        BY <4>1 DEF IInv, TypeOK
      <4>3. QED
        BY <4>1, <4>2
    <3>2. CASE SetChnAttr(t, c) \/ SetChnAttrFails(t, c) \/ EnableChnFails(t, c)
      <4>1. /\ chn[t][c] \in {"configuring", "disabled"}
            /\ \E where \in ChnPc : chn' = [chn EXCEPT ![t][c] = where]
        BY <3>2 DEF SetChnAttr, SetChnAttrFails, EnableChnFails
      <4>2. QED
        BY <4>1 DEF IInv, TypeOK
    <3>3. CASE DisableChnFails(t, c)
      <4>1. chn' = [chn EXCEPT ![t][c] = "disabling"]
        BY <3>3 DEF DisableChnFails
      <4>2. chn'[t][c] = "disabling"
            /\ \A u \in Thread, d \in Chns : u # t \/ d # c => chn'[u][d] = chn[u][d]
        BY <4>1 DEF IInv, TypeOK
      <4>3. QED
        BY <4>2
    <3>4. CASE ReleaseChn(t, c)
      BY <3>4 DEF ReleaseChn, IInv, TypeOK
    <3>5. CASE DropChn(t, c)
      <4>1. CASE chn[t][c] = "enabled" /\ chn' = [chn EXCEPT ![t][c] = "disabling"]
        <5>1. chn'[t][c] = "disabling"
              /\ \A u \in Thread, d \in Chns : u # t \/ d # c => chn'[u][d] = chn[u][d]
          BY <4>1 DEF IInv, TypeOK
        <5>2. QED
          BY <5>1
      <4>2. CASE chn[t][c] = "disabled" /\ chn' = [chn EXCEPT ![t][c] = "releasing"]
        BY <4>2 DEF IInv, TypeOK
      <4>3. QED
        BY <3>5, <4>1, <4>2 DEF DropChn
    <3>6. QED
      BY <1>3, <3>1, <3>2, <3>3, <3>4, <3>5
  <2>2. \A i \in Ids, d \in Chns : nativeChn'[i][d] = "enabled" => nativeChn[i][d] = "enabled"
    <3>1. CASE SetChnAttr(t, c)
      <4>0. grp[t] \in Ids
        BY <3>1, GroupIsOwn DEF SetChnAttr, IInv, PartsHaveGroup
      <4>1. grp[t] \in Ids /\ DOMAIN nativeChn = Ids /\ \A i \in Ids : DOMAIN nativeChn[i] = Chns
        BY <4>0 DEF IInv, TypeOK
      <4>2. \A i \in Ids, d \in Chns : i # grp[t] \/ d # c => nativeChn'[i][d] = nativeChn[i][d]
        BY <3>1, <4>1 DEF SetChnAttr
      <4>3. nativeChn'[grp[t]][c] =
              IF nativeChn[grp[t]][c] = "enabled" THEN "enabled" ELSE "configured"
        BY <3>1, <4>1 DEF SetChnAttr
      <4>4. QED
        BY <4>2, <4>3
    <3>2. CASE UNCHANGED nativeChn
      BY <3>2
    <3>3. QED
      BY <1>3, <3>1, <3>2, Zenon
      DEF AcqureChn, SetChnAttrFails, EnableChnFails, DisableChnFails, DropChn, ReleaseChn
  <2>3. faults' \in {faults, faults + 1}
    BY <1>3
    DEF AcqureChn, SetChnAttr, SetChnAttrFails, EnableChnFails, DisableChnFails,
        DropChn, ReleaseChn
  <2>4. QED
    BY <1>1, <1>2, <2>1, <2>2, <2>3 DEF LeftChns, Gains
<1>4. CASE EnableChn(t, c) \/ DisableChn(t, c) \/ DropDisable(t, c)
  <2>1. grp[t] \in Ids /\ \A u \in Thread : u # t => grp[u] # grp[t]
    BY <1>4, GroupIsOwn DEF EnableChn, DisableChn, DropDisable, IInv, PartsHaveGroup
  <2>2. \A u \in Thread, d \in Chns : u # t \/ d # c => chn'[u][d] = chn[u][d]
    BY <1>4 DEF EnableChn, DisableChn, DropDisable, IInv, TypeOK
  <2>3. \A i \in Ids, d \in Chns : i # grp[t] \/ d # c => nativeChn'[i][d] = nativeChn[i][d]
    BY <1>4, <2>1 DEF EnableChn, DisableChn, DropDisable, IInv, TypeOK
  <2>4. LeftChns' \subseteq LeftChns \cup {<<grp[t], c>>}
    <3> SUFFICES ASSUME NEW p \in Ids \X Chns, p \in LeftChns', p # <<grp[t], c>>
                 PROVE  p \in LeftChns
      BY DEF LeftChns
    <3>1. p[1] # grp[t] \/ p[2] # c
      OBVIOUS
    <3>2. nativeChn[p[1]][p[2]] = "enabled"
      BY <2>3, <3>1 DEF LeftChns
    <3>3. ASSUME NEW u \in Thread, grp[u] = p[1]
          PROVE  chn[u][p[2]] \notin {"enabled", "disabling"}
      <4>1. chn'[u][p[2]] = chn[u][p[2]]
        BY <2>2, <3>1, <3>3
      <4>2. QED
        BY <1>1, <3>3, <4>1 DEF LeftChns
    <3>4. QED
      BY <3>2, <3>3 DEF LeftChns
  <2>5. faults' = faults \/ faults' = faults + 1
    BY <1>4 DEF EnableChn, DisableChn, DropDisable
  <2>6. ASSUME faults' = faults
        PROVE  <<grp[t], c>> \notin LeftChns'
    <3>1. nativeChn'[grp[t]][c] # "enabled" \/ chn'[t][c] = "enabled"
      BY <1>4, <2>1, <2>6, MaxFaultsAssumption
      DEF EnableChn, DisableChn, DropDisable, IInv, TypeOK
    <3>2. QED
      BY <1>1, <3>1 DEF LeftChns
  <2>7. QED
    BY <1>2, <2>4, <2>5, <2>6 DEF Gains
<1>5. QED
  BY <1>3, <1>4 DEF ChnNext

HIDE DEF HasGroup, Goto, ChnGoto, Fault, Pc, ChnPc, resourceVars, groupVars, nativeVars

LEMMA StepCosts ==
  ASSUME IInv, [Next]_vars
  PROVE  \/ Gains({}, {}, {}) /\ faults' \in {faults, faults + 1}
         \/ /\ faults' = faults + 1
            /\ \E x : Gains({x}, {}, {}) \/ Gains({}, {x}, {}) \/ Gains({}, {}, {x})
<1>1. CASE UNCHANGED vars
  BY <1>1
  DEF vars, resourceVars, groupVars, nativeVars, Gains, DoomedGroups, LeftChns,
      LeftBinds, HasGroup
<1>2. ASSUME NEW t \in Thread, NEW c \in Chns, ChnNext(t, c)
      PROVE  \/ Gains({}, {}, {}) /\ faults' \in {faults, faults + 1}
             \/ Gains({}, {<<grp[t], c>>}, {}) /\ faults' = faults + 1
  BY <1>2, ChnGains
<1>3. ASSUME NEW t \in Thread, AcqureChn(t)
      PROVE  \/ Gains({}, {}, {}) /\ faults' \in {faults, faults + 1}
             \/ \E c \in Chns : Gains({}, {<<grp[t], c>>}, {}) /\ faults' = faults + 1
  <2>1. PICK c \in Chns : TRUE
    BY <1>3 DEF AcqureChn
  <2>2. QED
    BY <1>3, <2>1, ChnGains
<1>4. ASSUME NEW t \in Thread, GroupNext(t)
      PROVE  \/ Gains({}, {}, {}) /\ faults' \in {faults, faults + 1}
             \/ Gains({}, {}, {grp[t]}) /\ faults' = faults + 1
             \/ Gains({grp[t]}, {}, {}) /\ faults' = faults + 1
  BY <1>4, LifeGainsNothing, BindGains, DropGains DEF GroupNext
<1>5. QED
  BY <1>1, <1>2, <1>3, <1>4 DEF Next

(* What a step gains fits what it costs. *)
LEMMA GainsCount ==
  ASSUME Account, NEW x, NEW y, NEW z, Gains({x}, {y}, {z})
  PROVE  /\ IsFiniteSet(DoomedGroups') /\ IsFiniteSet(LeftChns') /\ IsFiniteSet(LeftBinds')
         /\ Cardinality(DoomedGroups) \in Nat /\ Cardinality(DoomedGroups') \in Nat
         /\ Cardinality(LeftChns) \in Nat /\ Cardinality(LeftChns') \in Nat
         /\ Cardinality(LeftBinds) \in Nat /\ Cardinality(LeftBinds') \in Nat
         /\ Cardinality(DoomedGroups') =< Cardinality(DoomedGroups) + 1
         /\ Cardinality(LeftChns') =< Cardinality(LeftChns) + 1
         /\ Cardinality(LeftBinds') =< Cardinality(LeftBinds) + 1
         /\ DoomedGroups' \subseteq DoomedGroups
              => Cardinality(DoomedGroups') =< Cardinality(DoomedGroups)
         /\ LeftChns' \subseteq LeftChns => Cardinality(LeftChns') =< Cardinality(LeftChns)
         /\ LeftBinds' \subseteq LeftBinds => Cardinality(LeftBinds') =< Cardinality(LeftBinds)
BY OneMore DEF Account, Gains

LEMMA AccountStep == Account /\ IInv /\ [Next]_vars => Account'
<1> SUFFICES ASSUME Account, IInv, [Next]_vars
             PROVE  Account'
  OBVIOUS
<1>1. faults \in Nat
  BY MaxFaultsAssumption DEF IInv, TypeOK
<1>2. CASE Gains({}, {}, {}) /\ faults' \in {faults, faults + 1}
  <2>1. Gains({0}, {0}, {0})
    BY <1>2 DEF Gains
  <2>2. QED
    BY <1>1, <1>2, <2>1, GainsCount DEF Account, Gains
<1>3. ASSUME NEW x, faults' = faults + 1,
             Gains({x}, {}, {}) \/ Gains({}, {x}, {}) \/ Gains({}, {}, {x})
      PROVE  Account'
  <2>1. Gains({x}, {x}, {x})
    BY <1>3 DEF Gains
  <2>2. CASE Gains({x}, {}, {})
    BY <1>1, <1>3, <2>1, <2>2, GainsCount DEF Account, Gains
  <2>3. CASE Gains({}, {x}, {})
    BY <1>1, <1>3, <2>1, <2>3, GainsCount DEF Account, Gains
  <2>4. CASE Gains({}, {}, {x})
    BY <1>1, <1>3, <2>1, <2>4, GainsCount DEF Account, Gains
  <2>5. QED
    BY <1>3, <2>2, <2>3, <2>4
<1>4. QED
  BY <1>2, <1>3, StepCosts

LEMMA AccountHolds == Spec => []Account
<1>1. Init => Account
  <2>1. Init => DoomedGroups = {} /\ LeftChns = {} /\ LeftBinds = {}
    BY DEF Init, DoomedGroups, LeftChns, LeftBinds
  <2>2. IsFiniteSet({}) /\ Cardinality({}) = 0
    BY FS_EmptySet
  <2>3. QED
    BY <2>1, <2>2 DEF Init, Account
<1>2. QED
  BY <1>1, AccountStep, Invariance, PTL DEF Spec

(* Every group, enabled channel and bind that no object stands for has     *)
(* cost a failing call of its own (VpssGroupInner::drop,                   *)
(* VpssChannelInner::drop, ChannelBind::drop).                             *)
THEOREM LeftoversCost == Spec => []LeftoversCostFaults
<1>1. Account /\ IInv => LeftoversCostFaults
  <2> SUFFICES ASSUME Account, IInv
               PROVE  LeftoversCostFaults
    OBVIOUS
  <2>1. LeftGroups \subseteq DoomedGroups
    BY DEF LeftGroups, DoomedGroups
  <2>2. /\ Cardinality(LeftGroups) \in Nat /\ Cardinality(DoomedGroups) \in Nat
        /\ Cardinality(LeftGroups) =< Cardinality(DoomedGroups)
    BY <2>1, OneMore DEF Account
  <2>3. Cardinality(LeftChns) \in Nat /\ Cardinality(LeftBinds) \in Nat /\ faults \in Nat
    BY FS_CardinalityType, MaxFaultsAssumption DEF Account, IInv, TypeOK
  <2>4. QED
    BY <2>2, <2>3 DEF Account, LeftoversCostFaults
<1>2. QED
  BY <1>1, AccountHolds, Invariance, PTL

(* Started groups are started, enabled channels enabled and binds in place *)
(* in the library, whichever calls fail, and until one fails nothing else  *)
(* is (VpssGroupInner::start, VpssChannelInner::enable, disable).          *)
THEOREM ObjectsAlwaysAgree == Spec => []ObjectsAgree
<1>1. Account /\ IInv => ObjectsAgree
  <2> SUFFICES ASSUME Account, IInv, NEW t \in Thread, faults = 0, grp[t] # NoId
               PROVE  /\ \A c \in Chns : nativeChn[grp[t]][c] = "enabled" =>
                                         chn[t][c] \in {"enabled", "disabling"}
                      /\ binds[grp[t]] = bind[t]
    BY DEF IInv, StateAgrees, ChnsAgree, BindAgrees, ObjectsAgree
  <2>1. grp[t] \in Ids
    BY DEF IInv, TypeOK
  <2>2. LeftChns = {} /\ LeftBinds = {}
    <3>1. /\ Cardinality(DoomedGroups) \in Nat /\ Cardinality(LeftChns) \in Nat
          /\ Cardinality(LeftBinds) \in Nat
      BY FS_CardinalityType DEF Account
    <3>2. Cardinality(LeftChns) = 0 /\ Cardinality(LeftBinds) = 0
      BY <3>1 DEF Account
    <3>3. QED
      BY <3>2, FS_EmptySet DEF Account
  <2>3. ASSUME NEW u \in Thread, grp[u] = grp[t]
        PROVE  u = t
    BY <2>3 DEF IInv, IdsExclusive
  <2>4. ASSUME NEW c \in Chns, nativeChn[grp[t]][c] = "enabled",
               chn[t][c] \notin {"enabled", "disabling"}
        PROVE  FALSE
    <3>1. <<grp[t], c>> \in LeftChns
      BY <2>1, <2>3, <2>4 DEF LeftChns
    <3>2. QED
      BY <2>2, <3>1
  <2>5. ASSUME binds[grp[t]] # bind[t]
        PROVE  FALSE
    <3>1. bind[t] = NoSource /\ binds[grp[t]] # NoSource
      BY <2>5 DEF IInv, BindAgrees
    <3>2. grp[t] \in LeftBinds
      BY <2>1, <2>3, <3>1 DEF LeftBinds
    <3>3. QED
      BY <2>2, <3>2
  <2>6. QED
    BY <2>4, <2>5
<1>2. QED
  BY <1>1, AccountHolds, Invariance, PTL
=============================================================================
