---------------------------- MODULE Camera_proofs ----------------------------
(***************************************************************************)
(* Machine-checked proofs about Camera, for any number of threads, devices *)
(* and faults: cameras use their ids as ResourceManager allows, an open    *)
(* camera is alone on an enabled device, and what is left behind has cost  *)
(* as many failing calls.                                                  *)
(***************************************************************************)
EXTENDS Camera, FiniteSetTheorems, TLAPS

Manager ==
  INSTANCE ResourceManager_proofs
    WITH Holder <- Thread, NoHolder <- NoThread, held <- Held

(* A thread has an id exactly while it is in the life of a camera.         *)
Shape ==
  /\ pc \in [Thread -> Pc]
  /\ dev \in [Thread -> Ids \cup {NoId}]
  /\ \A t \in Thread : dev[t] = NoId <=> pc[t] = "none"

LEMMA ShapeInvariant == Spec => []Shape
<1>1. Init => Shape
  BY DEF Init, Shape, Pc
<1>2. Shape /\ [Next]_vars => Shape'
  <2> SUFFICES ASSUME Shape, [Next]_vars
               PROVE  Shape'
    OBVIOUS
  <2> USE DEF Shape, Pc, Goto, NoId, Ids, resourceVars
  <2>1. ASSUME NEW t \in Thread, NEW id \in Ids, Acqure(t, id)
        PROVE  Shape'
    BY <2>1, CapacityAssumption DEF Acqure
  <2>2. ASSUME NEW t \in Thread, ReleaseId(t)
        PROVE  Shape'
    BY <2>2, CapacityAssumption DEF ReleaseId
  <2>3. ASSUME NEW t \in Thread,
               \/ GetDevAttr(t)
               \/ SetDevAttr(t) \/ SetDevAttrFails(t)
               \/ GetDevIsEnable(t)
               \/ EnableDev(t) \/ EnableDevFails(t)
               \/ SetDevBindPipe(t) \/ SetDevBindPipeFails(t)
               \/ Drop(t) \/ DisableDev(t)
        PROVE  Shape'
    BY <2>3
    DEF GetDevAttr, SetDevAttr, SetDevAttrFails, GetDevIsEnable, EnableDev,
        EnableDevFails, SetDevBindPipe, SetDevBindPipeFails, Drop, DisableDev
  <2>4. CASE UNCHANGED vars
    BY <2>4 DEF vars
  <2>5. QED
    BY <2>1, <2>2, <2>3, <2>4 DEF Next
<1>3. QED
  BY <1>1, <1>2, PTL DEF Spec

(* Taking a device and dropping its guard are the manager's steps; every   *)
(* other step leaves the manager and the guards alone.                     *)
THEOREM CamerasUseResourceManager == Spec => UsesResourceManager
<1>1. Init => Resources!Init
  BY DEF Init, Resources!Init, Resources!Ids, Ids, Held
<1>2. Shape /\ [Next]_vars => [Resources!Next]_(Resources!vars)
  <2> SUFFICES ASSUME Shape, [Next]_vars
               PROVE  Resources!Next \/ UNCHANGED Resources!vars
    OBVIOUS
  <2>1. ASSUME NEW t \in Thread, NEW id \in Ids, Acqure(t, id)
        PROVE  Resources!Next
    BY <2>1 DEF Acqure, Resources!Next, Resources!Ids, Ids
  <2>2. ASSUME NEW t \in Thread, ReleaseId(t)
        PROVE  Resources!Next
    <3>1. dev[t] \in Resources!Ids
      BY <2>2 DEF ReleaseId, Shape, Resources!Ids, Ids
    <3>2. QED
      BY <2>2, <3>1 DEF ReleaseId, Resources!Next
  <2>3. ASSUME UNCHANGED resourceVars
        PROVE  UNCHANGED Resources!vars
    BY <2>3 DEF resourceVars, Resources!vars, Held
  <2>4. QED
    BY <2>1, <2>2, <2>3
    DEF Next, vars, GetDevAttr, SetDevAttr, SetDevAttrFails, GetDevIsEnable,
        EnableDev, EnableDevFails, SetDevBindPipe, SetDevBindPipeFails, Drop,
        DisableDev
<1>3. QED
  BY <1>1, <1>2, ShapeInvariant, PTL
  DEF Spec, UsesResourceManager, Resources!Spec

(* So what is proved of the manager holds of the ids of cameras: none is      *)
(* lost or handed out twice, and they are leased as IdLease says            *)
(* (src/src/vi.rs, Camera::new and the drop of its AcquiredResource). *)
THEOREM DeviceIdsAreLeased ==
  Spec => []Resources!Conserved /\ Resources!ImplementsLease
<1>1. Manager!Init <=> Resources!Init
  BY DEF Manager!Init, Resources!Init, Manager!Ids, Resources!Ids
<1>2. [Manager!Next]_(Manager!vars) <=> [Resources!Next]_(Resources!vars)
  BY DEF Manager!Next, Resources!Next, Manager!Ids, Resources!Ids, Manager!vars,
     Resources!vars, Manager!Acqure, Resources!Acqure, Manager!Hand, Resources!Hand,
     Manager!AcqureSpecific, Resources!AcqureSpecific, Manager!Release,
     Resources!Release, Manager!Min, Resources!Min
<1>3. Manager!Conserved <=> Resources!Conserved
  BY DEF Manager!Conserved, Resources!Conserved, Manager!Ids, Resources!Ids
<1>4. Manager!Lease!Init <=> Resources!Lease!Init
  BY DEF Manager!Lease!Init, Resources!Lease!Init, Manager!Ids, Resources!Ids,
     Manager!LeaseOf, Resources!LeaseOf
<1>5. [Manager!Lease!Next]_([id \in Manager!Ids |-> Manager!LeaseOf(id)])
        <=> [Resources!Lease!Next]_([id \in Resources!Ids |-> Resources!LeaseOf(id)])
  BY DEF Manager!Lease!Next, Resources!Lease!Next, Manager!Lease!Take,
     Resources!Lease!Take, Manager!Lease!GiveBack, Resources!Lease!GiveBack,
     Manager!Ids, Resources!Ids, Manager!LeaseOf, Resources!LeaseOf
<1>6. Manager!Spec => []Manager!Conserved
  BY CapacityAssumption, NoThreadAssumption, Manager!IdsAreConserved
<1>7. Manager!Spec => Manager!ImplementsLease
  BY CapacityAssumption, NoThreadAssumption, Manager!ManagerImplementsLease
<1>8. QED
  BY <1>1, <1>2, <1>3, <1>4, <1>5, <1>6, <1>7, CamerasUseResourceManager, PTL
  DEF UsesResourceManager, Manager!Spec, Resources!Spec, Manager!ImplementsLease,
      Resources!ImplementsLease, Manager!Lease!Spec, Resources!Lease!Spec

-----------------------------------------------------------------------------
(* The inductive invariant.  An enabled device stays enabled under its     *)
(* camera because no other thread has the same id, which holds because an  *)
(* id in a guard is not available.                                         *)

IdsExclusive ==
  /\ \A t \in Thread : dev[t] # NoId => dev[t] \notin available
  /\ \A t, u \in Thread : dev[t] # NoId /\ dev[t] = dev[u] => t = u

(* The native VI module's own order: attributes, enable, pipe.             *)
DeviceOrder == pipe \subseteq enabled /\ enabled \subseteq attr

DeviceIsEnabled ==
  \A t \in Thread :
    /\ pc[t] \in {"open", "binding"} => dev[t] \in enabled
    /\ pc[t] = "binding" => dev[t] \notin pipe

(* Without a failure nothing is left behind and every step finds what the  *)
(* one before it made.                                                     *)
NothingLeft ==
  faults = 0 =>
    /\ \A i \in enabled : \E t \in Thread :
         dev[t] = i /\ pc[t] \in {"binding", "open", "disabling"}
    /\ \A t \in Thread :
         /\ pc[t] \in {"checking", "enabling"} => dev[t] \in attr
         /\ pc[t] \in {"open", "disabling"} => dev[t] \in enabled \cap pipe

IInv ==
  /\ TypeOK
  /\ Shape
  /\ IdsExclusive
  /\ DeviceOrder
  /\ DeviceIsEnabled
  /\ NothingLeft

(* What the invariant is for.                                              *)
LEMMA IInvSuffices == IInv => OpenCameraIsEnabled /\ NoErrorWithoutFault
<1> SUFFICES ASSUME IInv PROVE OpenCameraIsEnabled /\ NoErrorWithoutFault
  OBVIOUS
<1>1. OpenCameraIsEnabled
  BY DEF IInv, Shape, IdsExclusive, DeviceOrder, DeviceIsEnabled,
         OpenCameraIsEnabled
<1>2. ASSUME faults = 0, NEW t \in Thread,
             pc[t] \in {"getting", "setting", "checking", "enabling"},
             dev[t] \in enabled
      PROVE  FALSE
  <2>1. PICK u \in Thread :
          dev[u] = dev[t] /\ pc[u] \in {"binding", "open", "disabling"}
    BY <1>2 DEF IInv, NothingLeft
  <2>2. u = t
    BY <1>2, <2>1 DEF IInv, Shape, IdsExclusive
  <2>3. QED
    BY <1>2, <2>1, <2>2
<1>3. ASSUME faults = 0, NEW t \in Thread, pc[t] = "disabling"
      PROVE  dev[t] \in enabled \cap pipe
  BY <1>3 DEF IInv, NothingLeft
<1>4. QED
  BY <1>1, <1>2, <1>3 DEF NoErrorWithoutFault

LEMMA ReleaseIdFreesOnlyItsOwn ==
  ASSUME IInv, NEW t \in Thread, ReleaseId(t)
  PROVE  /\ dev[t] \in Ids
         /\ dev' = [dev EXCEPT ![t] = NoId]
         /\ available' \subseteq available \cup {dev[t]}
         /\ busy' \subseteq busy
<1>1. dev[t] \in Ids
  BY DEF ReleaseId, IInv, Shape
<1>2. QED
  BY <1>1 DEF ReleaseId, Resources!Release

(* Every operation preserves the invariant.                                *)
USE DEF IInv, Goto, Fault, Pc, Ids, NoId, resourceVars, nativeVars

LEMMA AcqureKeepsIInv ==
  ASSUME IInv, NEW t \in Thread, NEW id \in Ids, Acqure(t, id)
  PROVE  IInv'
<1>1. /\ id \in available /\ id # NoId
      /\ available' = available \ {id}
      /\ busy' = busy \cup {id}
  BY CapacityAssumption
  DEF Acqure, Resources!AcqureSpecific, Resources!Hand
<1>2. QED
  BY <1>1, CapacityAssumption, MaxFaultsAssumption
  DEF Acqure, TypeOK, Shape, IdsExclusive, DeviceOrder, DeviceIsEnabled,
      NothingLeft

LEMMA GetDevAttrKeepsIInv ==
  ASSUME IInv, NEW t \in Thread, GetDevAttr(t)
  PROVE  IInv'
BY CapacityAssumption, MaxFaultsAssumption
DEF GetDevAttr, TypeOK, Shape, IdsExclusive, DeviceOrder, DeviceIsEnabled,
    NothingLeft

LEMMA SetDevAttrKeepsIInv ==
  ASSUME IInv, NEW t \in Thread, SetDevAttr(t)
  PROVE  IInv'
<1>1. dev[t] \in Ids /\ dev[t] # NoId
  BY DEF SetDevAttr, TypeOK, Shape
<1> HIDE DEF IInv
<1>2. TypeOK'
  BY <1>1, CapacityAssumption, MaxFaultsAssumption
  DEF SetDevAttr, IInv, TypeOK
<1>3. Shape'
  BY <1>1, CapacityAssumption, MaxFaultsAssumption
  DEF SetDevAttr, IInv, Shape
<1>4. IdsExclusive'
  BY <1>1, CapacityAssumption, MaxFaultsAssumption
  DEF SetDevAttr, IInv, TypeOK, Shape, IdsExclusive
<1>5. DeviceOrder'
  BY <1>1, CapacityAssumption, MaxFaultsAssumption
  DEF SetDevAttr, IInv, TypeOK, Shape, DeviceOrder, DeviceIsEnabled
<1>6. DeviceIsEnabled'
  BY <1>1, CapacityAssumption, MaxFaultsAssumption
  DEF SetDevAttr, IInv, TypeOK, Shape, IdsExclusive,
      DeviceOrder, DeviceIsEnabled
<1>7. NothingLeft'
  BY <1>1, CapacityAssumption, MaxFaultsAssumption
  DEF SetDevAttr, IInv, TypeOK, Shape, IdsExclusive,
      DeviceOrder, DeviceIsEnabled, NothingLeft
<1>8. QED
  BY <1>2, <1>3, <1>4, <1>5, <1>6, <1>7 DEF IInv

LEMMA SetDevAttrFailsKeepsIInv ==
  ASSUME IInv, NEW t \in Thread, SetDevAttrFails(t)
  PROVE  IInv'
BY CapacityAssumption, MaxFaultsAssumption
DEF SetDevAttrFails, TypeOK, Shape, IdsExclusive, DeviceOrder, DeviceIsEnabled,
    NothingLeft

LEMMA GetDevIsEnableKeepsIInv ==
  ASSUME IInv, NEW t \in Thread, GetDevIsEnable(t)
  PROVE  IInv'
BY CapacityAssumption, MaxFaultsAssumption, IInvSuffices
DEF GetDevIsEnable, TypeOK, Shape, IdsExclusive, DeviceOrder, DeviceIsEnabled,
    NothingLeft, NoErrorWithoutFault

LEMMA EnableDevKeepsIInv ==
  ASSUME IInv, NEW t \in Thread, EnableDev(t)
  PROVE  IInv'
<1>1. dev[t] \in Ids /\ dev[t] # NoId
  BY DEF EnableDev, TypeOK, Shape
<1> HIDE DEF IInv
<1>2. TypeOK'
  BY <1>1, CapacityAssumption, MaxFaultsAssumption
  DEF EnableDev, IInv, TypeOK
<1>3. Shape'
  BY <1>1, CapacityAssumption, MaxFaultsAssumption
  DEF EnableDev, IInv, Shape
<1>4. IdsExclusive'
  BY <1>1, CapacityAssumption, MaxFaultsAssumption
  DEF EnableDev, IInv, TypeOK, Shape, IdsExclusive
<1>5. DeviceOrder'
  BY <1>1, CapacityAssumption, MaxFaultsAssumption
  DEF EnableDev, IInv, TypeOK, Shape, DeviceOrder, DeviceIsEnabled
<1>6. DeviceIsEnabled'
  BY <1>1, CapacityAssumption, MaxFaultsAssumption
  DEF EnableDev, IInv, TypeOK, Shape, IdsExclusive,
      DeviceOrder, DeviceIsEnabled
<1>7. NothingLeft'
  BY <1>1, CapacityAssumption, MaxFaultsAssumption
  DEF EnableDev, IInv, TypeOK, Shape, IdsExclusive,
      DeviceOrder, DeviceIsEnabled, NothingLeft
<1>8. QED
  BY <1>2, <1>3, <1>4, <1>5, <1>6, <1>7 DEF IInv

LEMMA EnableDevFailsKeepsIInv ==
  ASSUME IInv, NEW t \in Thread, EnableDevFails(t)
  PROVE  IInv'
BY CapacityAssumption, MaxFaultsAssumption, IInvSuffices
DEF EnableDevFails, TypeOK, Shape, IdsExclusive, DeviceOrder, DeviceIsEnabled,
    NothingLeft, NoErrorWithoutFault

LEMMA SetDevBindPipeKeepsIInv ==
  ASSUME IInv, NEW t \in Thread, SetDevBindPipe(t)
  PROVE  IInv'
<1>1. dev[t] \in Ids /\ dev[t] # NoId
  BY DEF SetDevBindPipe, TypeOK, Shape
<1> HIDE DEF IInv
<1>2. TypeOK'
  BY <1>1, CapacityAssumption, MaxFaultsAssumption
  DEF SetDevBindPipe, IInv, TypeOK
<1>3. Shape'
  BY <1>1, CapacityAssumption, MaxFaultsAssumption
  DEF SetDevBindPipe, IInv, Shape
<1>4. IdsExclusive'
  BY <1>1, CapacityAssumption, MaxFaultsAssumption
  DEF SetDevBindPipe, IInv, TypeOK, Shape, IdsExclusive
<1>5. DeviceOrder'
  BY <1>1, CapacityAssumption, MaxFaultsAssumption
  DEF SetDevBindPipe, IInv, TypeOK, Shape, DeviceOrder, DeviceIsEnabled
<1>6. DeviceIsEnabled'
  BY <1>1, CapacityAssumption, MaxFaultsAssumption
  DEF SetDevBindPipe, IInv, TypeOK, Shape, IdsExclusive,
      DeviceOrder, DeviceIsEnabled
<1>7. NothingLeft'
  BY <1>1, CapacityAssumption, MaxFaultsAssumption
  DEF SetDevBindPipe, IInv, TypeOK, Shape, IdsExclusive,
      DeviceOrder, DeviceIsEnabled, NothingLeft
<1>8. QED
  BY <1>2, <1>3, <1>4, <1>5, <1>6, <1>7 DEF IInv

LEMMA SetDevBindPipeFailsKeepsIInv ==
  ASSUME IInv, NEW t \in Thread, SetDevBindPipeFails(t)
  PROVE  IInv'
BY CapacityAssumption, MaxFaultsAssumption
DEF SetDevBindPipeFails, TypeOK, Shape, IdsExclusive, DeviceOrder, DeviceIsEnabled,
    NothingLeft

LEMMA DropKeepsIInv ==
  ASSUME IInv, NEW t \in Thread, Drop(t)
  PROVE  IInv'
BY CapacityAssumption, MaxFaultsAssumption
DEF Drop, TypeOK, Shape, IdsExclusive, DeviceOrder, DeviceIsEnabled,
    NothingLeft

LEMMA DisableDevKeepsIInv ==
  ASSUME IInv, NEW t \in Thread, DisableDev(t)
  PROVE  IInv'
<1>1. dev[t] \in Ids /\ dev[t] # NoId
  BY DEF DisableDev, TypeOK, Shape
<1> HIDE DEF IInv
<1>2. TypeOK'
  <2>1. faults' \in 0 .. MaxFaults
    BY MaxFaultsAssumption DEF DisableDev, IInv, TypeOK
  <2>2. enabled' \in SUBSET Ids /\ pipe' \in SUBSET Ids
    BY DEF DisableDev, IInv, TypeOK
  <2>3. QED
    BY <2>1, <2>2 DEF DisableDev, IInv, TypeOK
<1>3. Shape'
  BY <1>1, CapacityAssumption, MaxFaultsAssumption
  DEF DisableDev, IInv, Shape
<1>4. IdsExclusive'
  BY <1>1, CapacityAssumption, MaxFaultsAssumption
  DEF DisableDev, IInv, TypeOK, Shape, IdsExclusive
<1>5. DeviceOrder'
  BY <1>1, CapacityAssumption, MaxFaultsAssumption
  DEF DisableDev, IInv, TypeOK, Shape, DeviceOrder, DeviceIsEnabled
<1>6. DeviceIsEnabled'
  BY <1>1, CapacityAssumption, MaxFaultsAssumption
  DEF DisableDev, IInv, TypeOK, Shape, IdsExclusive,
      DeviceOrder, DeviceIsEnabled
<1>7. NothingLeft'
  <2> SUFFICES ASSUME faults' = 0
               PROVE  NothingLeft'
    BY DEF NothingLeft
  <2>1. /\ faults = 0
        /\ enabled' = enabled \ {dev[t]}
        /\ pipe' = pipe \ {dev[t]}
    BY MaxFaultsAssumption DEF DisableDev, IInv, TypeOK
  <2>2. ASSUME NEW u \in Thread, pc'[u] # "releasing"
        PROVE  pc'[u] = pc[u] /\ (pc[u] # "none" => dev[u] # dev[t])
    BY <2>2, <1>1 DEF DisableDev, IInv, Shape, IdsExclusive
  <2>3. ASSUME NEW i \in enabled'
        PROVE  \E u \in Thread :
                 dev'[u] = i /\ pc'[u] \in {"binding", "open", "disabling"}
    <3>1. i \in enabled /\ i # dev[t]
      BY <2>1, <2>3
    <3>2. PICK u \in Thread :
            dev[u] = i /\ pc[u] \in {"binding", "open", "disabling"}
      BY <2>1, <3>1 DEF IInv, NothingLeft
    <3>3. QED
      BY <3>1, <3>2 DEF DisableDev, IInv, Shape
  <2>4. QED
    BY <2>1, <2>2, <2>3 DEF DisableDev, IInv, NothingLeft
<1>8. QED
  BY <1>2, <1>3, <1>4, <1>5, <1>6, <1>7 DEF IInv

LEMMA ReleaseIdKeepsIInv ==
  ASSUME IInv, NEW t \in Thread, ReleaseId(t)
  PROVE  IInv'
<1>1. /\ dev[t] \in Ids
      /\ dev' = [dev EXCEPT ![t] = NoId]
      /\ available' \subseteq available \cup {dev[t]}
      /\ busy' \subseteq busy
  BY ReleaseIdFreesOnlyItsOwn
<1>2. QED
  BY <1>1, CapacityAssumption, MaxFaultsAssumption
  DEF ReleaseId, TypeOK, Shape, IdsExclusive, DeviceOrder, DeviceIsEnabled,
      NothingLeft

HIDE DEF IInv, Goto, Fault, Pc, Ids, NoId, resourceVars, nativeVars

LEMMA Invariance == Spec => []IInv
<1>1. Init => IInv
  <2> SUFFICES ASSUME Init PROVE IInv
    OBVIOUS
  <2>1. TypeOK
    BY MaxFaultsAssumption DEF Init, TypeOK, Pc, NoId
  <2>2. Shape
    BY DEF Init, Shape, Pc
  <2>3. QED
    BY <2>1, <2>2
    DEF Init, IInv, IdsExclusive, DeviceOrder, DeviceIsEnabled, NothingLeft
<1>2. IInv /\ [Next]_vars => IInv'
  <2> SUFFICES ASSUME IInv, [Next]_vars
               PROVE  IInv'
    OBVIOUS
  <2>1. CASE Next
    BY <2>1, AcqureKeepsIInv, GetDevAttrKeepsIInv, SetDevAttrKeepsIInv,
       SetDevAttrFailsKeepsIInv, GetDevIsEnableKeepsIInv, EnableDevKeepsIInv,
       EnableDevFailsKeepsIInv, SetDevBindPipeKeepsIInv,
       SetDevBindPipeFailsKeepsIInv, DropKeepsIInv, DisableDevKeepsIInv,
       ReleaseIdKeepsIInv
    DEF Next
  <2>2. CASE UNCHANGED vars
    BY <2>2
    DEF vars, resourceVars, nativeVars, IInv, TypeOK, Shape, IdsExclusive,
        DeviceOrder, DeviceIsEnabled, NothingLeft
  <2>3. QED
    BY <2>1, <2>2
<1>3. QED
  BY <1>1, <1>2, PTL DEF Spec

-----------------------------------------------------------------------------
(* The state keeps its type.                                               *)
THEOREM TypeCorrect == Spec => []TypeOK
<1>1. IInv => TypeOK
  BY DEF IInv
<1>2. QED
  BY <1>1, Invariance, PTL

(* An open camera is alone on its device, which stays configured and       *)
(* enabled until this camera's own drop (CameraInner::drop).               *)
THEOREM OpenCamerasAreEnabled == Spec => []OpenCameraIsEnabled
BY IInvSuffices, Invariance, PTL

(* However the threads interleave, a new camera finds its device down and  *)
(* a dropped one takes down what it enabled, unless some native call       *)
(* failed before (Camera::new, CameraInner::drop).                         *)
THEOREM ErrorsNeedFaults == Spec => []NoErrorWithoutFault
BY IInvSuffices, Invariance, PTL
-----------------------------------------------------------------------------
(* A set that gains at most one element gains at most one in size.         *)
LEMMA OneMore ==
  ASSUME NEW S, NEW T, NEW x, IsFiniteSet(S), T \subseteq S \cup {x}
  PROVE  /\ IsFiniteSet(T)
         /\ Cardinality(S) \in Nat /\ Cardinality(T) \in Nat
         /\ Cardinality(T) =< Cardinality(S) + 1
         /\ T \subseteq S => Cardinality(T) =< Cardinality(S)
<1>1. /\ IsFiniteSet(S \cup {x})
      /\ Cardinality(S \cup {x}) = IF x \in S THEN Cardinality(S) ELSE Cardinality(S) + 1
  BY FS_AddElement, Zenon
<1>2. IsFiniteSet(T) /\ Cardinality(T) =< Cardinality(S \cup {x})
  BY <1>1, FS_Subset
<1>3. Cardinality(S) \in Nat /\ Cardinality(T) \in Nat
  BY <1>2, FS_CardinalityType
<1>4. T \subseteq S => Cardinality(T) =< Cardinality(S)
  BY FS_Subset
<1>5. QED
  BY <1>1, <1>2, <1>3, <1>4

(* A device without a pipe costs its first failure when SetDevBindPipe     *)
(* fails, before its cleanup: the account takes it in then.  It stays in   *)
(* when a camera takes it over, and leaves when it is disabled.            *)
Doomed ==
  {i \in enabled : \A t \in Thread : dev[t] = i =>
     /\ pc[t] # "binding"
     /\ pc[t] \in {"open", "disabling"} => i \notin pipe}

Account ==
  /\ IsFiniteSet(Doomed) /\ IsFiniteSet(Pipeless)
  /\ Cardinality(Doomed) + Cardinality(Pipeless) =< faults

USE DEF Goto, Fault, Pc, resourceVars, nativeVars

(* A step that costs nothing gains nothing. *)
LEMMA FreeStep ==
  ASSUME IInv, NEW t \in Thread,
         \/ \E id \in Ids : Acqure(t, id)
         \/ GetDevAttr(t) \/ SetDevAttr(t) \/ SetDevAttrFails(t)
         \/ GetDevIsEnable(t) \/ EnableDevFails(t) \/ Drop(t) \/ ReleaseId(t)
  PROVE  /\ Doomed' \subseteq Doomed /\ Pipeless' \subseteq Pipeless
         /\ faults' \in {faults, faults + 1}
<1>1. UNCHANGED <<enabled, pipe>> /\ faults' \in {faults, faults + 1}
  BY DEF Acqure, GetDevAttr, SetDevAttr, SetDevAttrFails, GetDevIsEnable,
         EnableDevFails, Drop, ReleaseId
<1>2. \A u \in Thread : pc[u] \in {"binding", "open", "disabling"} => dev'[u] = dev[u]
  BY DEF Acqure, GetDevAttr, SetDevAttr, SetDevAttrFails, GetDevIsEnable,
         EnableDevFails, Drop, ReleaseId, IInv, TypeOK
<1>3. \A u \in Thread : pc[u] \in {"binding", "disabling"} => pc'[u] = pc[u]
  BY DEF Acqure, GetDevAttr, SetDevAttr, SetDevAttrFails, GetDevIsEnable,
         EnableDevFails, Drop, ReleaseId, IInv, TypeOK
<1>4. \A u \in Thread : pc[u] = "open" => pc'[u] \in {"open", "disabling"}
  BY DEF Acqure, GetDevAttr, SetDevAttr, SetDevAttrFails, GetDevIsEnable,
         EnableDevFails, Drop, ReleaseId, IInv, TypeOK
<1>5. QED
  BY <1>1, <1>2, <1>3, <1>4 DEF Doomed, Pipeless

LEMMA StepCosts ==
  ASSUME IInv, [Next]_vars
  PROVE  \/ /\ Doomed' \subseteq Doomed /\ Pipeless' \subseteq Pipeless
            /\ faults' \in {faults, faults + 1}
         \/ /\ faults' = faults + 1
            /\ \E i \in Ids :
                 \/ Doomed' \subseteq Doomed \cup {i} /\ Pipeless' \subseteq Pipeless
                 \/ Doomed' \subseteq Doomed /\ Pipeless' \subseteq Pipeless \cup {i}
<1>1. CASE UNCHANGED vars
  BY <1>1 DEF vars, Doomed, Pipeless
<1>2. ASSUME NEW t \in Thread, EnableDev(t) \/ SetDevBindPipe(t)
      PROVE  Doomed' \subseteq Doomed /\ Pipeless' \subseteq Pipeless /\ faults' = faults
  BY <1>2 DEF EnableDev, SetDevBindPipe, Doomed, Pipeless, IInv, TypeOK
<1>3. ASSUME NEW t \in Thread, SetDevBindPipeFails(t)
      PROVE  /\ Doomed' \subseteq Doomed \cup {dev[t]} /\ Pipeless' \subseteq Pipeless
             /\ faults' = faults + 1
  BY <1>3 DEF SetDevBindPipeFails, Doomed, Pipeless, IInv, TypeOK
<1>4. ASSUME NEW t \in Thread, DisableDev(t), UNCHANGED faults
      PROVE  Doomed' \subseteq Doomed /\ Pipeless' \subseteq Pipeless
  <2>1. enabled' = enabled \ {dev[t]} /\ pipe' = pipe \ {dev[t]} /\ UNCHANGED dev
    BY <1>4, MaxFaultsAssumption DEF DisableDev, IInv, TypeOK
  <2>2. \A u \in Thread : u # t => pc'[u] = pc[u]
    BY <1>4 DEF DisableDev, IInv, TypeOK
  <2>3. QED
    BY <2>1, <2>2 DEF Doomed, Pipeless
<1>5. ASSUME NEW t \in Thread, DisableDev(t), Fault
      PROVE  \/ Doomed' \subseteq Doomed \cup {dev[t]} /\ Pipeless' \subseteq Pipeless
             \/ Doomed' \subseteq Doomed /\ Pipeless' \subseteq Pipeless \cup {dev[t]}
  <2>1. UNCHANGED <<enabled, pipe, dev>>
    BY <1>5, MaxFaultsAssumption DEF DisableDev, IInv, TypeOK
  <2>2. \A u \in Thread : u # t => pc'[u] = pc[u]
    BY <1>5 DEF DisableDev, IInv, TypeOK
  <2>3. \A u \in Thread : u # t => dev[u] # dev[t]
    BY <1>5 DEF DisableDev, IInv, Shape, IdsExclusive
  <2>4. pc[t] = "disabling"
    BY <1>5 DEF DisableDev
  <2>5. CASE dev[t] \in pipe
    BY <2>1, <2>2, <2>5 DEF Doomed, Pipeless
  <2>6. CASE dev[t] \notin pipe
    BY <2>1, <2>2, <2>3, <2>4, <2>6 DEF Doomed, Pipeless
  <2>7. QED
    BY <2>5, <2>6
<1>6. ASSUME NEW t \in Thread, SetDevBindPipeFails(t) \/ DisableDev(t)
      PROVE  dev[t] \in Ids
  BY <1>6 DEF SetDevBindPipeFails, DisableDev, IInv, Shape
<1>7. ASSUME NEW t \in Thread, DisableDev(t)
      PROVE  UNCHANGED faults \/ Fault
  BY <1>7 DEF DisableDev
<1>8. QED
  BY <1>1, <1>2, <1>3, <1>4, <1>5, <1>6, <1>7, FreeStep DEF Next

HIDE DEF Goto, Fault, Pc, resourceVars, nativeVars

LEMMA AccountStep == Account /\ IInv /\ [Next]_vars => Account'
<1> SUFFICES ASSUME Account, IInv, [Next]_vars
             PROVE  Account'
  OBVIOUS
<1>1. faults \in Nat
  BY MaxFaultsAssumption DEF IInv, TypeOK
<1>2. ASSUME NEW i, Doomed' \subseteq Doomed \cup {i}, Pipeless' \subseteq Pipeless \cup {i}
      PROVE  /\ IsFiniteSet(Doomed') /\ IsFiniteSet(Pipeless')
             /\ Cardinality(Doomed) \in Nat /\ Cardinality(Doomed') \in Nat
             /\ Cardinality(Pipeless) \in Nat /\ Cardinality(Pipeless') \in Nat
             /\ Cardinality(Doomed') =< Cardinality(Doomed) + 1
             /\ Cardinality(Pipeless') =< Cardinality(Pipeless) + 1
             /\ Doomed' \subseteq Doomed => Cardinality(Doomed') =< Cardinality(Doomed)
             /\ Pipeless' \subseteq Pipeless => Cardinality(Pipeless') =< Cardinality(Pipeless)
  BY <1>2, OneMore DEF Account
<1>3. CASE Doomed' \subseteq Doomed /\ Pipeless' \subseteq Pipeless
           /\ faults' \in {faults, faults + 1}
  BY <1>1, <1>2, <1>3 DEF Account
<1>4. ASSUME NEW i \in Ids, faults' = faults + 1,
             \/ Doomed' \subseteq Doomed \cup {i} /\ Pipeless' \subseteq Pipeless
             \/ Doomed' \subseteq Doomed /\ Pipeless' \subseteq Pipeless \cup {i}
      PROVE  Account'
  BY <1>1, <1>2, <1>4 DEF Account
<1>5. QED
  BY <1>3, <1>4, StepCosts

(* A device that is enabled without a camera has cost one failing call,    *)
(* and one without a pipe two (Camera::new, CameraInner::drop).            *)
THEOREM LeftoversCost == Spec => []LeftoversCostFaults
<1>1. Init => Account
  <2>1. Init => Doomed = {} /\ Pipeless = {}
    BY DEF Init, Doomed, Pipeless
  <2>2. QED
    BY <2>1, FS_EmptySet, MaxFaultsAssumption DEF Init, Account
<1>2. Account /\ IInv => LeftoversCostFaults
  <2> SUFFICES ASSUME Account, IInv
               PROVE  LeftoversCostFaults
    OBVIOUS
  <2> DEFINE Piped == Leftover \ Pipeless
  <2>1. Piped \subseteq Doomed /\ Pipeless \subseteq Doomed
    BY DEF Leftover, InUse, Doomed, Pipeless
  <2>2. Piped \cup Pipeless \subseteq Doomed /\ Piped \cap Pipeless = {}
    BY <2>1
  <2>3. IsFiniteSet(Piped) /\ IsFiniteSet(Pipeless)
    BY <2>1, FS_Subset DEF Account
  <2> HIDE DEF Piped
  <2>4. Cardinality(Piped \cup Pipeless)
          = Cardinality(Piped) + Cardinality(Pipeless) - Cardinality(Piped \cap Pipeless)
    BY <2>3, FS_Union
  <2>5. Cardinality(Piped \cap Pipeless) = 0
    BY <2>2, FS_EmptySet
  <2>6. Cardinality(Piped \cup Pipeless) =< Cardinality(Doomed)
    BY <2>2, FS_Subset DEF Account
  <2>7. /\ Cardinality(Piped) \in Nat /\ Cardinality(Pipeless) \in Nat
        /\ Cardinality(Doomed) \in Nat /\ faults \in Nat
    BY <2>3, FS_CardinalityType, MaxFaultsAssumption DEF Account, IInv, TypeOK
  <2>8. Cardinality(Piped) + 2 * Cardinality(Pipeless) =< faults
    BY <2>4, <2>5, <2>6, <2>7 DEF Account
  <2>9. QED
    BY <2>8 DEF LeftoversCostFaults, Piped
<1>3. QED
  BY <1>1, <1>2, AccountStep, Invariance, PTL DEF Spec
=============================================================================
