------------------------- MODULE VencChannel_proofs -------------------------
(***************************************************************************)
(* Machine-checked proofs about VencChannel, for any number of threads,    *)
(* ids, sources and faults: the channels use their ids as ResourceManager  *)
(* allows, and the safety invariants follow from one inductive invariant.  *)
(* The account of lost channels has an invariant of its own on top.        *)
(***************************************************************************)
EXTENDS VencChannel, FiniteSetTheorems, TLAPS

Manager ==
  INSTANCE ResourceManager_proofs
    WITH Holder <- Thread, NoHolder <- NoThread, held <- Held

(* A thread has an id exactly while it is in the life of a channel.        *)
Shape ==
  /\ pc \in [Thread -> Pc]
  /\ chn \in [Thread -> Ids \cup {NoId}]
  /\ \A t \in Thread : chn[t] = NoId <=> pc[t] = "none"

LEMMA ShapeInvariant == Spec => []Shape
<1>1. Init => Shape
  BY DEF Init, Shape, Pc
<1>2. Shape /\ [Next]_vars => Shape'
  <2> SUFFICES ASSUME Shape, [Next]_vars
               PROVE  Shape'
    OBVIOUS
  <2> USE DEF Shape, Pc, Goto, NoId, Ids, resourceVars
  <2>1. ASSUME NEW t \in Thread, Acqure(t)
        PROVE  Shape'
    BY <2>1, CapacityAssumption DEF Acqure
  <2>2. ASSUME NEW t \in Thread, ReleaseId(t)
        PROVE  Shape'
    BY <2>2, CapacityAssumption DEF ReleaseId
  <2>3. ASSUME NEW t \in Thread,
               \/ CreateChn(t) \/ CreateChnFails(t)
               \/ Configure(t) \/ ConfigureFails(t)
               \/ Start(t) \/ StartFails(t)
               \/ \E src \in Source : Bind(t, src)
               \/ Unbind(t)
               \/ Stop(t) \/ StopFails(t)
               \/ Drop(t) \/ DropStop(t) \/ DropDestroy(t)
        PROVE  Shape'
    BY <2>3
    DEF CreateChn, CreateChnFails, Configure, ConfigureFails, Start,
        StartFails, Bind, Unbind, Stop, StopFails, Drop, DropStop, DropDestroy
  <2>4. CASE UNCHANGED vars
    BY <2>4 DEF vars
  <2>5. QED
    BY <2>1, <2>2, <2>3, <2>4 DEF Next
<1>3. QED
  BY <1>1, <1>2, PTL DEF Spec

(* Acquiring an id and dropping its guard are the manager's steps; every   *)
(* other step leaves the manager and the guards alone.                     *)
THEOREM ChannelsUseResourceManager == Spec => UsesResourceManager
<1>1. Init => Resources!Init
  BY DEF Init, Resources!Init, Resources!Ids, Ids, Held
<1>2. Shape /\ [Next]_vars => [Resources!Next]_(Resources!vars)
  <2> SUFFICES ASSUME Shape, [Next]_vars
               PROVE  Resources!Next \/ UNCHANGED Resources!vars
    OBVIOUS
  <2>1. ASSUME NEW t \in Thread, Acqure(t)
        PROVE  Resources!Next
    BY <2>1 DEF Acqure, Resources!Next, Resources!Ids, Ids
  <2>2. ASSUME NEW t \in Thread, ReleaseId(t)
        PROVE  Resources!Next
    <3>1. chn[t] \in Resources!Ids
      BY <2>2 DEF ReleaseId, Shape, Resources!Ids, Ids
    <3>2. QED
      BY <2>2, <3>1 DEF ReleaseId, Resources!Next
  <2>3. ASSUME UNCHANGED resourceVars
        PROVE  UNCHANGED Resources!vars
    BY <2>3 DEF resourceVars, Resources!vars, Held
  <2>4. QED
    BY <2>1, <2>2, <2>3
    DEF Next, vars, CreateChn, CreateChnFails, Configure, ConfigureFails,
        Start, StartFails, Bind, Unbind, Stop, StopFails, Drop, DropStop,
        DropDestroy
<1>3. QED
  BY <1>1, <1>2, ShapeInvariant, PTL
  DEF Spec, UsesResourceManager, Resources!Spec

(* So what is proved of the manager holds of the ids of VENC channels: none is      *)
(* lost or handed out twice, and they are leased as IdLease says            *)
(* (src/src/venc.rs, VencChannel::acqure and the drop of its AcquiredResource). *)
THEOREM ChannelIdsAreLeased ==
  Spec => []Resources!Conserved /\ Resources!ImplementsLease
<1>1. Manager!Init <=> Resources!Init
  BY DEF Manager!Init, Resources!Init, Manager!Ids, Resources!Ids
<1>2. [Manager!Next]_(Manager!vars) <=> [Resources!Next]_(Resources!vars)
  BY DEF Manager!Next, Resources!Next, Manager!Ids, Resources!Ids, Manager!vars,
     Resources!vars, Manager!Acqure, Resources!Acqure, Manager!Hand, Resources!Hand,
     Manager!AcqureSpecific, Resources!AcqureSpecific, Manager!Release,
     Resources!Release, Manager!Min, Resources!Min
<1>3. Manager!Conserved <=> Resources!Conserved
  BY DEF Manager!Conserved, Resources!Conserved, Manager!Ids, Resources!Ids
<1>4. Manager!Lease!Init <=> Resources!Lease!Init
  BY DEF Manager!Lease!Init, Resources!Lease!Init, Manager!Ids, Resources!Ids,
     Manager!LeaseOf, Resources!LeaseOf
<1>5. [Manager!Lease!Next]_([id \in Manager!Ids |-> Manager!LeaseOf(id)])
        <=> [Resources!Lease!Next]_([id \in Resources!Ids |-> Resources!LeaseOf(id)])
  BY DEF Manager!Lease!Next, Resources!Lease!Next, Manager!Lease!Take,
     Resources!Lease!Take, Manager!Lease!GiveBack, Resources!Lease!GiveBack,
     Manager!Ids, Resources!Ids, Manager!LeaseOf, Resources!LeaseOf
<1>6. Manager!Spec => []Manager!Conserved
  BY CapacityAssumption, NoThreadAssumption, Manager!IdsAreConserved
<1>7. Manager!Spec => Manager!ImplementsLease
  BY CapacityAssumption, NoThreadAssumption, Manager!ManagerImplementsLease
<1>8. QED
  BY <1>1, <1>2, <1>3, <1>4, <1>5, <1>6, <1>7, ChannelsUseResourceManager, PTL
  DEF UsesResourceManager, Manager!Spec, Resources!Spec, Manager!ImplementsLease,
      Resources!ImplementsLease, Manager!Lease!Spec, Resources!Lease!Spec

-----------------------------------------------------------------------------
(* The inductive invariant.  The state of a handle agrees with the native  *)
(* channel only because no other thread has the same id, which holds only  *)
(* because an id in a guard is not available; so ids come first.           *)

IdsExclusive ==
  /\ \A t \in Thread : chn[t] # NoId => chn[t] \notin available
  /\ \A t, u \in Thread : chn[t] # NoId /\ chn[t] = chn[u] => t = u

HandleHasChannel ==
  \A t \in Thread : HasHandle(t) => native[chn[t]] # "absent"

(* A bind object borrows a started channel in the hands of its caller. *)
BindBorrows ==
  \A t \in Thread : bind[t] # NoSource => pc[t] = "ready" /\ state[t] = "Started"

(* Without a failure nothing is left behind. *)
NothingLeft ==
  faults = 0 =>
    /\ \A i \in Ids : native[i] # "absent" =>
         \E t \in Thread : HasHandle(t) /\ chn[t] = i
    /\ \A i \in Ids : binds[i] # NoSource =>
         \E t \in Thread : bind[t] # NoSource /\ chn[t] = i
    /\ \A t \in Thread : pc[t] = "destroying" => state[t] = "Initialized"

IInv ==
  /\ TypeOK
  /\ Shape
  /\ IdsExclusive
  /\ HandleHasChannel
  /\ StateAgrees
  /\ BindBorrows
  /\ BindsFollowHandles
  /\ NothingLeft

(* What the invariant is for. *)
LEMMA IInvSuffices == IInv => HandleOwnsChannel /\ NoErrorWithoutFault
<1> SUFFICES ASSUME IInv PROVE HandleOwnsChannel /\ NoErrorWithoutFault
  OBVIOUS
<1>1. ASSUME NEW t \in Thread, pc[t] # "none"
      PROVE  chn[t] \in Ids
  BY <1>1 DEF IInv, Shape
<1>2. HandleOwnsChannel
  BY DEF IInv, Shape, IdsExclusive, HandleHasChannel, HandleOwnsChannel, HasHandle
<1>3. ASSUME faults = 0, NEW t \in Thread, pc[t] = "creating"
      PROVE  native[chn[t]] = "absent"
  <2>1. chn[t] \in Ids
    BY <1>1, <1>3
  <2>2. ASSUME NEW u \in Thread, HasHandle(u), chn[u] = chn[t]
        PROVE  FALSE
    BY <1>3, <2>2, <2>1 DEF IInv, Shape, IdsExclusive, HasHandle
  <2>3. QED
    BY <1>3, <2>1, <2>2 DEF IInv, NothingLeft
<1>4. ASSUME faults = 0, NEW t \in Thread, pc[t] = "destroying"
      PROVE  Destroyable(chn[t])
  <2>1. chn[t] \in Ids /\ chn[t] # NoId
    BY <1>1, <1>4 DEF IInv, Shape
  <2>2. native[chn[t]] = "created"
    <3>1. native[chn[t]] \in {"absent", "created", "started"}
      BY <2>1 DEF IInv, TypeOK
    <3>2. HasHandle(t) /\ state[t] = "Initialized"
      BY <1>4 DEF IInv, NothingLeft, HasHandle
    <3>3. QED
      BY <3>1, <3>2 DEF IInv, HandleHasChannel, StateAgrees
  <2>3. binds[chn[t]] = NoSource
    <3>1. ASSUME NEW u \in Thread, bind[u] # NoSource, chn[u] = chn[t]
          PROVE  FALSE
      BY <1>4, <3>1, <2>1 DEF IInv, IdsExclusive, BindBorrows
    <3>2. QED
      BY <1>4, <2>1, <3>1 DEF IInv, NothingLeft
  <2>4. QED
    BY <2>2, <2>3 DEF Destroyable
<1>5. QED
  BY <1>2, <1>3, <1>4 DEF NoErrorWithoutFault

(* What acquiring and releasing do to the ids, whichever constructor runs. *)
LEMMA AcqureTakesFreeId ==
  ASSUME IInv, NEW t \in Thread, Acqure(t)
  PROVE  \E id \in available :
           /\ chn' = [chn EXCEPT ![t] = id]
           /\ available' = available \ {id}
           /\ busy' = busy \cup {id}
<1>1. PICK id \in Ids :
        /\ chn' = [chn EXCEPT ![t] = id]
        /\ Resources!Acqure(t) \/ Resources!AcqureSpecific(t, id)
  BY DEF Acqure
<1>2. CASE Resources!AcqureSpecific(t, id)
  BY <1>1, <1>2 DEF Resources!AcqureSpecific, Resources!Hand
<1>3. CASE Resources!Acqure(t)
  <2> DEFINE m == Resources!Min(available)
  <2>1. available \in SUBSET Manager!Ids /\ available # {}
    BY <1>3 DEF Resources!Acqure, IInv, TypeOK, Manager!Ids, Ids
  <2>2. m \in available
    BY <2>1, CapacityAssumption, NoThreadAssumption, Manager!LowestIsFree
    DEF Resources!Min, Manager!Min
  <2>3. /\ available' = available \ {m}
        /\ busy' = busy \cup {m}
        /\ Held' = [Held EXCEPT ![t] = @ \cup {m}]
    BY <1>3 DEF Resources!Acqure, Resources!Hand
  <2> HIDE DEF m
  <2>4. Held'[t] = {id} /\ Held'[t] = {m}
    <3>1. chn[t] = NoId /\ chn'[t] = id /\ id # NoId
      BY <1>1 DEF Acqure, IInv, TypeOK, Shape, Ids, NoId
    <3>2. QED
      BY <2>3, <3>1 DEF Held
  <2>5. id = m
    BY <2>4
  <2>6. QED
    BY <1>1, <2>2, <2>3, <2>5
<1>4. QED
  BY <1>1, <1>2, <1>3

LEMMA ReleaseIdFreesOnlyItsOwn ==
  ASSUME IInv, NEW t \in Thread, ReleaseId(t)
  PROVE  /\ chn[t] \in Ids
         /\ chn' = [chn EXCEPT ![t] = NoId]
         /\ available' \subseteq available \cup {chn[t]}
         /\ busy' \subseteq busy
<1>1. chn[t] \in Ids
  BY DEF ReleaseId, IInv, Shape
<1>2. QED
  BY <1>1 DEF ReleaseId, Resources!Release

(* Every operation preserves the invariant.                                *)
USE DEF IInv, HasHandle, Goto, Fault, Destroyable, Pc, Ids, NoId, resourceVars

LEMMA AcqureKeepsIInv ==
  ASSUME IInv, NEW t \in Thread, Acqure(t)
  PROVE  IInv'
<1>1. PICK id \in available :
        /\ chn' = [chn EXCEPT ![t] = id]
        /\ available' = available \ {id}
        /\ busy' = busy \cup {id}
  BY AcqureTakesFreeId
<1>2. id \in Ids /\ id # NoId
  BY CapacityAssumption DEF TypeOK
<1> HIDE DEF IInv
<1>3. TypeOK'
  BY <1>1, <1>2, CapacityAssumption, NoSourceAssumption, MaxFaultsAssumption
  DEF Acqure, IInv, TypeOK, Shape, BindBorrows
<1>4. Shape'
  BY <1>1, <1>2, CapacityAssumption, NoSourceAssumption, MaxFaultsAssumption
  DEF Acqure, IInv, TypeOK, Shape, BindBorrows
<1>5. IdsExclusive'
  BY <1>1, <1>2, CapacityAssumption, NoSourceAssumption, MaxFaultsAssumption
  DEF Acqure, IInv, TypeOK, Shape, BindBorrows, IdsExclusive
<1>6. HandleHasChannel'
  BY <1>1, <1>2, CapacityAssumption, NoSourceAssumption, MaxFaultsAssumption
  DEF Acqure, IInv, TypeOK, Shape, BindBorrows, IdsExclusive,
      HandleHasChannel
<1>7. StateAgrees'
  BY <1>1, <1>2, CapacityAssumption, NoSourceAssumption, MaxFaultsAssumption
  DEF Acqure, IInv, TypeOK, Shape, BindBorrows, IdsExclusive,
      HandleHasChannel, StateAgrees
<1>8. BindBorrows'
  BY <1>1, <1>2, CapacityAssumption, NoSourceAssumption, MaxFaultsAssumption
  DEF Acqure, IInv, TypeOK, Shape, BindBorrows
<1>9. BindsFollowHandles'
  BY <1>1, <1>2, CapacityAssumption, NoSourceAssumption, MaxFaultsAssumption
  DEF Acqure, IInv, TypeOK, Shape, BindBorrows, IdsExclusive,
      BindsFollowHandles, HandleHasChannel
<1>10. NothingLeft'
  BY <1>1, <1>2, CapacityAssumption, NoSourceAssumption, MaxFaultsAssumption
  DEF Acqure, IInv, TypeOK, Shape, BindBorrows, IdsExclusive,
      HandleHasChannel, StateAgrees, BindsFollowHandles, NothingLeft
<1>11. QED
  BY <1>3, <1>4, <1>5, <1>6, <1>7, <1>8, <1>9, <1>10 DEF IInv

LEMMA CreateChnKeepsIInv ==
  ASSUME IInv, NEW t \in Thread, CreateChn(t)
  PROVE  IInv'
BY CapacityAssumption, NoSourceAssumption, MaxFaultsAssumption
DEF CreateChn, TypeOK, Shape, IdsExclusive, HandleHasChannel, StateAgrees,
    BindBorrows, BindsFollowHandles, NothingLeft

LEMMA CreateChnFailsKeepsIInv ==
  ASSUME IInv, NEW t \in Thread, CreateChnFails(t)
  PROVE  IInv'
BY CapacityAssumption, NoSourceAssumption, MaxFaultsAssumption
DEF CreateChnFails, TypeOK, Shape, IdsExclusive, HandleHasChannel, StateAgrees,
    BindBorrows, BindsFollowHandles, NothingLeft

LEMMA ConfigureKeepsIInv ==
  ASSUME IInv, NEW t \in Thread, Configure(t)
  PROVE  IInv'
BY CapacityAssumption, NoSourceAssumption, MaxFaultsAssumption
DEF Configure, TypeOK, Shape, IdsExclusive, HandleHasChannel, StateAgrees,
    BindBorrows, BindsFollowHandles, NothingLeft

LEMMA ConfigureFailsKeepsIInv ==
  ASSUME IInv, NEW t \in Thread, ConfigureFails(t)
  PROVE  IInv'
BY CapacityAssumption, NoSourceAssumption, MaxFaultsAssumption
DEF ConfigureFails, TypeOK, Shape, IdsExclusive, HandleHasChannel, StateAgrees,
    BindBorrows, BindsFollowHandles, NothingLeft

LEMMA StartKeepsIInv ==
  ASSUME IInv, NEW t \in Thread, Start(t)
  PROVE  IInv'
BY CapacityAssumption, NoSourceAssumption, MaxFaultsAssumption
DEF Start, TypeOK, Shape, IdsExclusive, HandleHasChannel, StateAgrees,
    BindBorrows, BindsFollowHandles, NothingLeft

LEMMA StartFailsKeepsIInv ==
  ASSUME IInv, NEW t \in Thread, StartFails(t)
  PROVE  IInv'
BY CapacityAssumption, NoSourceAssumption, MaxFaultsAssumption
DEF StartFails, TypeOK, Shape, IdsExclusive, HandleHasChannel, StateAgrees,
    BindBorrows, BindsFollowHandles, NothingLeft

LEMMA BindKeepsIInv ==
  ASSUME IInv, NEW t \in Thread, NEW src \in Source, Bind(t, src)
  PROVE  IInv'
BY CapacityAssumption, NoSourceAssumption, MaxFaultsAssumption
DEF Bind, TypeOK, Shape, IdsExclusive, HandleHasChannel, StateAgrees,
    BindBorrows, BindsFollowHandles, NothingLeft

LEMMA StopKeepsIInv ==
  ASSUME IInv, NEW t \in Thread, Stop(t)
  PROVE  IInv'
BY CapacityAssumption, NoSourceAssumption, MaxFaultsAssumption
DEF Stop, TypeOK, Shape, IdsExclusive, HandleHasChannel, StateAgrees,
    BindBorrows, BindsFollowHandles, NothingLeft

LEMMA StopFailsKeepsIInv ==
  ASSUME IInv, NEW t \in Thread, StopFails(t)
  PROVE  IInv'
BY CapacityAssumption, NoSourceAssumption, MaxFaultsAssumption
DEF StopFails, TypeOK, Shape, IdsExclusive, HandleHasChannel, StateAgrees,
    BindBorrows, BindsFollowHandles, NothingLeft

LEMMA DropKeepsIInv ==
  ASSUME IInv, NEW t \in Thread, Drop(t)
  PROVE  IInv'
BY CapacityAssumption, NoSourceAssumption, MaxFaultsAssumption
DEF Drop, TypeOK, Shape, IdsExclusive, HandleHasChannel, StateAgrees,
    BindBorrows, BindsFollowHandles, NothingLeft

LEMMA UnbindKeepsIInv ==
  ASSUME IInv, NEW t \in Thread, Unbind(t)
  PROVE  IInv'
<1>1. chn[t] \in Ids /\ chn[t] # NoId
  BY DEF Unbind, TypeOK, Shape, BindBorrows
<1> HIDE DEF IInv
<1>11. /\ UNCHANGED <<available, busy, chn, pc, state, native>>
       /\ bind' = [bind EXCEPT ![t] = NoSource]
       /\ binds' = binds \/ binds' = [binds EXCEPT ![chn[t]] = NoSource]
       /\ faults' \in {faults, faults + 1} /\ faults' \in 0 .. MaxFaults
  BY MaxFaultsAssumption DEF Unbind, Fault, resourceVars, IInv, TypeOK
<1>2. TypeOK'
  BY <1>1, <1>11 DEF IInv, TypeOK
<1>3. Shape'
  BY <1>1, CapacityAssumption, NoSourceAssumption, MaxFaultsAssumption
  DEF Unbind, IInv, TypeOK, Shape, BindBorrows
<1>4. IdsExclusive'
  BY <1>1, CapacityAssumption, NoSourceAssumption, MaxFaultsAssumption
  DEF Unbind, IInv, TypeOK, Shape, BindBorrows, IdsExclusive
<1>5. HandleHasChannel'
  BY <1>1, CapacityAssumption, NoSourceAssumption, MaxFaultsAssumption
  DEF Unbind, IInv, TypeOK, Shape, BindBorrows, IdsExclusive,
      HandleHasChannel
<1>6. StateAgrees'
  BY <1>1, CapacityAssumption, NoSourceAssumption, MaxFaultsAssumption
  DEF Unbind, IInv, TypeOK, Shape, BindBorrows, IdsExclusive,
      HandleHasChannel, StateAgrees
<1>7. BindBorrows'
  BY <1>1, CapacityAssumption, NoSourceAssumption, MaxFaultsAssumption
  DEF Unbind, IInv, TypeOK, Shape, BindBorrows
<1>8. BindsFollowHandles'
  <2>1. \A i \in Ids : binds'[i] = binds[i] \/ (i = chn[t] /\ binds'[i] = NoSource)
    BY <1>1, <1>11 DEF IInv, TypeOK
  <2>2. \A u \in Thread : bind'[u] # NoSource =>
          u # t /\ bind'[u] = bind[u] /\ chn[u] \in Ids /\ chn[u] # chn[t]
    BY <1>1, <1>11 DEF IInv, TypeOK, Shape, BindBorrows, IdsExclusive
  <2>3. \A u \in Thread : pc[u] = "configuring" => chn[u] \in Ids
    BY DEF IInv, Shape
  <2>4. QED
    BY <1>11, <2>1, <2>2, <2>3 DEF IInv, BindsFollowHandles
<1>9. NothingLeft'
  BY <1>1, CapacityAssumption, NoSourceAssumption, MaxFaultsAssumption
  DEF Unbind, IInv, TypeOK, Shape, BindBorrows, IdsExclusive,
      HandleHasChannel, StateAgrees, BindsFollowHandles, NothingLeft
<1>10. QED
  BY <1>2, <1>3, <1>4, <1>5, <1>6, <1>7, <1>8, <1>9 DEF IInv

LEMMA DropStopKeepsIInv ==
  ASSUME IInv, NEW t \in Thread, DropStop(t)
  PROVE  IInv'
<1>1. chn[t] \in Ids /\ chn[t] # NoId
  BY DEF DropStop, TypeOK, Shape, BindBorrows
<1> HIDE DEF IInv
<1>2. TypeOK'
  <2>1. native' \in [Ids -> {"absent", "created", "started"}]
    BY <1>1 DEF DropStop, IInv, TypeOK
  <2>2. state' \in [Thread -> {"Initialized", "Started"}]
    BY <1>1 DEF DropStop, IInv, TypeOK
  <2>3. faults' \in 0 .. MaxFaults
    BY MaxFaultsAssumption DEF DropStop, IInv, TypeOK
  <2>4. QED
    BY <2>1, <2>2, <2>3 DEF DropStop, IInv, TypeOK
<1>3. Shape'
  BY <1>1, CapacityAssumption, NoSourceAssumption, MaxFaultsAssumption
  DEF DropStop, IInv, TypeOK, Shape, BindBorrows
<1>4. IdsExclusive'
  BY <1>1, CapacityAssumption, NoSourceAssumption, MaxFaultsAssumption
  DEF DropStop, IInv, TypeOK, Shape, BindBorrows, IdsExclusive
<1>5. HandleHasChannel'
  BY <1>1, CapacityAssumption, NoSourceAssumption, MaxFaultsAssumption
  DEF DropStop, IInv, TypeOK, Shape, BindBorrows, IdsExclusive,
      HandleHasChannel
<1>6. StateAgrees'
  BY <1>1, CapacityAssumption, NoSourceAssumption, MaxFaultsAssumption
  DEF DropStop, IInv, TypeOK, Shape, BindBorrows, IdsExclusive,
      HandleHasChannel, StateAgrees
<1>7. BindBorrows'
  BY <1>1, CapacityAssumption, NoSourceAssumption, MaxFaultsAssumption
  DEF DropStop, IInv, TypeOK, Shape, BindBorrows
<1>8. BindsFollowHandles'
  BY <1>1, CapacityAssumption, NoSourceAssumption, MaxFaultsAssumption
  DEF DropStop, IInv, TypeOK, Shape, BindBorrows, IdsExclusive,
      BindsFollowHandles, HandleHasChannel
<1>9. NothingLeft'
  BY <1>1, CapacityAssumption, NoSourceAssumption, MaxFaultsAssumption
  DEF DropStop, IInv, TypeOK, Shape, BindBorrows, IdsExclusive,
      HandleHasChannel, StateAgrees, BindsFollowHandles, NothingLeft
<1>10. QED
  BY <1>2, <1>3, <1>4, <1>5, <1>6, <1>7, <1>8, <1>9 DEF IInv

LEMMA DropDestroyKeepsIInv ==
  ASSUME IInv, NEW t \in Thread, DropDestroy(t)
  PROVE  IInv'
<1>1. chn[t] \in Ids /\ chn[t] # NoId
  BY DEF DropDestroy, TypeOK, Shape, BindBorrows
<1> HIDE DEF IInv
<1>2. TypeOK'
  BY <1>1, CapacityAssumption, NoSourceAssumption, MaxFaultsAssumption
  DEF DropDestroy, IInv, TypeOK, Shape, BindBorrows
<1>3. Shape'
  BY <1>1, CapacityAssumption, NoSourceAssumption, MaxFaultsAssumption
  DEF DropDestroy, IInv, TypeOK, Shape, BindBorrows
<1>4. IdsExclusive'
  BY <1>1, CapacityAssumption, NoSourceAssumption, MaxFaultsAssumption
  DEF DropDestroy, IInv, TypeOK, Shape, BindBorrows, IdsExclusive
<1>5. HandleHasChannel'
  BY <1>1, CapacityAssumption, NoSourceAssumption, MaxFaultsAssumption
  DEF DropDestroy, IInv, TypeOK, Shape, BindBorrows, IdsExclusive,
      HandleHasChannel
<1>6. StateAgrees'
  BY <1>1, CapacityAssumption, NoSourceAssumption, MaxFaultsAssumption
  DEF DropDestroy, IInv, TypeOK, Shape, BindBorrows, IdsExclusive,
      HandleHasChannel, StateAgrees
<1>7. BindBorrows'
  BY <1>1, CapacityAssumption, NoSourceAssumption, MaxFaultsAssumption
  DEF DropDestroy, IInv, TypeOK, Shape, BindBorrows
<1>8. BindsFollowHandles'
  BY <1>1, CapacityAssumption, NoSourceAssumption, MaxFaultsAssumption
  DEF DropDestroy, IInv, TypeOK, Shape, BindBorrows, IdsExclusive,
      BindsFollowHandles, HandleHasChannel
<1>9. NothingLeft'
  <2> SUFFICES ASSUME faults' = 0
               PROVE  NothingLeft'
    BY DEF NothingLeft
  <2>1. /\ faults = 0
        /\ Destroyable(chn[t])
        /\ native' = [native EXCEPT ![chn[t]] = "absent"]
    <3>1. faults = 0
      BY MaxFaultsAssumption DEF DropDestroy, IInv, TypeOK
    <3>2. Destroyable(chn[t])
      BY <3>1, IInvSuffices DEF DropDestroy, NoErrorWithoutFault
    <3>3. QED
      BY <3>1, <3>2 DEF DropDestroy
  <2>2. ASSUME NEW i \in Ids, native'[i] # "absent"
        PROVE  \E u \in Thread : HasHandle(u)' /\ chn'[u] = i
    <3>1. i # chn[t] /\ native[i] # "absent"
      BY <1>1, <2>1, <2>2 DEF IInv, TypeOK
    <3>2. PICK u \in Thread : HasHandle(u) /\ chn[u] = i
      BY <2>1, <3>1 DEF IInv, NothingLeft
    <3>3. QED
      BY <3>1, <3>2 DEF DropDestroy, IInv, TypeOK
  <2>3. /\ UNCHANGED <<bind, binds, chn, state>>
        /\ \A u \in Thread : pc'[u] = "destroying" => pc[u] = "destroying"
    BY DEF DropDestroy, IInv, TypeOK
  <2>4. QED
    BY <2>1, <2>2, <2>3 DEF IInv, NothingLeft
<1>10. QED
  BY <1>2, <1>3, <1>4, <1>5, <1>6, <1>7, <1>8, <1>9 DEF IInv

LEMMA ReleaseIdKeepsIInv ==
  ASSUME IInv, NEW t \in Thread, ReleaseId(t)
  PROVE  IInv'
<1>1. /\ chn[t] \in Ids
      /\ chn' = [chn EXCEPT ![t] = NoId]
      /\ available' \subseteq available \cup {chn[t]}
      /\ busy' \subseteq busy
  BY ReleaseIdFreesOnlyItsOwn
<1> HIDE DEF IInv
<1>2. TypeOK'
  BY <1>1, CapacityAssumption, NoSourceAssumption, MaxFaultsAssumption
  DEF ReleaseId, IInv, TypeOK, Shape, BindBorrows
<1>3. Shape'
  BY <1>1, CapacityAssumption, NoSourceAssumption, MaxFaultsAssumption
  DEF ReleaseId, IInv, TypeOK, Shape, BindBorrows
<1>4. IdsExclusive'
  BY <1>1, CapacityAssumption, NoSourceAssumption, MaxFaultsAssumption
  DEF ReleaseId, IInv, TypeOK, Shape, BindBorrows, IdsExclusive
<1>5. HandleHasChannel'
  BY <1>1, CapacityAssumption, NoSourceAssumption, MaxFaultsAssumption
  DEF ReleaseId, IInv, TypeOK, Shape, BindBorrows, IdsExclusive,
      HandleHasChannel
<1>6. StateAgrees'
  BY <1>1, CapacityAssumption, NoSourceAssumption, MaxFaultsAssumption
  DEF ReleaseId, IInv, TypeOK, Shape, BindBorrows, IdsExclusive,
      HandleHasChannel, StateAgrees
<1>7. BindBorrows'
  BY <1>1, CapacityAssumption, NoSourceAssumption, MaxFaultsAssumption
  DEF ReleaseId, IInv, TypeOK, Shape, BindBorrows
<1>8. BindsFollowHandles'
  BY <1>1, CapacityAssumption, NoSourceAssumption, MaxFaultsAssumption
  DEF ReleaseId, IInv, TypeOK, Shape, BindBorrows, IdsExclusive,
      BindsFollowHandles, HandleHasChannel
<1>9. NothingLeft'
  BY <1>1, CapacityAssumption, NoSourceAssumption, MaxFaultsAssumption
  DEF ReleaseId, IInv, TypeOK, Shape, BindBorrows, IdsExclusive,
      HandleHasChannel, StateAgrees, BindsFollowHandles, NothingLeft
<1>10. QED
  BY <1>2, <1>3, <1>4, <1>5, <1>6, <1>7, <1>8, <1>9 DEF IInv

HIDE DEF IInv, HasHandle, Goto, Fault, Destroyable, Pc, Ids, NoId, resourceVars

LEMMA Invariance == Spec => []IInv
<1>1. Init => IInv
  <2> SUFFICES ASSUME Init PROVE IInv
    OBVIOUS
  <2>1. TypeOK
    BY MaxFaultsAssumption DEF Init, TypeOK, Pc, NoId
  <2>2. Shape
    BY DEF Init, Shape, Pc
  <2>3. QED
    BY <2>1, <2>2
    DEF Init, IInv, IdsExclusive, HandleHasChannel, StateAgrees, BindBorrows,
        BindsFollowHandles, NothingLeft, HasHandle, NoId
<1>2. IInv /\ [Next]_vars => IInv'
  <2> SUFFICES ASSUME IInv, [Next]_vars
               PROVE  IInv'
    OBVIOUS
  <2>1. CASE Next
    BY <2>1, AcqureKeepsIInv, CreateChnKeepsIInv, CreateChnFailsKeepsIInv,
       ConfigureKeepsIInv, ConfigureFailsKeepsIInv, StartKeepsIInv,
       StartFailsKeepsIInv, BindKeepsIInv, UnbindKeepsIInv, StopKeepsIInv,
       StopFailsKeepsIInv, DropKeepsIInv, DropStopKeepsIInv,
       DropDestroyKeepsIInv, ReleaseIdKeepsIInv
    DEF Next
  <2>2. CASE UNCHANGED vars
    BY <2>2
    DEF vars, resourceVars, IInv, TypeOK, Shape, IdsExclusive,
        HandleHasChannel, StateAgrees, BindBorrows, BindsFollowHandles,
        NothingLeft, HasHandle
  <2>3. QED
    BY <2>1, <2>2
<1>3. QED
  BY <1>1, <1>2, PTL DEF Spec

-----------------------------------------------------------------------------
(* The state keeps its type.                                               *)
THEOREM TypeCorrect == Spec => []TypeOK
<1>1. IInv => TypeOK
  BY DEF IInv
<1>2. QED
  BY <1>1, Invariance, PTL

(* A handle's native channel exists and is nobody else's until the drop of *)
(* the handle destroys it (VencChannelInner::drop).                        *)
THEOREM HandlesOwnTheirChannels == Spec => []HandleOwnsChannel
BY IInvSuffices, Invariance, PTL

(* The started flag of a handle is the native channel's, whichever calls   *)
(* fail (VencChannelInner::start, stop).                                   *)
THEOREM StatesAgree == Spec => []StateAgrees
<1>1. IInv => StateAgrees
  BY DEF IInv
<1>2. QED
  BY <1>1, Invariance, PTL

(* A bind object stands for the native bind of its channel, and a channel  *)
(* starts unbound (ChannelBind).                                           *)
THEOREM BindsAreTracked == Spec => []BindsFollowHandles
<1>1. IInv => BindsFollowHandles
  BY DEF IInv
<1>2. QED
  BY <1>1, Invariance, PTL

(* Whatever the threads interleave, no creation and no destruction fails   *)
(* unless some native call failed before (VencChannelInner::drop).         *)
THEOREM ErrorsNeedFaults == Spec => []NoErrorWithoutFault
BY IInvSuffices, Invariance, PTL
-----------------------------------------------------------------------------
(* A set that gains at most one element gains at most one in size.         *)
LEMMA OneMore ==
  ASSUME NEW S, NEW T, NEW x, IsFiniteSet(S), T \subseteq S \cup {x}
  PROVE  /\ IsFiniteSet(T)
         /\ Cardinality(S) \in Nat /\ Cardinality(T) \in Nat
         /\ Cardinality(T) =< Cardinality(S) + 1
         /\ T \subseteq S => Cardinality(T) =< Cardinality(S)
<1>1. /\ IsFiniteSet(S \cup {x})
      /\ Cardinality(S \cup {x}) = IF x \in S THEN Cardinality(S) ELSE Cardinality(S) + 1
  BY FS_AddElement, Zenon
<1>2. IsFiniteSet(T) /\ Cardinality(T) =< Cardinality(S \cup {x})
  BY <1>1, FS_Subset
<1>3. Cardinality(S) \in Nat /\ Cardinality(T) \in Nat
  BY <1>2, FS_CardinalityType
<1>4. T \subseteq S => Cardinality(T) =< Cardinality(S)
  BY FS_Subset
<1>5. QED
  BY <1>1, <1>2, <1>3, <1>4

(* A failed call shows only later: a failed unbind or stop leaves a        *)
(* channel behind when its destroy gives BUSY.  The account takes these    *)
(* channels in when the call fails.                                        *)
Spoiled(t) ==
  \/ pc[t] = "destroying" /\ state[t] = "Started"
  \/ binds[chn[t]] # NoSource /\ bind[t] = NoSource

Doomed ==
  {i \in Ids : native[i] # "absent"
               /\ \A t \in Thread : HasHandle(t) /\ chn[t] = i => Spoiled(t)}

Account == IsFiniteSet(Doomed) /\ Cardinality(Doomed) =< faults

USE DEF HasHandle, Goto, Fault, Pc, resourceVars

(* The steps that fail nothing, or what need not be undone. *)
LEMMA QuietStepCosts ==
  ASSUME IInv, NEW t \in Thread,
         \/ Configure(t) \/ ConfigureFails(t) \/ StartFails(t)
         \/ Stop(t) \/ StopFails(t) \/ Drop(t) \/ CreateChnFails(t)
         \/ Start(t)
  PROVE  Doomed' \subseteq Doomed /\ faults' \in {faults, faults + 1}
<1>1. faults' \in {faults, faults + 1}
  BY DEF Configure, ConfigureFails, StartFails, Stop, StopFails, Drop,
         CreateChnFails, Start
<1>2. UNCHANGED <<chn, binds, bind>>
  BY DEF Configure, ConfigureFails, StartFails, Stop, StopFails, Drop,
         CreateChnFails, Start
<1>3. \A i \in Ids : native'[i] # "absent" => native[i] # "absent"
  BY DEF IInv, HandleHasChannel, TypeOK, Configure, ConfigureFails, StartFails,
         Stop, StopFails, Drop, CreateChnFails, Start
<1>4. \A u \in Thread : pc'[u] = "destroying" => pc[u] = "destroying" /\ state'[u] = state[u]
  BY DEF IInv, TypeOK, Configure, ConfigureFails, StartFails, Stop, StopFails,
         Drop, CreateChnFails, Start
<1>5. \A u \in Thread : HasHandle(u) => HasHandle(u)'
  BY DEF IInv, TypeOK, Configure, ConfigureFails, StartFails, Stop, StopFails,
         Drop, CreateChnFails, Start
<1>6. QED
  BY <1>1, <1>2, <1>3, <1>4, <1>5 DEF Doomed, Spoiled

LEMMA StepCosts ==
  ASSUME IInv, [Next]_vars
  PROVE  \/ Doomed' \subseteq Doomed /\ faults' \in {faults, faults + 1}
         \/ \E i \in Ids : Doomed' \subseteq Doomed \cup {i} /\ faults' = faults + 1
<1>1. CASE UNCHANGED vars
  BY <1>1 DEF vars, Doomed, Spoiled
<1>2. ASSUME NEW t \in Thread, Acqure(t)
      PROVE  Doomed' \subseteq Doomed /\ faults' = faults
  BY <1>2 DEF Acqure, Doomed, Spoiled, IInv, TypeOK
<1>3. ASSUME NEW t \in Thread, CreateChn(t)
      PROVE  Doomed' \subseteq Doomed /\ faults' = faults
  BY <1>3
  DEF CreateChn, Doomed, Spoiled, IInv, TypeOK, BindsFollowHandles, Shape
<1>4. ASSUME NEW t \in Thread, NEW src \in Source, Bind(t, src)
      PROVE  Doomed' \subseteq Doomed /\ faults' = faults
  BY <1>4, NoSourceAssumption
  DEF Bind, Doomed, Spoiled, IInv, TypeOK, Shape, IdsExclusive
<1>5. ASSUME NEW t \in Thread, Unbind(t)
      PROVE  \/ Doomed' \subseteq Doomed /\ faults' = faults
             \/ Doomed' \subseteq Doomed \cup {chn[t]} /\ faults' = faults + 1
  BY <1>5 DEF Unbind, Doomed, Spoiled, IInv, TypeOK, Shape, IdsExclusive
<1>6. ASSUME NEW t \in Thread, DropStop(t)
      PROVE  \/ Doomed' \subseteq Doomed /\ faults' = faults
             \/ Doomed' \subseteq Doomed \cup {chn[t]} /\ faults' = faults + 1
  BY <1>6 DEF DropStop, Doomed, Spoiled, IInv, TypeOK, Shape, HandleHasChannel
<1>7. ASSUME NEW t \in Thread, DropDestroy(t)
      PROVE  \/ Doomed' \subseteq Doomed /\ faults' = faults
             \/ Doomed' \subseteq Doomed \cup {chn[t]} /\ faults' = faults + 1
  <2>1. ~Destroyable(chn[t]) => Spoiled(t)
    BY <1>7
    DEF DropDestroy, Destroyable, Spoiled, IInv, TypeOK, Shape, BindBorrows,
        HandleHasChannel, StateAgrees
  <2>2. \A u \in Thread : u # t => chn[u] # chn[t]
    BY <1>7 DEF DropDestroy, IInv, Shape, IdsExclusive
  <2>3. chn[t] \in Ids
    BY <1>7 DEF DropDestroy, IInv, Shape
  <2>4. QED
    BY <1>7, <2>1, <2>2, <2>3 DEF DropDestroy, Doomed, Spoiled, IInv, TypeOK
<1>8. ASSUME NEW t \in Thread, ReleaseId(t)
      PROVE  Doomed' \subseteq Doomed /\ faults' = faults
  BY <1>8 DEF ReleaseId, Doomed, Spoiled, IInv, TypeOK, Shape
<1>9. ASSUME NEW t \in Thread, Unbind(t) \/ DropStop(t) \/ DropDestroy(t)
      PROVE  chn[t] \in Ids
  BY <1>9 DEF Unbind, DropStop, DropDestroy, IInv, Shape, BindBorrows
<1>10. QED
  BY <1>1, <1>2, <1>3, <1>4, <1>5, <1>6, <1>7, <1>8, <1>9, QuietStepCosts DEF Next

HIDE DEF HasHandle, Goto, Fault, Pc, resourceVars

LEMMA AccountStep == Account /\ IInv /\ [Next]_vars => Account'
<1> SUFFICES ASSUME Account, IInv, [Next]_vars
             PROVE  Account'
  OBVIOUS
<1>1. faults \in Nat
  BY MaxFaultsAssumption DEF IInv, TypeOK
<1>2. ASSUME NEW i, Doomed' \subseteq Doomed \cup {i}
      PROVE  /\ IsFiniteSet(Doomed')
             /\ Cardinality(Doomed) \in Nat /\ Cardinality(Doomed') \in Nat
             /\ Cardinality(Doomed') =< Cardinality(Doomed) + 1
             /\ Doomed' \subseteq Doomed => Cardinality(Doomed') =< Cardinality(Doomed)
  BY <1>2, OneMore DEF Account
<1>3. CASE Doomed' \subseteq Doomed /\ faults' \in {faults, faults + 1}
  BY <1>1, <1>2, <1>3 DEF Account
<1>4. ASSUME NEW i \in Ids, Doomed' \subseteq Doomed \cup {i}, faults' = faults + 1
      PROVE  Account'
  BY <1>1, <1>2, <1>4 DEF Account
<1>5. QED
  BY <1>3, <1>4, StepCosts

(* Every native channel without a handle has cost a failing call           *)
(* (VencChannelInner::drop).                                               *)
THEOREM LostChannelsCost == Spec => []NoChannelLost
<1>1. Init => Account
  <2>1. Init => Doomed = {}
    BY DEF Init, Doomed
  <2>2. QED
    BY <2>1, FS_EmptySet, MaxFaultsAssumption DEF Init, Account
<1>2. Account /\ IInv => NoChannelLost
  <2> SUFFICES ASSUME Account, IInv
               PROVE  NoChannelLost
    OBVIOUS
  <2>1. Orphans \subseteq Doomed
    BY DEF Orphans, Doomed
  <2>2. faults \in Nat
    BY MaxFaultsAssumption DEF IInv, TypeOK
  <2>3. QED
    BY <2>1, <2>2, OneMore DEF Account, NoChannelLost
<1>3. QED
  BY <1>1, <1>2, AccountStep, Invariance, PTL DEF Spec
=============================================================================
