-------------------------- MODULE ViChannel_proofs --------------------------
(***************************************************************************)
(* Machine-checked proofs about ViChannel, for any number of threads,      *)
(* channels, sizes and faults: channel objects are exclusive and keep      *)
(* their configuration although no ResourceManager guards their ids, and   *)
(* a channel whose disable failed is never touched again; each of those    *)
(* has cost a failing call.                                                *)
(***************************************************************************)
EXTENDS ViChannel, FiniteSetTheorems, TLAPS

(* A thread past Create has a channel and a size.                          *)
Shape ==
  \A t \in Thread : pc[t] # "none" => chn[t] \in Chn /\ size[t] \in Size

(* EnableChn is called on a configured channel.                            *)
Configured ==
  \A t \in Thread : pc[t] = "enabling" => attr[chn[t]] # NoSize

(* The inductive invariant.  Exclusiveness rests on the native channel     *)
(* being enabled under every object: EnableChn is refused then, and only   *)
(* the drop of the object disables it.                                     *)
IInv ==
  /\ TypeOK
  /\ Shape
  /\ Configured
  /\ ChannelIsExclusive

USE DEF HasChannel, Goto, Leave, Fault, Pc

LEMMA CreateKeepsIInv ==
  ASSUME IInv, NEW t \in Thread, NEW c \in Chn, NEW s \in Size, Create(t, c, s)
  PROVE  IInv'
BY SentinelAssumption
DEF Create, IInv, TypeOK, Shape, Configured, ChannelIsExclusive

LEMMA SetChnAttrKeepsIInv ==
  ASSUME IInv, NEW t \in Thread, SetChnAttr(t)
  PROVE  IInv'
<1>1. chn[t] \in Chn /\ size[t] \in Size /\ size[t] # NoSize
  BY SentinelAssumption DEF SetChnAttr, IInv, Shape
<1>2. TypeOK'
  BY <1>1 DEF SetChnAttr, IInv, TypeOK
<1>3. \A c \in Chn : attr[c] # NoSize => attr'[c] # NoSize
  BY <1>1 DEF SetChnAttr, IInv, TypeOK
<1>4. attr'[chn[t]] # NoSize
  BY <1>1 DEF SetChnAttr, IInv, TypeOK
<1>5. QED
  BY <1>1, <1>2, <1>3, <1>4
  DEF SetChnAttr, IInv, TypeOK, Shape, Configured, ChannelIsExclusive

LEMMA SetChnAttrFailsKeepsIInv ==
  ASSUME IInv, NEW t \in Thread, SetChnAttrFails(t)
  PROVE  IInv'
BY MaxFaultsAssumption
DEF SetChnAttrFails, IInv, TypeOK, Shape, Configured, ChannelIsExclusive

LEMMA EnableChnKeepsIInv ==
  ASSUME IInv, NEW t \in Thread, EnableChn(t)
  PROVE  IInv'
BY DEF EnableChn, IInv, TypeOK, Shape, Configured, ChannelIsExclusive

LEMMA EnableChnFailsKeepsIInv ==
  ASSUME IInv, NEW t \in Thread, EnableChnFails(t)
  PROVE  IInv'
BY MaxFaultsAssumption
DEF EnableChnFails, IInv, TypeOK, Shape, Configured, ChannelIsExclusive

LEMMA DropKeepsIInv ==
  ASSUME IInv, NEW t \in Thread, Drop(t)
  PROVE  IInv'
BY DEF Drop, IInv, TypeOK, Shape, Configured, ChannelIsExclusive

LEMMA DisableChnKeepsIInv ==
  ASSUME IInv, NEW t \in Thread, DisableChn(t)
  PROVE  IInv'
BY MaxFaultsAssumption
DEF DisableChn, IInv, TypeOK, Shape, Configured, ChannelIsExclusive

LEMMA Invariance == Spec => []IInv
<1>1. Init => IInv
  BY MaxFaultsAssumption
  DEF Init, IInv, TypeOK, Shape, Configured, ChannelIsExclusive
<1>2. IInv /\ [Next]_vars => IInv'
  <2> SUFFICES ASSUME IInv, [Next]_vars
               PROVE  IInv'
    OBVIOUS
  <2>1. CASE Next
    BY <2>1, CreateKeepsIInv, SetChnAttrKeepsIInv, SetChnAttrFailsKeepsIInv,
       EnableChnKeepsIInv, EnableChnFailsKeepsIInv, DropKeepsIInv,
       DisableChnKeepsIInv
    DEF Next
  <2>2. CASE UNCHANGED vars
    BY <2>2
    DEF vars, IInv, TypeOK, Shape, Configured, ChannelIsExclusive
  <2>3. QED
    BY <2>1, <2>2
<1>3. QED
  BY <1>1, <1>2, PTL DEF Spec

-----------------------------------------------------------------------------
(* The state keeps its type.                                               *)
THEOREM TypeCorrect == Spec => []TypeOK
<1>1. IInv => TypeOK
  BY DEF IInv
<1>2. QED
  BY <1>1, Invariance, PTL

(* A channel object has an enabled, configured native channel to itself    *)
(* (ViChannelInner::new, drop).                                            *)
THEOREM ChannelsAreExclusive == Spec => []ChannelIsExclusive
<1>1. IInv => ChannelIsExclusive
  BY DEF IInv
<1>2. QED
  BY <1>1, Invariance, PTL

(* No step of any thread configures the native channel of an object anew:  *)
(* it is enabled, and RK_MPI_VI_SetChnAttr gives NOT_PERM.                 *)
THEOREM OpenChannelsKeepTheirSize == Spec => OpenChannelKeepsSize
<1>1. IInv /\ [Next]_vars
        => [\A t \in Thread : HasChannel(t) => attr'[chn[t]] = attr[chn[t]]]_vars
  <2> SUFFICES ASSUME IInv, Next, NEW t \in Thread, HasChannel(t)
               PROVE  attr'[chn[t]] = attr[chn[t]]
    OBVIOUS
  <2>1. chn[t] \in enabled
    BY DEF IInv, ChannelIsExclusive
  <2>2. ASSUME NEW u \in Thread, SetChnAttr(u)
        PROVE  attr'[chn[t]] = attr[chn[t]]
    BY <2>1, <2>2 DEF SetChnAttr, IInv, TypeOK
  <2>3. QED
    BY <2>2
    DEF Next, Create, SetChnAttrFails, EnableChn, EnableChnFails, Drop,
        DisableChn
<1>2. QED
  BY <1>1, Invariance, PTL DEF Spec, OpenChannelKeepsSize

(* A channel whose DisableChn failed is enabled and configured as it is    *)
(* for ever: nothing but its lost object would disable it                  *)
(* (ViChannelInner::drop).                                                 *)
THEOREM LeftoversAreForGood == Spec => LeftoversStay
<1>1. IInv /\ [Next]_vars
        => [Leftover \subseteq Leftover'
            /\ \A c \in Leftover : attr'[c] = attr[c]]_vars
  <2> SUFFICES ASSUME IInv, Next, NEW c \in Leftover
               PROVE  c \in Leftover' /\ attr'[c] = attr[c]
    OBVIOUS
  <2>1. c \in enabled /\ c \in Chn
    BY DEF Leftover, IInv, TypeOK
  <2>2. c \in enabled'
    BY <2>1
    DEF Leftover, Next, Create, SetChnAttr, SetChnAttrFails, EnableChn,
        EnableChnFails, Drop, DisableChn
  <2>3. ASSUME NEW t \in Thread, HasChannel(t)'
        PROVE  chn'[t] # c
    BY <2>1, <2>3
    DEF Leftover, IInv, TypeOK, Next, Create, SetChnAttr, SetChnAttrFails,
        EnableChn, EnableChnFails, Drop, DisableChn
  <2>4. attr'[c] = attr[c]
    BY <2>1
    DEF IInv, TypeOK, Next, Create, SetChnAttr, SetChnAttrFails, EnableChn,
        EnableChnFails, Drop, DisableChn
  <2>5. QED
    BY <2>2, <2>3, <2>4 DEF Leftover
<1>2. QED
  BY <1>1, Invariance, PTL DEF Spec, LeftoversStay
-----------------------------------------------------------------------------
(* A set that gains at most one element gains at most one in size.         *)
LEMMA OneMore ==
  ASSUME NEW S, NEW T, NEW x, IsFiniteSet(S), T \subseteq S \cup {x}
  PROVE  /\ IsFiniteSet(T)
         /\ Cardinality(S) \in Nat /\ Cardinality(T) \in Nat
         /\ Cardinality(T) =< Cardinality(S) + 1
         /\ T \subseteq S => Cardinality(T) =< Cardinality(S)
<1>1. /\ IsFiniteSet(S \cup {x})
      /\ Cardinality(S \cup {x}) = IF x \in S THEN Cardinality(S) ELSE Cardinality(S) + 1
  BY FS_AddElement, Zenon
<1>2. IsFiniteSet(T) /\ Cardinality(T) =< Cardinality(S \cup {x})
  BY <1>1, FS_Subset
<1>3. Cardinality(S) \in Nat /\ Cardinality(T) \in Nat
  BY <1>2, FS_CardinalityType
<1>4. T \subseteq S => Cardinality(T) =< Cardinality(S)
  BY FS_Subset
<1>5. QED
  BY <1>1, <1>2, <1>3, <1>4

(* The account of the leftovers, which are finitely many whatever the ids. *)
Account == IsFiniteSet(Leftover) /\ LeftoversCostFaults

(* Only the failing disable leaves a channel behind, and it is a fault.    *)
LEMMA StepCosts ==
  ASSUME IInv, [Next]_vars
  PROVE  \/ Leftover' \subseteq Leftover /\ faults' \in {faults, faults + 1}
         \/ \E c \in Chn : Leftover' \subseteq Leftover \cup {c} /\ faults' = faults + 1
<1>1. CASE UNCHANGED vars
  BY <1>1 DEF vars, Leftover
<1>2. ASSUME NEW t \in Thread,
             (\E c \in Chn, s \in Size : Create(t, c, s)) \/ SetChnAttr(t)
             \/ SetChnAttrFails(t) \/ EnableChnFails(t) \/ Drop(t)
      PROVE  Leftover' \subseteq Leftover /\ faults' \in {faults, faults + 1}
  BY <1>2
  DEF IInv, TypeOK, Leftover, Create, SetChnAttr, SetChnAttrFails,
      EnableChnFails, Drop
<1>3. ASSUME NEW t \in Thread, EnableChn(t)
      PROVE  Leftover' \subseteq Leftover /\ faults' = faults
  BY <1>3 DEF IInv, TypeOK, Leftover, EnableChn
<1>4. ASSUME NEW t \in Thread, DisableChn(t)
      PROVE  \/ Leftover' \subseteq Leftover /\ faults' = faults
             \/ Leftover' \subseteq Leftover \cup {chn[t]} /\ faults' = faults + 1
  BY <1>4 DEF IInv, TypeOK, Leftover, DisableChn
<1>5. ASSUME NEW t \in Thread, DisableChn(t)
      PROVE  chn[t] \in Chn
  BY <1>5 DEF DisableChn, IInv, Shape
<1>6. QED
  BY <1>1, <1>2, <1>3, <1>4, <1>5 DEF Next

LEMMA AccountStep == Account /\ IInv /\ [Next]_vars => Account'
<1> SUFFICES ASSUME Account, IInv, [Next]_vars
             PROVE  Account'
  OBVIOUS
<1>1. faults \in Nat
  BY MaxFaultsAssumption DEF IInv, TypeOK
<1>2. ASSUME NEW c, Leftover' \subseteq Leftover \cup {c}
      PROVE  /\ IsFiniteSet(Leftover')
             /\ Cardinality(Leftover) \in Nat /\ Cardinality(Leftover') \in Nat
             /\ Cardinality(Leftover') =< Cardinality(Leftover) + 1
             /\ Leftover' \subseteq Leftover => Cardinality(Leftover') =< Cardinality(Leftover)
  BY <1>2, OneMore DEF Account
<1>3. CASE Leftover' \subseteq Leftover /\ faults' \in {faults, faults + 1}
  BY <1>1, <1>2, <1>3 DEF Account, LeftoversCostFaults
<1>4. ASSUME NEW c \in Chn, Leftover' \subseteq Leftover \cup {c}, faults' = faults + 1
      PROVE  Account'
  BY <1>1, <1>2, <1>4 DEF Account, LeftoversCostFaults
<1>5. QED
  BY <1>3, <1>4, StepCosts

(* At most as many enabled channels without an object as disables have     *)
(* failed (ViChannelInner::drop).                                          *)
THEOREM LeftoversCost == Spec => []LeftoversCostFaults
<1>1. Init => Account
  BY FS_EmptySet, MaxFaultsAssumption DEF Init, Account, Leftover, LeftoversCostFaults
<1>2. Account => LeftoversCostFaults
  BY DEF Account
<1>3. QED
  BY <1>1, <1>2, AccountStep, Invariance, PTL DEF Spec

-----------------------------------------------------------------------------
(* Refinement.  While objects are exclusive, the lease of a channel is      *)
(* whoever has the object, and that of any other is NoThread.               *)
LEMMA LeaseOfHeld ==
  ASSUME ChannelIsExclusive, NEW t \in Thread, HasChannel(t)
  PROVE  LeaseOf(chn[t]) = t
BY DEF LeaseOf, Has, ChannelIsExclusive

LEMMA LeaseOfFree ==
  ASSUME NEW c, \A t \in Thread : ~Has(t, c)
  PROVE  LeaseOf(c) = NoThread
BY DEF LeaseOf

LEMMA LeaseKept ==
  ASSUME NEW c, \A t \in Thread : Has(t, c)' <=> Has(t, c)
  PROVE  LeaseOf(c)' = LeaseOf(c)
BY DEF LeaseOf

(* A step that changes no object leaves every lease alone.                  *)
LEMMA LeasesKept ==
  ASSUME \A t \in Thread :
           /\ HasChannel(t)' <=> HasChannel(t)
           /\ HasChannel(t) => chn'[t] = chn[t]
  PROVE  UNCHANGED [c \in Chn |-> LeaseOf(c)]
<1>1. \A c \in Chn : LeaseOf(c)' = LeaseOf(c)
  <2>1. \A c \in Chn, t \in Thread : Has(t, c)' <=> Has(t, c)
    BY DEF Has
  <2>2. QED
    BY <2>1, LeaseKept
<1>2. QED
  BY <1>1

LEMMA EnableChnTakesLease ==
  ASSUME IInv, IInv', NEW t \in Thread, EnableChn(t)
  PROVE  Lease!Take(t, chn[t])
<1>1. /\ chn[t] \in Chn /\ HasChannel(t)' /\ ~HasChannel(t) /\ chn' = chn
      /\ \A u \in Thread : u # t => (HasChannel(u)' <=> HasChannel(u))
  BY DEF EnableChn, IInv, TypeOK, Shape
<1>2. LeaseOf(chn[t]) = NoThread
  <2>1. \A u \in Thread : ~Has(u, chn[t])
    BY DEF Has, EnableChn, IInv, ChannelIsExclusive
  <2>2. QED
    BY <2>1, LeaseOfFree
<1>3. LeaseOf(chn[t])' = t
  BY <1>1 DEF LeaseOf, Has, IInv, ChannelIsExclusive
<1>4. ASSUME NEW c \in Chn, c # chn[t]
      PROVE  LeaseOf(c)' = LeaseOf(c)
  <2>1. \A u \in Thread : Has(u, c)' <=> Has(u, c)
    BY <1>1, <1>4 DEF Has
  <2>2. QED
    BY <2>1, LeaseKept
<1>5. QED
  BY <1>1, <1>2, <1>3, <1>4 DEF Lease!Take

LEMMA DisableChnGivesLeaseBack ==
  ASSUME IInv, NEW t \in Thread, DisableChn(t), NEW b \in Chn, b = chn[t]
  PROVE  Lease!GiveBack(t, b)
<1>1. /\ ~HasChannel(t)' /\ HasChannel(t)
      /\ \A u \in Thread : u # t => (HasChannel(u)' <=> HasChannel(u)) /\ chn'[u] = chn[u]
  BY DEF DisableChn, IInv, TypeOK, Shape
<1>2. LeaseOf(b) = t
  BY <1>1, LeaseOfHeld DEF IInv
<1>3. LeaseOf(b)' = NoThread
  <2>1. \A u \in Thread : ~Has(u, b)'
    BY <1>1 DEF Has, IInv, ChannelIsExclusive
  <2>2. QED
    BY <2>1 DEF LeaseOf
<1>4. ASSUME NEW c \in Chn, c # b
      PROVE  LeaseOf(c)' = LeaseOf(c)
  <2>1. \A u \in Thread : Has(u, c)' <=> Has(u, c)
    BY <1>1, <1>4 DEF Has
  <2>2. QED
    BY <2>1, LeaseKept
<1>5. QED
  BY <1>2, <1>3, <1>4 DEF Lease!GiveBack

(* Without a manager, the channels of a pipe are leased as IdLease says:    *)
(* a creation takes a free one, a drop gives it back (ViChannelInner::new,  *)
(* drop).                                                                   *)
THEOREM ChannelsImplementLease == Spec => ImplementsLease
<1>1. Init => Lease!Init
  <2>1. Init => \A c \in Chn : LeaseOf(c) = NoThread
    BY LeaseOfFree DEF Init, Has
  <2>2. QED
    BY <2>1 DEF Lease!Init
<1>2. IInv /\ IInv' /\ [Next]_vars => [Lease!Next]_([c \in Chn |-> LeaseOf(c)])
  <2> SUFFICES ASSUME IInv, IInv', [Next]_vars
               PROVE  [Lease!Next]_([c \in Chn |-> LeaseOf(c)])
    OBVIOUS
  <2>1. ASSUME NEW t \in Thread, EnableChn(t)
        PROVE  Lease!Next
    <3>1. chn[t] \in Chn
      BY <2>1 DEF EnableChn, IInv, Shape
    <3>2. QED
      BY <2>1, <3>1, EnableChnTakesLease DEF Lease!Next
  <2>2. ASSUME NEW t \in Thread, DisableChn(t)
        PROVE  Lease!Next
    <3>1. chn[t] \in Chn
      BY <2>2 DEF DisableChn, IInv, Shape
    <3>2. QED
      BY <2>2, <3>1, DisableChnGivesLeaseBack DEF Lease!Next
  <2>3. ASSUME NEW t \in Thread,
               \/ \E c \in Chn, s \in Size : Create(t, c, s)
               \/ SetChnAttr(t) \/ SetChnAttrFails(t) \/ EnableChnFails(t) \/ Drop(t)
        PROVE  UNCHANGED [c \in Chn |-> LeaseOf(c)]
    <3>1. \A u \in Thread :
            /\ HasChannel(u)' <=> HasChannel(u)
            /\ HasChannel(u) => chn'[u] = chn[u]
      BY <2>3
      DEF Create, SetChnAttr, SetChnAttrFails, EnableChnFails, Drop, IInv, TypeOK
    <3>2. QED
      BY <3>1, LeasesKept
  <2>4. CASE UNCHANGED vars
    BY <2>4, LeasesKept DEF vars
  <2>5. QED
    BY <2>1, <2>2, <2>3, <2>4 DEF Next
<1>3. QED
  BY <1>1, <1>2, Invariance, PTL DEF Spec, ImplementsLease, Lease!Spec
=============================================================================
