------------------------------ MODULE VpssGroup ------------------------------
(***************************************************************************)
(* VPSS groups, their channels and the bind of a VI channel to a group.    *)
(* Several threads share one RockitMpi; each has at most one group at a    *)
(* time.  A group lives until its handle, its channels and its bind are    *)
(* all gone: borrows keep the handle until then, and the Owned variants    *)
(* share the group through an Rc, so their handle may go first.            *)
(*                                                                         *)
(* Every native call is one step and any of them may fail without an       *)
(* effect.  Errors on the way down are logged and the teardown goes on.    *)
(* The channel ids of a group come from a ResourceManager of their own; a  *)
(* channel that is "free" here is an available id there (its theorem       *)
(* Conserved), and the lowest one is taken.                                *)
(***************************************************************************)
EXTENDS Integers, FiniteSetsExt

CONSTANTS
  Thread,     \* the threads that share the RockitMpi
  NoThread,   \* stands for no thread
  Capacity,   \* VPSS_MAX_GRP_NUM
  ChnNum,     \* VPSS_MAX_CHN_NUM
  Source,     \* VI channels a group can be bound to
  NoSource,   \* not bound
  MaxFaults   \* bound: failing native calls

ASSUME CapacityAssumption == Capacity \in Nat /\ ChnNum \in Nat
ASSUME SentinelAssumption == NoThread \notin Thread /\ NoSource \notin Source
ASSUME MaxFaultsAssumption == MaxFaults \in Nat

VARIABLES
  available, busy,  \* the ResourceManager of VPSS groups
  pc,               \* where each thread is in the life of its group
  grp,              \* the id in its AcquiredResource, or NoId
  state,            \* VpssGroupInner::state
  bind,             \* the source of its ChannelBind, or NoSource
  chn,              \* the life of each VpssChannelInner of its group
  native,           \* the native group of each id
  nativeChn,        \* the native channels of each group
  binds,            \* the native binds, by destination group
  faults            \* injected failures so far

Ids == 0 .. (Capacity - 1)
NoId == -1
Chns == 0 .. (ChnNum - 1)

Held == [t \in Thread |-> IF grp[t] = NoId THEN {} ELSE {grp[t]}]

Resources ==
  INSTANCE ResourceManager
    WITH Holder <- Thread, NoHolder <- NoThread, held <- Held

resourceVars == <<available, busy, grp>>
groupVars == <<pc, state, bind>>
nativeVars == <<native, nativeChn, binds>>
vars == <<resourceVars, groupVars, chn, nativeVars, faults>>

Pc == {"none",        \* no group
       "creating",    \* VpssGroupInner::new
       "ready",       \* a VpssGroup in the hands of the caller
       "shared",      \* its handle is gone, channels or a bind may keep it
       "destroying",  \* VpssGroupInner::drop, in DestroyGrp
       "releasing"}   \* drop of the AcquiredResource

ChnPc == {"free",         \* no channel object has the id
          "configuring",  \* VpssChannelInner::new
          "disabled",     \* a VpssChannel<Disabled>
          "enabled",      \* a VpssChannel<Enabled>
          "disabling",    \* VpssChannelInner::drop, in DisableChn
          "releasing"}    \* drop of the AcquiredResource

HasGroup(t) == pc[t] \in {"ready", "shared", "destroying"}

TypeOK ==
  /\ available \in SUBSET Ids
  /\ busy \in SUBSET Ids
  /\ pc \in [Thread -> Pc]
  /\ grp \in [Thread -> Ids \cup {NoId}]
  /\ state \in [Thread -> {"Initialized", "Started"}]
  /\ bind \in [Thread -> Source \cup {NoSource}]
  /\ chn \in [Thread -> [Chns -> ChnPc]]
  /\ native \in [Ids -> {"absent", "created", "started"}]
  /\ nativeChn \in [Ids -> [Chns -> {"none", "configured", "enabled"}]]
  /\ binds \in [Ids -> Source \cup {NoSource}]
  /\ faults \in 0 .. MaxFaults

-----------------------------------------------------------------------------
Init ==
  /\ available = Ids
  /\ busy = {}
  /\ pc = [t \in Thread |-> "none"]
  /\ grp = [t \in Thread |-> NoId]
  /\ state = [t \in Thread |-> "Initialized"]
  /\ bind = [t \in Thread |-> NoSource]
  /\ chn = [t \in Thread |-> [c \in Chns |-> "free"]]
  /\ native = [i \in Ids |-> "absent"]
  /\ nativeChn = [i \in Ids |-> [c \in Chns |-> "none"]]
  /\ binds = [i \in Ids |-> NoSource]
  /\ faults = 0

Goto(t, where) == pc' = [pc EXCEPT ![t] = where]
ChnGoto(t, c, where) == chn' = [chn EXCEPT ![t][c] = where]

(* A native call that fails without an effect. *)
Fault == faults < MaxFaults /\ faults' = faults + 1

(* RockitMpi::vpss_group takes the lowest free id. *)
Acqure(t) ==
  /\ pc[t] = "none"
  /\ \E id \in Ids : grp' = [grp EXCEPT ![t] = id]
  /\ Resources!Acqure(t)
  /\ Goto(t, "creating")
  /\ UNCHANGED <<state, bind, chn, nativeVars, faults>>

CreateGrp(t) ==
  /\ pc[t] = "creating"
  /\ native[grp[t]] = "absent"
  /\ native' = [native EXCEPT ![grp[t]] = "created"]
  /\ state' = [state EXCEPT ![t] = "Initialized"]
  /\ Goto(t, "ready")
  /\ UNCHANGED <<resourceVars, bind, chn, nativeChn, binds, faults>>

(* GROUP_EXIST, or another failure: the id is released. *)
CreateGrpFails(t) ==
  /\ pc[t] = "creating"
  /\ \/ native[grp[t]] # "absent" /\ UNCHANGED faults
     \/ Fault
  /\ Goto(t, "releasing")
  /\ UNCHANGED <<resourceVars, state, bind, chn, nativeVars>>

Start(t) ==
  /\ pc[t] = "ready" /\ state[t] = "Initialized"
  /\ native' = [native EXCEPT ![grp[t]] = "started"]
  /\ state' = [state EXCEPT ![t] = "Started"]
  /\ UNCHANGED <<resourceVars, pc, bind, chn, nativeChn, binds, faults>>

(* start consumes the handle: a failure drops it. *)
StartFails(t) ==
  /\ pc[t] = "ready" /\ state[t] = "Initialized"
  /\ Fault
  /\ Goto(t, "shared")
  /\ UNCHANGED <<resourceVars, state, bind, chn, nativeVars>>

-----------------------------------------------------------------------------
(* VpssGroup::channel: the lowest free id of the group. *)
AcqureChn(t) ==
  LET free == {c \in Chns : chn[t][c] = "free"} IN
  /\ pc[t] = "ready"
  /\ free # {}
  /\ ChnGoto(t, Min(free), "configuring")
  /\ UNCHANGED <<resourceVars, groupVars, nativeVars, faults>>

(* A native channel that is enabled stays enabled. *)
SetChnAttr(t, c) ==
  /\ chn[t][c] = "configuring"
  /\ nativeChn' =
       [nativeChn EXCEPT ![grp[t]][c] = IF @ = "enabled" THEN @ ELSE "configured"]
  /\ ChnGoto(t, c, "disabled")
  /\ UNCHANGED <<resourceVars, groupVars, native, binds, faults>>

SetChnAttrFails(t, c) ==
  /\ chn[t][c] = "configuring"
  /\ Fault
  /\ ChnGoto(t, c, "releasing")
  /\ UNCHANGED <<resourceVars, groupVars, nativeVars>>

EnableChn(t, c) ==
  /\ chn[t][c] = "disabled"
  /\ nativeChn' = [nativeChn EXCEPT ![grp[t]][c] = "enabled"]
  /\ ChnGoto(t, c, "enabled")
  /\ UNCHANGED <<resourceVars, groupVars, native, binds, faults>>

(* Mutant of EnableChnFails: the state is stored before the call. *)
EnableChnFailsEnabled(t, c) ==
  /\ chn[t][c] = "disabled"
  /\ Fault
  /\ ChnGoto(t, c, "disabling")
  /\ UNCHANGED <<resourceVars, groupVars, nativeVars>>

(* enable consumes the channel: a failure drops it, as disabled. *)
EnableChnFails(t, c) ==
  /\ chn[t][c] = "disabled"
  /\ Fault
  /\ ChnGoto(t, c, "releasing")
  /\ UNCHANGED <<resourceVars, groupVars, nativeVars>>

DisableChn(t, c) ==
  /\ chn[t][c] = "enabled"
  /\ nativeChn' = [nativeChn EXCEPT ![grp[t]][c] = "configured"]
  /\ ChnGoto(t, c, "disabled")
  /\ UNCHANGED <<resourceVars, groupVars, native, binds, faults>>

(* disable consumes the channel: a failure drops it, as enabled. *)
DisableChnFails(t, c) ==
  /\ chn[t][c] = "enabled"
  /\ Fault
  /\ ChnGoto(t, c, "disabling")
  /\ UNCHANGED <<resourceVars, groupVars, nativeVars>>

(* Mutant of DropChn: an enabled channel is not disabled. *)
DropChnKeepsEnabled(t, c) ==
  /\ chn[t][c] \in {"enabled", "disabled"}
  /\ ChnGoto(t, c, "releasing")
  /\ UNCHANGED <<resourceVars, groupVars, nativeVars, faults>>

DropChn(t, c) ==
  /\ \/ chn[t][c] = "enabled" /\ ChnGoto(t, c, "disabling")
     \/ chn[t][c] = "disabled" /\ ChnGoto(t, c, "releasing")
  /\ UNCHANGED <<resourceVars, groupVars, nativeVars, faults>>

(* VpssChannelInner::drop of an enabled channel. *)
DropDisable(t, c) ==
  /\ chn[t][c] = "disabling"
  /\ \/ /\ nativeChn' = [nativeChn EXCEPT ![grp[t]][c] = "configured"]
        /\ UNCHANGED faults
     \/ Fault /\ UNCHANGED nativeChn
  /\ ChnGoto(t, c, "releasing")
  /\ UNCHANGED <<resourceVars, groupVars, native, binds>>

ReleaseChn(t, c) ==
  /\ chn[t][c] = "releasing"
  /\ ChnGoto(t, c, "free")
  /\ UNCHANGED <<resourceVars, groupVars, nativeVars, faults>>

-----------------------------------------------------------------------------
(* bind_vi: only a started group has it; EXIST on a bound group. *)
BindVi(t, src) ==
  /\ pc[t] = "ready" /\ state[t] = "Started" /\ bind[t] = NoSource
  /\ binds[grp[t]] = NoSource
  /\ binds' = [binds EXCEPT ![grp[t]] = src]
  /\ bind' = [bind EXCEPT ![t] = src]
  /\ UNCHANGED <<resourceVars, pc, state, chn, native, nativeChn, faults>>

(* Drop of the ChannelBind; an owned one may outlive the handle. *)
Unbind(t) ==
  /\ bind[t] # NoSource
  /\ bind' = [bind EXCEPT ![t] = NoSource]
  /\ \/ /\ binds[grp[t]] = bind[t]
        /\ binds' = [binds EXCEPT ![grp[t]] = NoSource]
        /\ UNCHANGED faults
     \/ Fault /\ UNCHANGED binds
  /\ UNCHANGED <<resourceVars, pc, state, chn, native, nativeChn>>

(* The handle goes out of scope. *)
Drop(t) ==
  /\ pc[t] = "ready"
  /\ Goto(t, "shared")
  /\ UNCHANGED <<resourceVars, state, bind, chn, nativeVars, faults>>

(* Mutant of Unshared: owned channels do not keep their group. *)
UnsharedByChannels(t) == bind[t] = NoSource

(* Nothing refers to the group any more: VpssGroupInner::drop stops it when *)
(* it was started ...                                                       *)
Unshared(t) ==
  /\ bind[t] = NoSource
  /\ \A c \in Chns : chn[t][c] = "free"

DropStop(t) ==
  /\ pc[t] = "shared" /\ Unshared(t)
  /\ IF state[t] = "Started"
     THEN \/ /\ native' = [native EXCEPT ![grp[t]] = "created"]
             /\ UNCHANGED faults
          \/ Fault /\ UNCHANGED native
     ELSE UNCHANGED <<native, faults>>
  /\ Goto(t, "destroying")
  /\ UNCHANGED <<resourceVars, state, bind, chn, nativeChn, binds>>

(* ... and destroys it with its channels: BUSY while it is started.  A bind *)
(* of the group is not looked at.                                           *)
DropDestroy(t) ==
  /\ pc[t] = "destroying"
  /\ \/ /\ native[grp[t]] = "created"
        /\ native' = [native EXCEPT ![grp[t]] = "absent"]
        /\ nativeChn' = [nativeChn EXCEPT ![grp[t]] = [c \in Chns |-> "none"]]
        /\ UNCHANGED faults
     \/ native[grp[t]] = "started" /\ UNCHANGED <<native, nativeChn, faults>>
     \/ Fault /\ UNCHANGED <<native, nativeChn>>
  /\ Goto(t, "releasing")
  /\ UNCHANGED <<resourceVars, state, bind, chn, binds>>

(* Mutant of ReleaseId: the guard is forgotten, not dropped. *)
ReleaseIdForgotten(t) ==
  /\ pc[t] = "releasing"
  /\ grp' = [grp EXCEPT ![t] = NoId]
  /\ Goto(t, "none")
  /\ UNCHANGED <<available, busy, state, bind, chn, nativeVars, faults>>

ReleaseId(t) ==
  /\ pc[t] = "releasing"
  /\ grp' = [grp EXCEPT ![t] = NoId]
  /\ Resources!Release(t, grp[t])
  /\ Goto(t, "none")
  /\ UNCHANGED <<state, bind, chn, nativeVars, faults>>

GroupNext(t) ==
  \/ Acqure(t) \/ CreateGrp(t) \/ CreateGrpFails(t)
  \/ Start(t) \/ StartFails(t)
  \/ \E src \in Source : BindVi(t, src)
  \/ Unbind(t)
  \/ Drop(t) \/ DropStop(t) \/ DropDestroy(t) \/ ReleaseId(t)

ChnNext(t, c) ==
  \/ SetChnAttr(t, c) \/ SetChnAttrFails(t, c)
  \/ EnableChn(t, c) \/ EnableChnFails(t, c)
  \/ DisableChn(t, c) \/ DisableChnFails(t, c)
  \/ DropChn(t, c) \/ DropDisable(t, c) \/ ReleaseChn(t, c)

Next ==
  \E t \in Thread :
    \/ GroupNext(t)
    \/ AcqureChn(t)
    \/ \E c \in Chns : ChnNext(t, c)

Spec == Init /\ [][Next]_vars

-----------------------------------------------------------------------------
(* The native group behind a group object exists until the object destroys *)
(* it and is nobody else's, and no channel or bind outlives it             *)
(* (VpssGroupInner, the Rc of the Owned variants).                         *)
GroupOutlivesParts ==
  \A t \in Thread :
    /\ HasGroup(t) =>
         /\ native[grp[t]] # "absent"
         /\ \A u \in Thread : u # t => grp[u] # grp[t]
    /\ bind[t] # NoSource \/ (\E c \in Chns : chn[t][c] # "free")
         => pc[t] \in {"ready", "shared"}

(* What the objects say is what the library has: a started group is        *)
(* started, an enabled channel is enabled and a bind is in place, so a     *)
(* frame call on them is never refused for their state.  Until a call      *)
(* fails the library has nothing else: no channel is enabled that its      *)
(* object calls disabled or that has none, no group is bound without a     *)
(* bind (VpssGroupInner::start, VpssChannelInner::enable, ChannelBind).    *)
ObjectsAgree ==
  \A t \in Thread :
    /\ pc[t] \in {"ready", "shared"} =>
         (state[t] = "Started" <=> native[grp[t]] = "started")
    /\ \A c \in Chns :
         /\ chn[t][c] \in {"enabled", "disabling"} => nativeChn[grp[t]][c] = "enabled"
         /\ chn[t][c] = "disabled" => nativeChn[grp[t]][c] # "none"
    /\ bind[t] # NoSource => binds[grp[t]] = bind[t]
    /\ faults = 0 /\ grp[t] # NoId =>
         /\ \A c \in Chns : nativeChn[grp[t]][c] = "enabled" =>
                             chn[t][c] \in {"enabled", "disabling"}
         /\ binds[grp[t]] = bind[t]

(* What teardowns leave behind: groups without an object, native channels  *)
(* that stay enabled without an enabled channel object, and binds without  *)
(* a bind object.  Each has cost a failing call of its own.                *)
LeftGroups == {i \in Ids : native[i] # "absent"
                           /\ \A t \in Thread : HasGroup(t) => grp[t] # i}
LeftChns == {p \in Ids \X Chns :
               nativeChn[p[1]][p[2]] = "enabled"
               /\ \A t \in Thread : grp[t] = p[1] =>
                    chn[t][p[2]] \notin {"enabled", "disabling"}}
LeftBinds == {i \in Ids : binds[i] # NoSource
                          /\ \A t \in Thread : grp[t] = i => bind[t] = NoSource}

LeftoversCostFaults ==
  Cardinality(LeftGroups) + Cardinality(LeftChns) + Cardinality(LeftBinds) =< faults

(* A group that was never started has never been bound: it has no bind in  *)
(* the library ("Binds are undone when dropped", ChannelBind::drop).       *)
FreshGroupIsUnbound ==
  \A t \in Thread :
    pc[t] = "ready" /\ state[t] = "Initialized" => binds[grp[t]] = NoSource

(* Seen from the ids alone, the life of groups is what ResourceManager     *)
(* allows.                                                                 *)
UsesResourceManager == Resources!Spec
=============================================================================
