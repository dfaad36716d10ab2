----------------------------- MODULE VencChannel -----------------------------
(***************************************************************************)
(* Encoder channels: from the id a ResourceManager hands out, over the     *)
(* native channel created for it, to the teardown that gives both back.    *)
(* Several threads share one RockitMpi; each has at most one channel       *)
(* handle at a time (VencChannel, or the Rc of a VencChannelOwned, which   *)
(* cannot leave its thread), with at most one bind (ViVencBind,            *)
(* VpssVencBind and their owned forms).                                    *)
(*                                                                         *)
(* Every native call is one step, since the native library serializes its  *)
(* calls; between two of them the other threads run.  Any native call may  *)
(* fail: an injected failure leaves the native state as it was.  Errors on *)
(* the way down are logged and the teardown goes on.                       *)
(***************************************************************************)
EXTENDS Integers, FiniteSetsExt

CONSTANTS
  Thread,     \* the threads that share the RockitMpi
  NoThread,   \* stands for no thread
  Capacity,   \* VENC_MAX_CHN_NUM
  Source,     \* VI or VPSS channels an encoder channel can be bound to
  NoSource,   \* not bound
  MaxFaults   \* bound: failing native calls

ASSUME CapacityAssumption == Capacity \in Nat
ASSUME NoThreadAssumption == NoThread \notin Thread
ASSUME NoSourceAssumption == NoSource \notin Source
ASSUME MaxFaultsAssumption == MaxFaults \in Nat

VARIABLES
  available, busy,  \* the ResourceManager of VENC channels
  pc,               \* where each thread is in the life of its channel
  chn,              \* the id in its AcquiredResource, or NoId
  state,            \* VencChannelInner::state
  bind,             \* the source of its ChannelBind, or NoSource
  native,           \* the native channel of each id
  binds,            \* the native binds, by destination channel
  faults            \* injected failures so far

Ids == 0 .. (Capacity - 1)
NoId == -1

Held == [t \in Thread |-> IF chn[t] = NoId THEN {} ELSE {chn[t]}]

Resources ==
  INSTANCE ResourceManager
    WITH Holder <- Thread, NoHolder <- NoThread, held <- Held

resourceVars == <<available, busy, chn>>
vars == <<resourceVars, pc, state, bind, native, binds, faults>>

Pc == {"none",         \* no handle
       "creating",     \* with_resource, before RK_MPI_VENC_CreateChn
       "configuring",  \* with_resource, after it
       "ready",        \* a VencChannel in the hands of the caller
       "stopping",     \* VencChannelInner::drop, in self.stop()
       "destroying",   \* VencChannelInner::drop, in DestroyChn
       "releasing"}    \* drop of the AcquiredResource

(* The handle exists: VencChannelInner is constructed and not dropped. *)
HasHandle(t) == pc[t] \in {"configuring", "ready", "stopping", "destroying"}

TypeOK ==
  /\ available \in SUBSET Ids
  /\ busy \in SUBSET Ids
  /\ pc \in [Thread -> Pc]
  /\ chn \in [Thread -> Ids \cup {NoId}]
  /\ state \in [Thread -> {"Initialized", "Started"}]
  /\ bind \in [Thread -> Source \cup {NoSource}]
  /\ native \in [Ids -> {"absent", "created", "started"}]
  /\ binds \in [Ids -> Source \cup {NoSource}]
  /\ faults \in 0 .. MaxFaults

-----------------------------------------------------------------------------
Init ==
  /\ available = Ids
  /\ busy = {}
  /\ pc = [t \in Thread |-> "none"]
  /\ chn = [t \in Thread |-> NoId]
  /\ state = [t \in Thread |-> "Initialized"]
  /\ bind = [t \in Thread |-> NoSource]
  /\ native = [i \in Ids |-> "absent"]
  /\ binds = [i \in Ids |-> NoSource]
  /\ faults = 0

Goto(t, where) == pc' = [pc EXCEPT ![t] = where]

(* A native call that fails without an effect. *)
Fault == faults < MaxFaults /\ faults' = faults + 1

(* RockitMpi::venc_channel takes the lowest free id, VencChannel::new the   *)
(* one it is given.  With no such id the caller gets an error and nothing   *)
(* changes.                                                                 *)
Acqure(t) ==
  /\ pc[t] = "none"
  /\ \E id \in Ids :
       /\ chn' = [chn EXCEPT ![t] = id]
       /\ Resources!Acqure(t) \/ Resources!AcqureSpecific(t, id)
  /\ Goto(t, "creating")
  /\ UNCHANGED <<state, bind, native, binds, faults>>

(* CreateChn on an id whose native channel is absent. *)
CreateChn(t) ==
  /\ pc[t] = "creating"
  /\ native[chn[t]] = "absent"
  /\ native' = [native EXCEPT ![chn[t]] = "created"]
  /\ state' = [state EXCEPT ![t] = "Initialized"]
  /\ Goto(t, "configuring")
  /\ UNCHANGED <<resourceVars, bind, binds, faults>>

(* CreateChn fails, with EXIST on a native channel that is still there or   *)
(* for another reason: the id is released, nothing is destroyed.            *)
CreateChnFails(t) ==
  /\ pc[t] = "creating"
  /\ \/ native[chn[t]] # "absent" /\ UNCHANGED faults
     \/ Fault
  /\ Goto(t, "releasing")
  /\ UNCHANGED <<resourceVars, state, bind, native, binds>>

(* The optional reference buffer sharing; the caller gets the channel. *)
Configure(t) ==
  /\ pc[t] = "configuring"
  /\ Goto(t, "ready")
  /\ UNCHANGED <<resourceVars, state, bind, native, binds, faults>>

(* It fails: the handle is dropped by the `?' of with_resource. *)
ConfigureFails(t) ==
  /\ pc[t] = "configuring"
  /\ Fault
  /\ Goto(t, "stopping")
  /\ UNCHANGED <<resourceVars, state, bind, native, binds>>

(* start consumes the handle: a failure drops it. *)
Start(t) ==
  /\ pc[t] = "ready" /\ state[t] = "Initialized"
  /\ native' = [native EXCEPT ![chn[t]] = "started"]
  /\ state' = [state EXCEPT ![t] = "Started"]
  /\ UNCHANGED <<resourceVars, pc, bind, binds, faults>>

(* Mutant of StartFails: the state is stored before the call. *)
StartFailsStarted(t) ==
  /\ pc[t] = "ready" /\ state[t] = "Initialized"
  /\ Fault
  /\ state' = [state EXCEPT ![t] = "Started"]
  /\ Goto(t, "stopping")
  /\ UNCHANGED <<resourceVars, bind, native, binds>>

StartFails(t) ==
  /\ pc[t] = "ready" /\ state[t] = "Initialized"
  /\ Fault
  /\ Goto(t, "stopping")
  /\ UNCHANGED <<resourceVars, state, bind, native, binds>>

(* bind_vi and bind_vpss: only a started channel has them.  A channel that  *)
(* is bound gives EXIST and the caller keeps what it has.                   *)
Bind(t, src) ==
  /\ pc[t] = "ready" /\ state[t] = "Started" /\ bind[t] = NoSource
  /\ binds[chn[t]] = NoSource
  /\ binds' = [binds EXCEPT ![chn[t]] = src]
  /\ bind' = [bind EXCEPT ![t] = src]
  /\ UNCHANGED <<resourceVars, pc, state, native, faults>>

(* Drop of the ChannelBind: UnBind finds the bind with the same source, or  *)
(* fails and is logged.                                                     *)
Unbind(t) ==
  /\ pc[t] = "ready" /\ bind[t] # NoSource
  /\ bind' = [bind EXCEPT ![t] = NoSource]
  /\ \/ /\ binds[chn[t]] = bind[t]
        /\ binds' = [binds EXCEPT ![chn[t]] = NoSource]
        /\ UNCHANGED faults
     \/ Fault /\ UNCHANGED binds
  /\ UNCHANGED <<resourceVars, pc, state, native>>

(* stop consumes the handle, which no bind may borrow. *)
Stop(t) ==
  /\ pc[t] = "ready" /\ state[t] = "Started" /\ bind[t] = NoSource
  /\ native' = [native EXCEPT ![chn[t]] = "created"]
  /\ state' = [state EXCEPT ![t] = "Initialized"]
  /\ UNCHANGED <<resourceVars, pc, bind, binds, faults>>

StopFails(t) ==
  /\ pc[t] = "ready" /\ state[t] = "Started" /\ bind[t] = NoSource
  /\ Fault
  /\ Goto(t, "stopping")
  /\ UNCHANGED <<resourceVars, state, bind, native, binds>>

(* The handle goes out of scope; a bind of it is dropped before it. *)
Drop(t) ==
  /\ pc[t] = "ready" /\ bind[t] = NoSource
  /\ Goto(t, "stopping")
  /\ UNCHANGED <<resourceVars, state, bind, native, binds, faults>>

(* Mutants of DropStop: the id is released before the native channel is     *)
(* destroyed; the channel is destroyed without a stop.                      *)
DropStopReleases(t) ==
  /\ pc[t] = "stopping"
  /\ IF state[t] = "Started"
     THEN \/ /\ native' = [native EXCEPT ![chn[t]] = "created"]
             /\ state' = [state EXCEPT ![t] = "Initialized"]
             /\ UNCHANGED faults
          \/ Fault /\ UNCHANGED <<native, state>>
     ELSE UNCHANGED <<native, state, faults>>
  /\ available' = available \cup {chn[t]}
  /\ Goto(t, "destroying")
  /\ UNCHANGED <<busy, chn, bind, binds>>

DropStopSkipped(t) ==
  /\ pc[t] = "stopping"
  /\ Goto(t, "destroying")
  /\ UNCHANGED <<resourceVars, state, bind, native, binds, faults>>

(* VencChannelInner::drop: stop when the handle says started ... *)
DropStop(t) ==
  /\ pc[t] = "stopping"
  /\ IF state[t] = "Started"
     THEN \/ /\ native' = [native EXCEPT ![chn[t]] = "created"]
             /\ state' = [state EXCEPT ![t] = "Initialized"]
             /\ UNCHANGED faults
          \/ Fault /\ UNCHANGED <<native, state>>
     ELSE UNCHANGED <<native, state, faults>>
  /\ Goto(t, "destroying")
  /\ UNCHANGED <<resourceVars, bind, binds>>

(* Mutant of Destroyable: a bound channel can be destroyed. *)
DestroyableBound(i) == native[i] = "created"

(* ... destroy, BUSY while the native channel is started or bound ... *)
Destroyable(i) == native[i] = "created" /\ binds[i] = NoSource

DropDestroy(t) ==
  /\ pc[t] = "destroying"
  /\ \/ /\ Destroyable(chn[t])
        /\ native' = [native EXCEPT ![chn[t]] = "absent"]
        /\ UNCHANGED faults
     \/ ~Destroyable(chn[t]) /\ UNCHANGED <<native, faults>>
     \/ Fault /\ UNCHANGED native
  /\ Goto(t, "releasing")
  /\ UNCHANGED <<resourceVars, state, bind, binds>>

(* Mutant of ReleaseId: the guard is forgotten, not dropped. *)
ReleaseIdForgotten(t) ==
  /\ pc[t] = "releasing"
  /\ chn' = [chn EXCEPT ![t] = NoId]
  /\ Goto(t, "none")
  /\ UNCHANGED <<available, busy, state, bind, native, binds, faults>>

(* ... and release the id. *)
ReleaseId(t) ==
  /\ pc[t] = "releasing"
  /\ chn' = [chn EXCEPT ![t] = NoId]
  /\ Resources!Release(t, chn[t])
  /\ Goto(t, "none")
  /\ UNCHANGED <<state, bind, native, binds, faults>>

Next ==
  \E t \in Thread :
    \/ Acqure(t)
    \/ CreateChn(t) \/ CreateChnFails(t)
    \/ Configure(t) \/ ConfigureFails(t)
    \/ Start(t) \/ StartFails(t)
    \/ \E src \in Source : Bind(t, src)
    \/ Unbind(t)
    \/ Stop(t) \/ StopFails(t)
    \/ Drop(t) \/ DropStop(t) \/ DropDestroy(t) \/ ReleaseId(t)

Spec == Init /\ [][Next]_vars

-----------------------------------------------------------------------------
(* The native channel behind a handle exists until the handle itself       *)
(* destroys it: ids are released only after the native channel, so no      *)
(* other thread ever drives, or destroys, this thread's channel            *)
(* (VencChannelInner, fields dropped after Drop::drop).                    *)
HandleOwnsChannel ==
  \A t \in Thread : HasHandle(t) =>
    /\ native[chn[t]] # "absent"
    /\ \A u \in Thread : u # t => chn[u] # chn[t]

(* The state kept in the handle is the native one, through failing starts  *)
(* and stops, so the drop stops exactly the channels that receive frames.  *)
StateAgrees ==
  \A t \in Thread : HasHandle(t) =>
    (state[t] = "Started" <=> native[chn[t]] = "started")

(* A native channel without a handle is one that a teardown with a failed  *)
(* native call left behind: there are at most as many as failures.         *)
Orphans == {i \in Ids : native[i] # "absent"
                        /\ \A t \in Thread : HasHandle(t) => chn[t] # i}

NoChannelLost ==
  Cardinality(Orphans) =< faults

(* Native binds follow the handles: a bind object in use has its native    *)
(* bind, an absent channel has none, and a channel starts its life unbound *)
(* whatever became of the earlier ones with its id (ChannelBind::drop,     *)
(* DestroyChn gives BUSY on a bound channel).                              *)
BindsFollowHandles ==
  /\ \A t \in Thread : bind[t] # NoSource => binds[chn[t]] = bind[t]
  /\ \A i \in Ids : native[i] = "absent" => binds[i] = NoSource
  /\ \A t \in Thread : pc[t] = "configuring" => binds[chn[t]] = NoSource

(* With no failing call nothing else fails: a new channel finds its id     *)
(* free (CreateChn never gives EXIST because another thread is still       *)
(* tearing down), and a channel is stopped and unbound when it is          *)
(* destroyed.                                                              *)
NoErrorWithoutFault ==
  faults = 0 => \A t \in Thread :
    /\ pc[t] = "creating" => native[chn[t]] = "absent"
    /\ pc[t] = "destroying" => Destroyable(chn[t])

(* Seen from the ids alone, the life of channels is what ResourceManager   *)
(* allows.                                                                 *)
UsesResourceManager == Resources!Spec
=============================================================================
