----------------------------- MODULE OwnedHandles -----------------------------
(***************************************************************************)
(* The Owned handles: a program that keeps its cameras, groups, encoders,  *)
(* pools, buffers and frames without borrows and drops them in any order.  *)
(*                                                                         *)
(* A handle holds Rc references to native objects and a RockitMpi.  The    *)
(* last reference to an object runs its Drop, which tears the native       *)
(* object down and only logs errors.  Rust drops the fields of a handle in *)
(* the order of their declaration: a handle that is being dropped gives up *)
(* its fields one by one.  Rc is not Send, so one thread does all of this. *)
(*                                                                         *)
(* A native teardown is refused when its object is absent or in use, and   *)
(* it may fail without an effect (a fault).  Calls that create something   *)
(* and fail leave nothing behind; a failed `start' or `enable' drops the   *)
(* handle, which a program may do anyway.  Ids are left to the models of   *)
(* the components: at most one object of each class exists at a time.      *)
(***************************************************************************)
EXTENDS Integers, Sequences, FiniteSets, Functions

CONSTANTS
  MaxHeld,    \* bound: handles the program holds at a time
  MaxFaults   \* bound: failing native calls

ASSUME OwnedBoundsAssumption == MaxHeld \in Nat /\ MaxFaults \in Nat

(* The fields of each type in the order of their declaration, nested types  *)
(* spelled out.  A CameraEncoder holds a ViVencBindOwned and nothing else.  *)
Fields ==
  [ RockitMpi |-> <<"mpi">>,
    VencChannelOwned |-> <<"venc", "mpi">>,
    VpssGroupOwned |-> <<"grp", "mpi">>,
    VpssChannelOwned |-> <<"vchn", "grp", "mpi">>,
    CameraOwned |-> <<"cam", "mpi">>,
    ViPipeOwned |-> <<"cam", "mpi">>,
    ViChannelOwned |-> <<"vi", "cam", "mpi">>,
    ViVencBindOwned |-> <<"cbind", "venc", "vi", "cam", "mpi">>,
    VpssVencBindOwned |-> <<"vbind", "venc", "vchn", "grp", "mpi">>,
    VpssViBindOwned |-> <<"gbind", "grp", "vi", "cam", "mpi">>,
    MemBufferPoolOwned |-> <<"pool", "mpi">>,
    MemBufferOwned |-> <<"buf", "pool", "mpi">>,
    VencStreamOwned |-> <<"stream", "venc", "mpi">>,
    ViFrameOwned |-> <<"viframe", "vi", "cam", "mpi">>,
    VpssFrameOwned |-> <<"vpssframe", "vchn", "grp", "mpi">>,
    SimpleEncoder |->
      <<"venc", "mpi", "vbind", "venc", "vchn", "grp", "mpi", "pool", "mpi">>,
    SimpleEncoderNv12 |-> <<"venc", "mpi", "pool", "mpi">> ]

Kind == DOMAIN Fields

Bind == {"cbind", "vbind", "gbind"}      \* ChannelBinds, by their two ends
Frame == {"stream", "viframe", "vpssframe"}  \* blocks outside a pool
Object ==
  {"mpi", "venc", "grp", "vchn", "cam", "vi", "pool", "buf"} \cup Bind \cup Frame

(* Where an object is: started encoders and groups and enabled VPSS         *)
(* channels run, all others are made or not.                                *)
Life == {"none", "made", "running"}

NoHandle == "none"

VARIABLES
  held,      \* the handles the program has, at most one of each type
  dropping,  \* the handle being dropped, or NoHandle
  field,     \* and the field that goes next
  inner,     \* the Rust side of each object: its state flag, "none" if dropped
  native,    \* the native side
  orphans,   \* native blocks nobody can release any more
  refused,   \* a teardown was refused by the library
  faults     \* injected failures so far

ownedVars == <<held, dropping, field, inner, native, orphans, refused, faults>>

OwnedTypeOK ==
  /\ held \in SUBSET Kind
  /\ dropping \in Kind \cup {NoHandle}
  /\ field \in Nat
  /\ dropping = NoHandle => field = 1
  /\ dropping # NoHandle => field \in 1 .. Len(Fields[dropping])
  /\ inner \in [Object -> Life]
  /\ native \in [Object -> Life]
  /\ orphans \in Nat
  /\ refused \in BOOLEAN
  /\ faults \in 0 .. MaxFaults

(* Mutant of Holds: a handle does not keep the session.                      *)
HoldsNoMpi(h) == IF h = "RockitMpi" THEN {"mpi"} ELSE Range(Fields[h]) \ {"mpi"}

(* What a handle keeps alive. *)
Holds(h) == Range(Fields[h])

(* Mutant of FieldAt: fields are dropped from the last to the first.         *)
FieldAtReversed(h, i) == Fields[h][Len(Fields[h]) + 1 - i]

FieldAt(h, i) == Fields[h][i]

(* The fields from the i-th on of the handle being dropped. *)
LeftFrom(i) ==
  IF dropping = NoHandle THEN {}
  ELSE {FieldAt(dropping, j) : j \in i .. Len(Fields[dropping])}

HeldElsewhere(o) == \E h \in held : o \in Holds(h)

Referenced(o) == HeldElsewhere(o) \/ o \in LeftFrom(field)

OwnedInit ==
  /\ held = {}
  /\ dropping = NoHandle
  /\ field = 1
  /\ inner = [o \in Object |-> "none"]
  /\ native = [o \in Object |-> "none"]
  /\ orphans = 0
  /\ refused = FALSE
  /\ faults = 0

-----------------------------------------------------------------------------
(* Making objects.                                                          *)
Idle == dropping = NoHandle

Up(o) == native["mpi"] # "none" /\ native[o] # "none"
Runs(o) == Up(o) /\ native[o] = "running"

(* A new object o with a handle h to it; `life' is how the library has it.  *)
Make(h, o, life) ==
  /\ Idle
  /\ h \notin held /\ Cardinality(held) < MaxHeld
  /\ ~Referenced(o)
  /\ held' = held \cup {h}
  /\ inner' = [inner EXCEPT ![o] = "made"]
  /\ native' = [native EXCEPT ![o] = life]
  /\ UNCHANGED <<dropping, field, orphans, refused, faults>>

(* RockitMpi::init; a second one is refused while the first lives.          *)
OpenMpi == Make("RockitMpi", "mpi", "made")

(* mpi.venc_channel(..)?.into_owned(): EXIST after a failed teardown.        *)
NewVenc ==
  /\ "RockitMpi" \in held
  /\ native["venc"] = "none"
  /\ Make("VencChannelOwned", "venc", "made")

NewGroup ==
  /\ "RockitMpi" \in held
  /\ native["grp"] = "none"
  /\ Make("VpssGroupOwned", "grp", "made")

(* SetChnAttr keeps a channel enabled that was not disabled.                 *)
NewVpssChannel ==
  /\ "VpssGroupOwned" \in held
  /\ Make("VpssChannelOwned", "vchn",
          IF native["vchn"] = "running" THEN "running" ELSE "made")

(* A device that is still enabled is taken over.                             *)
NewCamera ==
  /\ "RockitMpi" \in held
  /\ Make("CameraOwned", "cam", "made")

(* CameraOwned::pipe: another reference to the camera.                       *)
OpenPipe ==
  /\ Idle
  /\ "CameraOwned" \in held /\ "ViPipeOwned" \notin held
  /\ Cardinality(held) < MaxHeld
  /\ held' = held \cup {"ViPipeOwned"}
  /\ UNCHANGED <<dropping, field, inner, native, orphans, refused, faults>>

(* SetChnAttr is refused for a channel that is still enabled.                *)
NewViChannel ==
  /\ "ViPipeOwned" \in held
  /\ Up("cam") /\ native["vi"] = "none"
  /\ Make("ViChannelOwned", "vi", "made")

(* The id of a pool is new each time.                                        *)
NewPool ==
  /\ "RockitMpi" \in held
  /\ Make("MemBufferPoolOwned", "pool", "made")

(* A pool has one buffer.                                                    *)
GetBuffer ==
  /\ "MemBufferPoolOwned" \in held
  /\ native["pool"] # "none" /\ native["buf"] = "none"
  /\ Make("MemBufferOwned", "buf", "made")

(* A destination has one source at a time: EXIST otherwise.                  *)
VencUnbound == native["vbind"] = "none" /\ native["cbind"] = "none"

(* VencChannelOwned<Started>::bind_vi.                                       *)
BindVi ==
  /\ {"VencChannelOwned", "ViChannelOwned"} \subseteq held
  /\ inner["venc"] = "running"
  /\ VencUnbound
  /\ Make("ViVencBindOwned", "cbind", "made")

(* VencChannelOwned<Started>::bind_vpss with a VpssChannelOwned<Enabled>.    *)
BindVpss ==
  /\ {"VencChannelOwned", "VpssChannelOwned"} \subseteq held
  /\ inner["venc"] = "running" /\ inner["vchn"] = "running"
  /\ VencUnbound
  /\ Make("VpssVencBindOwned", "vbind", "made")

(* VpssGroupOwned<Started>::bind_vi.                                         *)
BindGroupToVi ==
  /\ {"VpssGroupOwned", "ViChannelOwned"} \subseteq held
  /\ inner["grp"] = "running"
  /\ native["gbind"] = "none"
  /\ Make("VpssViBindOwned", "gbind", "made")

(* A VI frame reaches the VPSS channel, and it or a VI frame the encoder.    *)
VpssHasInput == Runs("vchn") /\ Runs("grp") /\ native["gbind"] # "none" /\ Up("vi")
VencHasInput ==
  /\ Runs("venc")
  /\ \/ native["cbind"] # "none" /\ Up("vi")
     \/ native["vbind"] # "none" /\ VpssHasInput

(* get_stream of the channel or of a bind, when a frame comes in time.       *)
GetStream ==
  /\ {"VencChannelOwned", "ViVencBindOwned", "VpssVencBindOwned"} \cap held # {}
  /\ inner["venc"] = "running"
  /\ VencHasInput
  /\ Make("VencStreamOwned", "stream", "made")

GetViFrame ==
  /\ "ViChannelOwned" \in held
  /\ Up("vi")
  /\ Make("ViFrameOwned", "viframe", "made")

GetVpssFrame ==
  /\ "VpssChannelOwned" \in held
  /\ inner["vchn"] = "running"
  /\ VpssHasInput
  /\ Make("VpssFrameOwned", "vpssframe", "made")

NewObject ==
  \/ OpenMpi \/ NewVenc \/ NewGroup \/ NewVpssChannel \/ NewCamera \/ OpenPipe
  \/ NewViChannel \/ NewPool \/ GetBuffer \/ BindVi \/ BindVpss \/ BindGroupToVi
  \/ GetStream \/ GetViFrame \/ GetVpssFrame
-----------------------------------------------------------------------------
(* Changing the state of an object: `start', `enable' and `disable' consume *)
(* the handle and return one of another type.                               *)
SetLife(h, o, before, after) ==
  /\ Idle
  /\ h \in held
  /\ inner[o] = before
  /\ inner' = [inner EXCEPT ![o] = after]
  /\ native' = [native EXCEPT ![o] = after]
  /\ UNCHANGED <<held, dropping, field, orphans, refused, faults>>

StartVenc == Up("venc") /\ SetLife("VencChannelOwned", "venc", "made", "running")

(* NOT_PERM if it runs already. *)
StartGroup ==
  /\ Up("grp") /\ native["grp"] = "made"
  /\ SetLife("VpssGroupOwned", "grp", "made", "running")

EnableChannel ==
  /\ Up("grp") /\ Up("vchn")
  /\ SetLife("VpssChannelOwned", "vchn", "made", "running")

(* A bind that shares the channel does not keep it enabled. *)
DisableChannel ==
  /\ Up("grp") /\ Runs("vchn")
  /\ SetLife("VpssChannelOwned", "vchn", "running", "made")

ChangeState == StartVenc \/ StartGroup \/ EnableChannel \/ DisableChannel

(* SimpleEncoder::new makes an encoder, a pool and, unless the input is     *)
(* NV12, a group with a channel and a bind, and moves them into one handle; *)
(* the handles of the group and the channel end with the block.  The parts  *)
(* are made above; giving up half way is dropping them.                     *)
BuildFrom(parts, h) ==
  /\ Idle
  /\ parts \cup {"RockitMpi"} \subseteq held /\ h \notin held
  /\ inner["venc"] = "running"
  /\ held \cap {"VpssGroupOwned", "VpssChannelOwned", "VpssViBindOwned", "ViVencBindOwned",
                "MemBufferOwned", "VencStreamOwned", "VpssFrameOwned"} = {}
  /\ held' = (held \ parts) \cup {h}
  /\ UNCHANGED <<dropping, field, inner, native, orphans, refused, faults>>

BuildEncoder ==
  /\ inner["vchn"] = "running" /\ inner["grp"] = "running"
  /\ BuildFrom({"VencChannelOwned", "VpssVencBindOwned", "MemBufferPoolOwned"},
               "SimpleEncoder")

BuildEncoderNv12 ==
  /\ "VpssVencBindOwned" \notin held
  /\ BuildFrom({"VencChannelOwned", "MemBufferPoolOwned"}, "SimpleEncoderNv12")
-----------------------------------------------------------------------------
(* Dropping.                                                                *)
Spend(n) == faults + n =< MaxFaults /\ faults' = faults + n
One(b) == IF b THEN 1 ELSE 0

Drop(h) ==
  /\ Idle
  /\ h \in held
  /\ held' = held \ {h}
  /\ dropping' = h
  /\ field' = 1
  /\ UNCHANGED <<inner, native, orphans, refused, faults>>

NextField ==
  IF field < Len(Fields[dropping])
  THEN field' = field + 1 /\ UNCHANGED dropping
  ELSE field' = 1 /\ dropping' = NoHandle

(* The field being dropped is the last reference to o. *)
LastOf(o) ==
  /\ ~Idle
  /\ FieldAt(dropping, field) = o
  /\ ~HeldElsewhere(o)
  /\ o \notin LeftFrom(field + 1)

(* Other references remain. *)
DropShared ==
  /\ ~Idle
  /\ ~LastOf(FieldAt(dropping, field))
  /\ NextField
  /\ UNCHANGED <<held, inner, native, orphans, refused, faults>>

Gone(o) == inner' = [inner EXCEPT ![o] = "none"] /\ NextField /\ UNCHANGED held

(* Mutant of DropVenc: the channel is destroyed without being stopped.       *)
DropVencRunning ==
  /\ LastOf("venc")
  /\ \E destroyFails \in BOOLEAN :
       LET busy == native["venc"] = "running" \/ ~VencUnbound \/ ~Up("venc")
       IN  /\ native' = [native EXCEPT !["venc"] =
                           IF destroyFails \/ busy THEN @ ELSE "none"]
           /\ refused' = (refused \/ (busy /\ ~destroyFails))
           /\ Spend(One(destroyFails))
  /\ Gone("venc")
  /\ UNCHANGED orphans

(* Stop if it runs, then destroy: BUSY while it runs or is bound.            *)
DropVenc ==
  /\ LastOf("venc")
  /\ \E stopFails, destroyFails \in BOOLEAN :
       LET stops == inner["venc"] = "running"
           after == IF stops /\ ~stopFails /\ Up("venc") THEN "made" ELSE native["venc"]
           busy == after = "running" \/ ~VencUnbound \/ ~Up("venc")
       IN  /\ stopFails => stops
           /\ native' = [native EXCEPT !["venc"] =
                           IF destroyFails \/ busy THEN after ELSE "none"]
           /\ refused' = (refused \/ (busy /\ ~destroyFails))
           /\ Spend(One(stopFails) + One(destroyFails))
  /\ Gone("venc")
  /\ UNCHANGED orphans

(* Stop if it runs, then destroy: BUSY while it runs.  The channels go with  *)
(* the group.                                                                *)
DropGroup ==
  /\ LastOf("grp")
  /\ \E stopFails, destroyFails \in BOOLEAN :
       LET stops == inner["grp"] = "running"
           after == IF stops /\ ~stopFails /\ Runs("grp") THEN "made" ELSE native["grp"]
           busy == after = "running" \/ ~Up("grp")
       IN  /\ stopFails => stops
           /\ native' = IF destroyFails \/ busy
                        THEN [native EXCEPT !["grp"] = after]
                        ELSE [native EXCEPT !["grp"] = "none", !["vchn"] = "none"]
           /\ refused' = (refused \/ (busy /\ ~destroyFails))
           /\ Spend(One(stopFails) + One(destroyFails))
  /\ Gone("grp")
  /\ UNCHANGED orphans

(* Disabled if the flag says enabled; its configuration stays in the group. *)
DropVpssChannel ==
  /\ LastOf("vchn")
  /\ \E fails \in BOOLEAN :
       LET disables == inner["vchn"] = "running"
           enabled == Runs("vchn") /\ Up("grp")
       IN  /\ fails => disables
           /\ native' = [native EXCEPT !["vchn"] =
                           IF disables /\ enabled /\ ~fails THEN "made" ELSE @]
           /\ refused' = (refused \/ (disables /\ ~enabled /\ ~fails))
           /\ Spend(One(fails))
  /\ Gone("vchn")
  /\ UNCHANGED orphans

(* The one native call that undoes a simple object, and when it works:      *)
(* UnBind, DisableDev, DisableChn of VI, ReleaseMB, ReleaseChnFrame and     *)
(* ReleaseStream.  Only the last asks for the channel.                      *)
Simple == Bind \cup Frame \cup {"cam", "vi", "buf"}
Undoable(o) ==
  CASE o \in {"cam", "vi"} -> Up(o)
    [] o = "stream" -> native[o] # "none" /\ Up("venc")
    [] OTHER -> native[o] # "none"

(* A frame that is not released is a block nobody knows; a buffer that is   *)
(* not released still counts as used in its pool.                           *)
DropSimple(o) ==
  /\ LastOf(o)
  /\ \E fails \in BOOLEAN :
       LET undone == Undoable(o) /\ ~fails
       IN  /\ native' = [native EXCEPT ![o] = IF undone \/ o \in Frame THEN "none" ELSE @]
           /\ orphans' = orphans + One(o \in Frame /\ ~undone)
           /\ refused' = (refused \/ (~Undoable(o) /\ ~fails))
           /\ Spend(One(fails))
  /\ Gone(o)

BlockInPool == One(native["buf"] # "none")

(* BUSY while its buffer is used.  A pool that stays is never used again,   *)
(* the next one has another id.                                             *)
DropPool ==
  /\ LastOf("pool")
  /\ native' = [native EXCEPT !["pool"] = "none", !["buf"] = "none"]
  /\ orphans' = orphans + BlockInPool
  /\ \/ UNCHANGED faults /\ refused' = (refused \/ native["pool"] = "none"
                                                \/ native["buf"] # "none")
     \/ Spend(1) /\ UNCHANGED refused
  /\ Gone("pool")

(* RK_MPI_SYS_Exit drops everything except blocks. *)
DropMpi ==
  /\ LastOf("mpi")
  /\ \/ /\ native' = [o \in Object |-> IF o \in Frame THEN native[o] ELSE "none"]
        /\ orphans' = orphans + BlockInPool
        /\ UNCHANGED faults
     \/ Spend(1) /\ UNCHANGED <<native, orphans>>
  /\ Gone("mpi")
  /\ UNCHANGED refused

DropField ==
  \/ DropShared \/ DropVenc \/ DropGroup \/ DropVpssChannel
  \/ \E o \in Simple : DropSimple(o)
  \/ DropPool \/ DropMpi
-----------------------------------------------------------------------------
(* What a handle refers to exists in the library, and runs if the object    *)
(* says so: whatever order handles go in and whichever calls fail, no       *)
(* teardown and no RK_MPI_SYS_Exit takes a native object from a handle      *)
(* (declaration order of the fields of the Owned types).                    *)
HeldObjectsExist ==
  \A o \in Object : Referenced(o) =>
    /\ inner[o] # "none" /\ native[o] # "none"
    /\ inner[o] = "running" => native[o] = "running"

(* Without a fault the native objects are the referenced ones, in the state *)
(* the Rust side believes, and no block is lost: what the last handle drops *)
(* is gone, however the handles share it.  A VPSS channel keeps its         *)
(* configuration until its group goes.                                      *)
ObjectsFollowHandles ==
  faults = 0 =>
    /\ orphans = 0
    /\ \A o \in Object :
         IF Referenced(o) THEN native[o] = inner[o]
         ELSE native[o] = "none" \/ (o = "vchn" /\ native[o] = "made")

(* No order of drops makes the library refuse a teardown: no bound encoder, *)
(* running group or pool in use is destroyed, no disabled channel disabled  *)
(* again, nothing torn down after the exit, unless a call failed before.    *)
NoErrorWithoutFault == refused => faults > 0
===============================================================================
