------------------------------- MODULE Camera -------------------------------
(***************************************************************************)
(* Opening and closing cameras: Camera::new and the drop of CameraInner.   *)
(* A camera is a VI device; the crate configures its attributes once,      *)
(* enables it and binds one pipe to it, and disables it when the camera is *)
(* dropped, which also undoes the pipe.  Several threads share one         *)
(* RockitMpi; each has at most one camera (Camera, or the Rc of a          *)
(* CameraOwned) at a time.                                                 *)
(*                                                                         *)
(* Every native call is one step and any of them may fail: an injected     *)
(* failure leaves the native state as it was.  The failure of DisableDev   *)
(* is logged and the teardown goes on.                                     *)
(***************************************************************************)
EXTENDS Integers, FiniteSetsExt

CONSTANTS
  Thread,     \* the threads that share the RockitMpi
  NoThread,   \* stands for no thread
  Capacity,   \* VI_MAX_DEV_NUM
  MaxFaults   \* bound: failing native calls

ASSUME CapacityAssumption == Capacity \in Nat
ASSUME NoThreadAssumption == NoThread \notin Thread
ASSUME MaxFaultsAssumption == MaxFaults \in Nat

VARIABLES
  available, busy,  \* the ResourceManager of cameras
  pc,               \* where each thread is in the life of its camera
  dev,              \* the id in its AcquiredResource, or NoId
  attr,             \* the devices whose attributes are configured
  enabled,          \* the devices that are enabled
  pipe,             \* the devices with their pipe bound
  faults            \* injected failures so far

Ids == 0 .. (Capacity - 1)
NoId == -1

Held == [t \in Thread |-> IF dev[t] = NoId THEN {} ELSE {dev[t]}]

Resources ==
  INSTANCE ResourceManager
    WITH Holder <- Thread, NoHolder <- NoThread, held <- Held

resourceVars == <<available, busy, dev>>
nativeVars == <<attr, enabled, pipe>>
vars == <<resourceVars, pc, nativeVars, faults>>

Pc == {"none",        \* no camera
       "getting",     \* Camera::new, before RK_MPI_VI_GetDevAttr
       "setting",     \*   before SetDevAttr
       "checking",    \*   before GetDevIsEnable
       "enabling",    \*   before EnableDev
       "binding",     \*   before SetDevBindPipe
       "open",        \* a Camera in the hands of the caller
       "disabling",   \* CameraInner::drop
       "releasing"}   \* drop of the AcquiredResource

TypeOK ==
  /\ available \in SUBSET Ids
  /\ busy \in SUBSET Ids
  /\ pc \in [Thread -> Pc]
  /\ dev \in [Thread -> Ids \cup {NoId}]
  /\ attr \in SUBSET Ids
  /\ enabled \in SUBSET Ids
  /\ pipe \in SUBSET Ids
  /\ faults \in 0 .. MaxFaults

-----------------------------------------------------------------------------
Init ==
  /\ available = Ids
  /\ busy = {}
  /\ pc = [t \in Thread |-> "none"]
  /\ dev = [t \in Thread |-> NoId]
  /\ attr = {}
  /\ enabled = {}
  /\ pipe = {}
  /\ faults = 0

Goto(t, where) == pc' = [pc EXCEPT ![t] = where]

(* A native call that fails without an effect. *)
Fault == faults < MaxFaults /\ faults' = faults + 1

(* The id must be free, or the caller gets an error. *)
Acqure(t, id) ==
  /\ pc[t] = "none"
  /\ dev' = [dev EXCEPT ![t] = id]
  /\ Resources!AcqureSpecific(t, id)
  /\ Goto(t, "getting")
  /\ UNCHANGED <<nativeVars, faults>>

(* NOT_CONFIG makes Camera::new set the attributes; every other error of    *)
(* this call is ignored.                                                    *)
GetDevAttr(t) ==
  /\ pc[t] = "getting"
  /\ \/ /\ Goto(t, IF dev[t] \in attr THEN "checking" ELSE "setting")
        /\ UNCHANGED faults
     \/ Fault /\ \E where \in {"checking", "setting"} : Goto(t, where)
  /\ UNCHANGED <<resourceVars, nativeVars>>

SetDevAttr(t) ==
  /\ pc[t] = "setting"
  /\ dev[t] \notin enabled
  /\ attr' = attr \cup {dev[t]}
  /\ Goto(t, "checking")
  /\ UNCHANGED <<resourceVars, enabled, pipe, faults>>

(* An enabled device gives NOT_PERM.  There is no CameraInner yet: only the *)
(* id is given back.                                                        *)
SetDevAttrFails(t) ==
  /\ pc[t] = "setting"
  /\ \/ dev[t] \in enabled /\ UNCHANGED faults
     \/ Fault
  /\ Goto(t, "releasing")
  /\ UNCHANGED <<resourceVars, nativeVars>>

(* From here on a CameraInner exists.  A device that is enabled is taken    *)
(* over as it is; any error of this call means that it is not enabled.      *)
GetDevIsEnable(t) ==
  /\ pc[t] = "checking"
  /\ \/ /\ Goto(t, IF dev[t] \in enabled THEN "open" ELSE "enabling")
        /\ UNCHANGED faults
     \/ Fault /\ Goto(t, "enabling")
  /\ UNCHANGED <<resourceVars, nativeVars>>

EnableDev(t) ==
  /\ pc[t] = "enabling"
  /\ dev[t] \in attr \ enabled
  /\ enabled' = enabled \cup {dev[t]}
  /\ Goto(t, "binding")
  /\ UNCHANGED <<resourceVars, attr, pipe, faults>>

(* NOT_CONFIG without attributes, DEV_EXIST when it is enabled. *)
EnableDevFails(t) ==
  /\ pc[t] = "enabling"
  /\ \/ dev[t] \notin attr \ enabled /\ UNCHANGED faults
     \/ Fault
  /\ Goto(t, "disabling")
  /\ UNCHANGED <<resourceVars, nativeVars>>

(* Possible once per enable, with the pipe that has the id of the device. *)
SetDevBindPipe(t) ==
  /\ pc[t] = "binding"
  /\ dev[t] \in enabled \ pipe
  /\ pipe' = pipe \cup {dev[t]}
  /\ Goto(t, "open")
  /\ UNCHANGED <<resourceVars, attr, enabled, faults>>

(* Mutant of SetDevBindPipeFails: the CameraInner is made after this call,  *)
(* so its failure does not disable the device.                              *)
SetDevBindPipeFailsBare(t) ==
  /\ pc[t] = "binding"
  /\ Fault
  /\ Goto(t, "releasing")
  /\ UNCHANGED <<resourceVars, nativeVars>>

SetDevBindPipeFails(t) ==
  /\ pc[t] = "binding"
  /\ Fault
  /\ Goto(t, "disabling")
  /\ UNCHANGED <<resourceVars, nativeVars>>

(* Mutants of Drop: the id is released before the device is disabled; the   *)
(* device is not disabled.                                                  *)
DropReleasesFirst(t) ==
  /\ pc[t] = "open"
  /\ available' = available \cup {dev[t]}
  /\ Goto(t, "disabling")
  /\ UNCHANGED <<busy, dev, nativeVars, faults>>

DropKeepsEnabled(t) ==
  /\ pc[t] = "open"
  /\ Goto(t, "releasing")
  /\ UNCHANGED <<resourceVars, nativeVars, faults>>

Drop(t) ==
  /\ pc[t] = "open"
  /\ Goto(t, "disabling")
  /\ UNCHANGED <<resourceVars, nativeVars, faults>>

(* CameraInner::drop.  A device that is not enabled gives DEV_UNEXIST,      *)
(* which is logged.                                                         *)
DisableDev(t) ==
  /\ pc[t] = "disabling"
  /\ \/ /\ enabled' = enabled \ {dev[t]}
        /\ pipe' = pipe \ {dev[t]}
        /\ UNCHANGED faults
     \/ Fault /\ UNCHANGED <<enabled, pipe>>
  /\ Goto(t, "releasing")
  /\ UNCHANGED <<resourceVars, attr>>

(* Mutant of ReleaseId: the guard is forgotten, not dropped. *)
ReleaseIdForgotten(t) ==
  /\ pc[t] = "releasing"
  /\ dev' = [dev EXCEPT ![t] = NoId]
  /\ Goto(t, "none")
  /\ UNCHANGED <<available, busy, nativeVars, faults>>

(* The AcquiredResource is dropped after CameraInner::drop. *)
ReleaseId(t) ==
  /\ pc[t] = "releasing"
  /\ dev' = [dev EXCEPT ![t] = NoId]
  /\ Resources!Release(t, dev[t])
  /\ Goto(t, "none")
  /\ UNCHANGED <<nativeVars, faults>>

Next ==
  \E t \in Thread :
    \/ \E id \in Ids : Acqure(t, id)
    \/ GetDevAttr(t)
    \/ SetDevAttr(t) \/ SetDevAttrFails(t)
    \/ GetDevIsEnable(t)
    \/ EnableDev(t) \/ EnableDevFails(t)
    \/ SetDevBindPipe(t) \/ SetDevBindPipeFails(t)
    \/ Drop(t) \/ DisableDev(t) \/ ReleaseId(t)

Spec == Init /\ [][Next]_vars

-----------------------------------------------------------------------------
(* An open camera is alone on its device, and the device is configured and *)
(* enabled until the camera itself disables it: no late DisableDev of an   *)
(* earlier camera, of this or another thread, takes it down                *)
(* (CameraInner, fields dropped after Drop::drop).                         *)
OpenCameraIsEnabled ==
  \A t \in Thread : pc[t] = "open" =>
    /\ dev[t] \in attr \cap enabled
    /\ \A u \in Thread : u # t => dev[u] # dev[t]

(* Enabled devices that no camera stands for, and among them, or under an  *)
(* open camera, the ones without a pipe.  Every such device has cost one   *)
(* failing call, and two when it has no pipe: a SetDevBindPipe, and the    *)
(* DisableDev of the cleanup (Camera::new).                                *)
InUse == {dev[t] : t \in {u \in Thread : pc[u] \in {"binding", "open", "disabling"}}}
Leftover == enabled \ InUse
Pipeless ==
  {i \in enabled \ pipe :
     \A t \in Thread : dev[t] = i => pc[t] \notin {"binding", "disabling"}}

LeftoversCostFaults ==
  Cardinality(Leftover \ Pipeless) + 2 * Cardinality(Pipeless) =< faults

(* With no failing call a new camera finds its device down, the attributes *)
(* are set only once, and what is disabled was enabled                     *)
(* (Camera::new, CameraInner::drop).                                       *)
NoErrorWithoutFault ==
  faults = 0 => \A t \in Thread :
    /\ pc[t] \in {"getting", "setting", "checking", "enabling"} =>
         dev[t] \notin enabled
    /\ pc[t] = "disabling" => dev[t] \in enabled \cap pipe

(* "Rockit binds a single pipe to it, with the same id as the device": the *)
(* pipe of an open camera is bound (Camera::pipe).                         *)
CameraHasPipe ==
  \A t \in Thread : pc[t] = "open" => dev[t] \in pipe

(* Seen from the ids alone, the life of cameras is what ResourceManager    *)
(* allows.                                                                 *)
UsesResourceManager == Resources!Spec
=============================================================================
