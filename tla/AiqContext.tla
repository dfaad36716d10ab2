------------------------------ MODULE AiqContext ------------------------------
(***************************************************************************)
(* AIQ contexts: the objects of the crate and the contexts of the library. *)
(*                                                                         *)
(* AiqContext::init makes both, `start' prepares and starts the native     *)
(* one, `stop' stops it.  Both consume the object: one that fails drops    *)
(* it, and the drop stops a context that its object calls started - for    *)
(* the second time, when `stop' has failed - and frees it, stopped or not. *)
(* A context belongs to one thread (its pointer is not Send); each native  *)
(* call is a step of its own, so that threads with contexts interleave.    *)
(* A failing init leaves nothing behind and is no step.                    *)
(***************************************************************************)
EXTENDS Integers, FiniteSets

CONSTANTS
  Ctx,          \* the addresses contexts can have
  MaxAiqFaults  \* bound: failing native calls

ASSUME AiqAssumption == IsFiniteSet(Ctx) /\ MaxAiqFaults \in Nat

(* The native calls, and the states they work in and lead to. *)
Calls ==
  [ prepare |-> [from |-> {"Initialized", "Prepared"}, to |-> "Prepared"],
    start |-> [from |-> {"Prepared"}, to |-> "Started"],
    stop |-> [from |-> {"Started"}, to |-> "Prepared"],
    deinit |-> [from |-> {"Initialized", "Prepared", "Started"}, to |-> "none"] ]

VARIABLES
  object,   \* the state an AiqContext believes in, or "none"
  context,  \* the state of the native context, or "none"
  at,       \* where the call on a context is
  failed    \* how many of each native call failed

aiqVars == <<object, context, at, failed>>

AiqTypeOK ==
  /\ object \in [Ctx -> {"none", "Initialized", "Started"}]
  /\ context \in [Ctx -> {"none", "Initialized", "Prepared", "Started"}]
  /\ at \in [Ctx -> {"idle", "starting", "dropping", "deiniting"}]
  /\ failed \in [DOMAIN Calls -> Nat]

AiqInit ==
  /\ object = [c \in Ctx |-> "none"]
  /\ context = [c \in Ctx |-> "none"]
  /\ at = [c \in Ctx |-> "idle"]
  /\ failed = [call \in DOMAIN Calls |-> 0]

MayFailAiq ==
  failed["prepare"] + failed["start"] + failed["stop"] + failed["deinit"] < MaxAiqFaults

At(c, where) == at' = [at EXCEPT ![c] = where]

(* transition: a native call of a context works, ...                         *)
Works(c, call) ==
  /\ context[c] \in Calls[call].from
  /\ context' = [context EXCEPT ![c] = Calls[call].to]
  /\ UNCHANGED failed

(* ... or fails, because the context is in another state or for a reason of  *)
(* the hardware's, which counts as a fault.                                  *)
Fails(c, call) ==
  /\ LET fault == context[c] \in Calls[call].from IN
       /\ fault => MayFailAiq
       /\ failed' = [failed EXCEPT ![call] = IF fault THEN @ + 1 ELSE @]
  /\ UNCHANGED context

-----------------------------------------------------------------------------
(* AiqContext::init. *)
NewContext(c) ==
  /\ object[c] = "none" /\ context[c] = "none"
  /\ object' = [object EXCEPT ![c] = "Initialized"]
  /\ context' = [context EXCEPT ![c] = "Initialized"]
  /\ UNCHANGED <<at, failed>>

(* start: rk_aiq_uapi2_sysctl_prepare, which a context can take again.       *)
Prepare(c) ==
  /\ at[c] = "idle" /\ object[c] = "Initialized"
  /\ \/ Works(c, "prepare") /\ At(c, "starting")
     \/ Fails(c, "prepare") /\ At(c, "dropping")
  /\ UNCHANGED object

(* start: rk_aiq_uapi2_sysctl_start. *)
StartNative(c) ==
  /\ at[c] = "starting"
  /\ \/ /\ Works(c, "start") /\ At(c, "idle")
        /\ object' = [object EXCEPT ![c] = "Started"]
     \/ Fails(c, "start") /\ At(c, "dropping") /\ UNCHANGED object

(* stop: a failure drops the object as it is. *)
Stop(c) ==
  /\ at[c] = "idle" /\ object[c] = "Started"
  /\ \/ /\ Works(c, "stop") /\ UNCHANGED at
        /\ object' = [object EXCEPT ![c] = "Initialized"]
     \/ Fails(c, "stop") /\ At(c, "dropping") /\ UNCHANGED object

DropContext(c) ==
  /\ at[c] = "idle" /\ object[c] # "none"
  /\ At(c, "dropping")
  /\ UNCHANGED <<object, context, failed>>

(* AiqContextInner::drop: a stop that fails is logged. *)
DropStops(c) ==
  /\ at[c] = "dropping"
  /\ IF object[c] = "Started" THEN Works(c, "stop") \/ Fails(c, "stop")
     ELSE UNCHANGED <<context, failed>>
  /\ At(c, "deiniting")
  /\ UNCHANGED object

(* rk_aiq_uapi2_sysctl_deinit, which has no result. *)
Deinit(c) ==
  /\ at[c] = "deiniting"
  /\ Works(c, "deinit") \/ Fails(c, "deinit")
  /\ object' = [object EXCEPT ![c] = "none"]
  /\ At(c, "idle")

AiqNext ==
  \E c \in Ctx :
    \/ NewContext(c) \/ Prepare(c) \/ StartNative(c) \/ Stop(c)
    \/ DropContext(c) \/ DropStops(c) \/ Deinit(c)

-----------------------------------------------------------------------------
(* An object always has its native context, which runs exactly if the object *)
(* is started, except while the call that changes that is under way.  A      *)
(* running context is freed only if it could not be stopped, and a context   *)
(* without an object is one whose deinit failed (AiqContext::start, stop and *)
(* AiqContextInner::drop).                                                   *)
ContextsAgree ==
  /\ \A c \in Ctx :
       /\ object[c] # "none" => context[c] # "none"
       /\ object[c] = "Initialized" => context[c] # "Started"
       /\ object[c] = "Started" /\ at[c] # "deiniting" => context[c] = "Started"
       /\ at[c] = "deiniting" /\ context[c] = "Started" => failed["stop"] > 0
  /\ Cardinality({c \in Ctx : object[c] = "none" /\ context[c] # "none"}) =< failed["deinit"]
===============================================================================
