------------------------------ MODULE ViChannel ------------------------------
(***************************************************************************)
(* The channels of the pipe of one open camera: ViPipe::create_channel and *)
(* the drop of ViChannelInner.  Unlike cameras and encoder channels, their *)
(* ids come from the caller and no ResourceManager guards them: the native *)
(* EnableChn is the only arbiter.  A ViPipe can be shared between threads  *)
(* by reference, so two threads may create the same channel, each with its *)
(* own size; each thread has at most one channel at a time.                *)
(*                                                                         *)
(* Every native call is one step and any of them may fail without an       *)
(* effect.  The failure of DisableChn is logged.  Attributes the library   *)
(* rejects leave no trace and are not modelled.                            *)
(***************************************************************************)
EXTENDS Integers, FiniteSetsExt

CONSTANTS
  Thread,     \* the threads that share the pipe
  Chn,        \* channel ids below VI_MAX_CHN_NUM
  Size,       \* frame sizes
  NoChn,      \* no channel
  NoSize,     \* a native channel that was never configured
  NoThread,   \* stands for no thread
  MaxFaults   \* bound: failing native calls

ASSUME SentinelAssumption ==
  NoChn \notin Chn /\ NoSize \notin Size /\ NoThread \notin Thread
ASSUME MaxFaultsAssumption == MaxFaults \in Nat

VARIABLES
  pc,        \* where each thread is in the life of its channel
  chn,       \* its channel, or NoChn
  size,      \* the size it asked for
  attr,      \* the size each native channel is configured for
  enabled,   \* the native channels that are enabled
  faults     \* injected failures so far

vars == <<pc, chn, size, attr, enabled, faults>>

Pc == {"none",        \* no channel
       "setting",     \* ViChannelInner::new, before RK_MPI_VI_SetChnAttr
       "enabling",    \* ViChannelInner::new, before RK_MPI_VI_EnableChn
       "open",        \* a channel in the hands of the caller
       "disabling"}   \* ViChannelInner::drop

TypeOK ==
  /\ pc \in [Thread -> Pc]
  /\ chn \in [Thread -> Chn \cup {NoChn}]
  /\ size \in [Thread -> Size \cup {NoSize}]
  /\ attr \in [Chn -> Size \cup {NoSize}]
  /\ enabled \in SUBSET Chn
  /\ faults \in 0 .. MaxFaults

-----------------------------------------------------------------------------
Init ==
  /\ pc = [t \in Thread |-> "none"]
  /\ chn = [t \in Thread |-> NoChn]
  /\ size = [t \in Thread |-> NoSize]
  /\ attr = [c \in Chn |-> NoSize]
  /\ enabled = {}
  /\ faults = 0

Goto(t, where) == pc' = [pc EXCEPT ![t] = where] /\ UNCHANGED <<chn, size>>

(* create_channel returns an error, or the drop is over. *)
Leave(t) ==
  /\ pc' = [pc EXCEPT ![t] = "none"]
  /\ chn' = [chn EXCEPT ![t] = NoChn]
  /\ size' = [size EXCEPT ![t] = NoSize]

(* A native call that fails without an effect. *)
Fault == faults < MaxFaults /\ faults' = faults + 1

(* create_channel, past the check of the id. *)
Create(t, c, s) ==
  /\ pc[t] = "none"
  /\ pc' = [pc EXCEPT ![t] = "setting"]
  /\ chn' = [chn EXCEPT ![t] = c]
  /\ size' = [size EXCEPT ![t] = s]
  /\ UNCHANGED <<attr, enabled, faults>>

(* Mutant of SetChnAttr: an enabled channel is configured again. *)
SetChnAttrAnytime(t) ==
  /\ pc[t] = "setting"
  /\ attr' = [attr EXCEPT ![chn[t]] = size[t]]
  /\ Goto(t, "enabling")
  /\ UNCHANGED <<enabled, faults>>

(* The native channel is configured anew while it is not enabled. *)
SetChnAttr(t) ==
  /\ pc[t] = "setting"
  /\ chn[t] \notin enabled
  /\ attr' = [attr EXCEPT ![chn[t]] = size[t]]
  /\ Goto(t, "enabling")
  /\ UNCHANGED <<enabled, faults>>

(* NOT_PERM on an enabled channel, or another failure. *)
SetChnAttrFails(t) ==
  /\ pc[t] = "setting"
  /\ \/ chn[t] \in enabled /\ UNCHANGED faults
     \/ Fault
  /\ Leave(t)
  /\ UNCHANGED <<attr, enabled>>

EnableChn(t) ==
  /\ pc[t] = "enabling"
  /\ chn[t] \notin enabled
  /\ enabled' = enabled \cup {chn[t]}
  /\ Goto(t, "open")
  /\ UNCHANGED <<attr, faults>>

(* Mutant of EnableChnFails: the ViChannelInner is made before this call and *)
(* its drop disables the channel.                                            *)
EnableChnFailsDisables(t) ==
  /\ pc[t] = "enabling"
  /\ \/ chn[t] \in enabled /\ UNCHANGED faults
     \/ Fault
  /\ Goto(t, "disabling")
  /\ UNCHANGED <<attr, enabled>>

(* EXIST on an enabled channel, or another failure.  No ViChannelInner is   *)
(* made, so nothing is disabled.                                            *)
EnableChnFails(t) ==
  /\ pc[t] = "enabling"
  /\ \/ chn[t] \in enabled /\ UNCHANGED faults
     \/ Fault
  /\ Leave(t)
  /\ UNCHANGED <<attr, enabled>>

(* Mutant of Drop: the channel is not disabled. *)
DropKeepsEnabled(t) ==
  /\ pc[t] = "open"
  /\ Leave(t)
  /\ UNCHANGED <<attr, enabled, faults>>

Drop(t) ==
  /\ pc[t] = "open"
  /\ Goto(t, "disabling")
  /\ UNCHANGED <<attr, enabled, faults>>

(* A channel that is not enabled gives UNEXIST, which is logged. *)
DisableChn(t) ==
  /\ pc[t] = "disabling"
  /\ \/ enabled' = enabled \ {chn[t]} /\ UNCHANGED faults
     \/ Fault /\ UNCHANGED enabled
  /\ Leave(t)
  /\ UNCHANGED attr

Next ==
  \E t \in Thread :
    \/ \E c \in Chn, s \in Size : Create(t, c, s)
    \/ SetChnAttr(t) \/ SetChnAttrFails(t)
    \/ EnableChn(t) \/ EnableChnFails(t)
    \/ Drop(t) \/ DisableChn(t)

Spec == Init /\ [][Next]_vars

-----------------------------------------------------------------------------
(* The channel is in the hands of a caller or of its drop. *)
HasChannel(t) == pc[t] \in {"open", "disabling"}

(* A channel object has an enabled, configured native channel to itself,   *)
(* although nothing in the crate guards the id: a creation that loses the  *)
(* race, or fails between its two native calls, never disables the         *)
(* winner's channel (ViChannelInner::new, drop).                           *)
ChannelIsExclusive ==
  \A t \in Thread : HasChannel(t) =>
    /\ chn[t] \in enabled
    /\ attr[chn[t]] # NoSize
    /\ \A u \in Thread : u # t /\ HasChannel(u) => chn[u] # chn[t]

(* An enabled native channel without an object has cost one failing        *)
(* DisableChn (ViChannelInner::drop).                                      *)
Leftover == {c \in enabled : \A t \in Thread : HasChannel(t) => chn[t] # c}

LeftoversCostFaults == Cardinality(Leftover) =< faults

(* The frames of an open channel keep their size: whatever other threads   *)
(* try on its id, the native channel is not configured again               *)
(* (RK_MPI_VI_SetChnAttr gives NOT_PERM).                                  *)
OpenChannelKeepsSize ==
  [][\A t \in Thread : HasChannel(t) => attr'[chn[t]] = attr[chn[t]]]_vars

(* A leftover channel is for good: it cannot be configured, enabled or     *)
(* disabled by anyone, so its id is lost (ViChannelInner::new).            *)
LeftoversStay ==
  [][Leftover \subseteq Leftover'
     /\ \A c \in Leftover : attr'[c] = attr[c]]_vars

(* The frames of a channel have the size it was created with, as the tests *)
(* expect of every channel: the native channel is configured for the size  *)
(* its creator asked for (ViChannelInner::new).                            *)
ChannelHasItsSize ==
  \A t \in Thread : HasChannel(t) => attr[chn[t]] = size[t]

-----------------------------------------------------------------------------
(* Whose channel it is, for the abstract specification. *)
Has(t, c) == HasChannel(t) /\ chn[t] = c

LeaseOf(c) ==
  IF \E t \in Thread : Has(t, c) THEN CHOOSE t \in Thread : Has(t, c) ELSE NoThread

Lease == INSTANCE IdLease
           WITH Id <- Chn, Holder <- Thread, NoHolder <- NoThread,
                lease <- [c \in Chn |-> LeaseOf(c)]

(* Without a manager, channels are leased all the same: EnableChn takes a   *)
(* free one, the drop gives it back, and no other step changes whose a      *)
(* channel is (ViChannelInner::new, drop).                                  *)
ImplementsLease == Lease!Spec
=============================================================================
