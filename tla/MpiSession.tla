------------------------------ MODULE MpiSession ------------------------------
(***************************************************************************)
(* Opening and closing the native MPI library: RockitMpi::init, its clones *)
(* and the drop of the last one.                                           *)
(*                                                                         *)
(* Any thread may call init.  It holds the static mutex MPI_SYS_INIT from  *)
(* the check of the cell until the cell is set, with the native call       *)
(* between them.  RockitMpi is a reference-counted handle that threads     *)
(* clone, drop and send to each other.  The drop of the last handle calls  *)
(* RK_MPI_SYS_Exit WITHOUT the mutex and takes it only afterwards, to      *)
(* clear the cell, so another thread's init can run between the two.       *)
(*                                                                         *)
(* `native' says which session the library is initialized for, 0 for none; *)
(* the library itself only knows whether it is initialized.                *)
(***************************************************************************)
EXTENDS Integers, FiniteSetsExt

CONSTANTS
  Thread,       \* the threads of the process
  NoThread,     \* nobody holds the mutex
  MaxInits,     \* bound: calls of init
  MaxHandles,   \* bound: handles one thread owns of one session
  MaxFaults     \* bound: failing native calls

ASSUME BoundsAssumption ==
  /\ MaxInits \in Nat
  /\ MaxHandles \in Nat \ {0}
  /\ MaxFaults \in Nat
ASSUME NoThreadAssumption == NoThread \notin Thread

VARIABLES
  mutex,        \* who holds MPI_SYS_INIT
  cell,         \* the OnceCell behind it is set
  native,       \* the session RK_MPI_SYS_Init was last called for
  opened,       \* sessions opened so far; the last one's number
  handles,      \* RockitMpi handles each thread owns, per session
  pc,           \* where each thread is
  inits,        \* calls of init so far
  failedInits,  \* failed calls of RK_MPI_SYS_Init
  failedExits   \* failed calls of RK_MPI_SYS_Exit

vars == <<mutex, cell, native, opened, handles, pc, inits, failedInits, failedExits>>

Session == 1 .. MaxInits

Pc == {"idle",          \* between calls
       "checking",      \* init: mutex taken
       "initializing",  \* init: the cell was empty
       "publishing",    \* init: the native call succeeded
       "exiting",       \* drop of the last handle, before RK_MPI_SYS_Exit
       "clearing"}      \* drop of the last handle, before the mutex is taken

TypeOK ==
  /\ mutex \in Thread \cup {NoThread}
  /\ cell \in BOOLEAN
  /\ native \in Session \cup {0}
  /\ opened \in Session \cup {0}
  /\ handles \in [Thread -> [Session -> 0 .. MaxHandles]]
  /\ pc \in [Thread -> Pc]
  /\ inits \in 0 .. MaxInits
  /\ failedInits \in 0 .. MaxFaults
  /\ failedExits \in 0 .. MaxFaults

(* The Arc of a session is alive. *)
Live(s) == \E t \in Thread : handles[t][s] > 0

MayFail == failedInits + failedExits < MaxFaults

-----------------------------------------------------------------------------
Init ==
  /\ mutex = NoThread
  /\ cell = FALSE
  /\ native = 0
  /\ opened = 0
  /\ handles = [t \in Thread |-> [s \in Session |-> 0]]
  /\ pc = [t \in Thread |-> "idle"]
  /\ inits = 0
  /\ failedInits = 0
  /\ failedExits = 0

Goto(t, where) == pc' = [pc EXCEPT ![t] = where]

(* RockitMpi::init, up to the lock. *)
InitLock(t) ==
  /\ pc[t] = "idle"
  /\ inits < MaxInits
  /\ mutex = NoThread
  /\ mutex' = t
  /\ inits' = inits + 1
  /\ Goto(t, "checking")
  /\ UNCHANGED <<cell, native, opened, handles, failedInits, failedExits>>

(* A cell that is set makes init fail with MpiAlreadyInitialized. *)
InitCheck(t) ==
  /\ pc[t] = "checking"
  /\ IF cell
     THEN mutex' = NoThread /\ Goto(t, "idle")
     ELSE Goto(t, "initializing") /\ UNCHANGED mutex
  /\ UNCHANGED <<cell, native, opened, handles, inits, failedInits, failedExits>>

InitNative(t) ==
  /\ pc[t] = "initializing"
  /\ native' = opened + 1
  /\ Goto(t, "publishing")
  /\ UNCHANGED <<mutex, cell, opened, handles, inits, failedInits, failedExits>>

(* Mutant of InitNativeFails: the cell is set before the result is looked at. *)
InitNativeFailsMarked(t) ==
  /\ pc[t] = "initializing"
  /\ MayFail
  /\ failedInits' = failedInits + 1
  /\ cell' = TRUE
  /\ mutex' = NoThread
  /\ Goto(t, "idle")
  /\ UNCHANGED <<native, opened, handles, inits, failedExits>>

(* RK_MPI_SYS_Init fails: init returns its error and the cell stays empty. *)
InitNativeFails(t) ==
  /\ pc[t] = "initializing"
  /\ MayFail
  /\ failedInits' = failedInits + 1
  /\ mutex' = NoThread
  /\ Goto(t, "idle")
  /\ UNCHANGED <<cell, native, opened, handles, inits, failedExits>>

(* The cell is set, the first handle is made, the mutex is released. *)
InitPublish(t) ==
  /\ pc[t] = "publishing"
  /\ cell' = TRUE
  /\ opened' = opened + 1
  /\ handles' = [handles EXCEPT ![t][opened + 1] = 1]
  /\ mutex' = NoThread
  /\ Goto(t, "idle")
  /\ UNCHANGED <<native, inits, failedInits, failedExits>>

(* Clone, into a thread that keeps it: the same thread or another one.  The *)
(* Owned objects of the crate each carry such a clone.                      *)
Clone(t, u, s) ==
  /\ pc[t] = "idle"
  /\ handles[t][s] > 0
  /\ handles[u][s] < MaxHandles
  /\ handles' = [handles EXCEPT ![u][s] = @ + 1]
  /\ UNCHANGED <<mutex, cell, native, opened, pc, inits, failedInits, failedExits>>

(* Mutants of DropHandle: the cell is cleared before RK_MPI_SYS_Exit, not    *)
(* after it; a handle is dropped that the thread does not own.               *)
DropHandleClearsFirst(t, s) ==
  /\ pc[t] = "idle"
  /\ handles[t][s] > 0
  /\ handles' = [handles EXCEPT ![t][s] = @ - 1]
  /\ IF \E u \in Thread : handles'[u][s] > 0
     THEN Goto(t, "idle") /\ UNCHANGED cell
     ELSE Goto(t, "exiting") /\ cell' = FALSE
  /\ UNCHANGED <<mutex, native, opened, inits, failedInits, failedExits>>

(* Drop of a handle.  Whoever drops the last one runs RockitSysInner::drop. *)
DropHandle(t, s) ==
  /\ pc[t] = "idle"
  /\ handles[t][s] > 0
  /\ handles' = [handles EXCEPT ![t][s] = @ - 1]
  /\ Goto(t, IF \E u \in Thread : handles'[u][s] > 0 THEN "idle" ELSE "exiting")
  /\ UNCHANGED <<mutex, cell, native, opened, inits, failedInits, failedExits>>

(* RK_MPI_SYS_Exit succeeds, or fails and is logged. *)
ExitNative(t) ==
  /\ pc[t] = "exiting"
  /\ native' = 0
  /\ Goto(t, "clearing")
  /\ UNCHANGED <<mutex, cell, opened, handles, inits, failedInits, failedExits>>

ExitNativeFails(t) ==
  /\ pc[t] = "exiting"
  /\ MayFail
  /\ failedExits' = failedExits + 1
  /\ Goto(t, "clearing")
  /\ UNCHANGED <<mutex, cell, native, opened, handles, inits, failedInits>>

(* Mutant of ExitClear: try_lock, giving up when another thread has it. *)
ExitClearTries(t) ==
  /\ pc[t] = "clearing"
  /\ cell' = (cell /\ mutex # NoThread)
  /\ Goto(t, "idle")
  /\ UNCHANGED <<mutex, native, opened, handles, inits, failedInits, failedExits>>

(* The cell is cleared under the mutex, taken and released in this step. *)
ExitClear(t) ==
  /\ pc[t] = "clearing"
  /\ mutex = NoThread
  /\ cell' = FALSE
  /\ Goto(t, "idle")
  /\ UNCHANGED <<mutex, native, opened, handles, inits, failedInits, failedExits>>

(* The steps inside a call, which a running thread completes. *)
Progress(t) ==
  \/ InitCheck(t) \/ InitNative(t) \/ InitNativeFails(t) \/ InitPublish(t)
  \/ ExitNative(t) \/ ExitNativeFails(t) \/ ExitClear(t)

(* The calls a program may make or not. *)
Call(t) ==
  \/ InitLock(t)
  \/ \E s \in Session : DropHandle(t, s) \/ \E u \in Thread : Clone(t, u, s)

Next == \E t \in Thread : Progress(t) \/ Call(t)

(* Threads finish the calls they are in; nobody is obliged to make one. *)
Fairness == \A t \in Thread : WF_vars(Progress(t))

Spec == Init /\ [][Next]_vars

FairSpec == Spec /\ Fairness

-----------------------------------------------------------------------------
(* While a handle of a session exists the library is initialized, and for  *)
(* that session: the late RK_MPI_SYS_Exit of an older session, called      *)
(* without the mutex, never shuts down a newer one (RockitSysInner::drop). *)
LiveSessionIsInitialized == \A s \in Session : Live(s) => native = s

(* At most one session is alive: init never hands out a second one while   *)
(* handles of the first exist (RockitMpi::init).                           *)
OneSession == \A r, s \in Session : Live(r) /\ Live(s) => r = s

(* RK_MPI_SYS_Init is only ever called on a library that is not            *)
(* initialized, except after an RK_MPI_SYS_Exit that failed.               *)
InitFindsLibraryDown ==
  \A t \in Thread : pc[t] = "initializing" => native = 0 \/ failedExits > 0

(* init refuses only while a session is alive or on its way out: a failed  *)
(* init and a finished drop leave the cell empty (MPI_SYS_INIT).           *)
CellAccounted ==
  cell => \/ \E s \in Session : Live(s)
          \/ \E t \in Thread : pc[t] \in {"exiting", "clearing"}

(* The library can be initialized again after the last handle is dropped:  *)
(* the cell is empty at some later time, whatever init calls of other      *)
(* threads are waiting for the mutex.                                      *)
ReinitPossible ==
  \A t \in Thread : pc[t] = "exiting" ~> ~cell
=============================================================================
