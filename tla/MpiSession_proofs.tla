-------------------------- MODULE MpiSession_proofs --------------------------
(***************************************************************************)
(* Machine-checked proofs about MpiSession, for any number of threads,     *)
(* init calls, handles and faults, and about Process, for any number of    *)
(* AIQ contexts besides.                                                   *)
(*                                                                         *)
(* The argument: the mutex covers init from the check of the cell to its   *)
(* setting, so an init past the check runs with an empty cell.  A live     *)
(* session keeps the cell set, and so does a drop until its very last      *)
(* step.  So no init gets past the check, and calls RK_MPI_SYS_Init, until *)
(* the RK_MPI_SYS_Exit of the previous session has returned.               *)
(***************************************************************************)
EXTENDS Process, TLAPS, FiniteSetTheorems

Initing(t) == pc[t] \in {"checking", "initializing", "publishing"}
Exiting(t) == pc[t] \in {"exiting", "clearing"}

MutexCoversInit == \A t \in Thread : Initing(t) <=> mutex = t

(* Each session spends a call of init: the session counter stays in range. *)
SessionsCounted ==
  /\ opened =< inits
  /\ mutex # NoThread => opened < inits

InitHasEmptyCell ==
  \A t \in Thread :
    /\ pc[t] \in {"initializing", "publishing"} => ~cell
    /\ pc[t] = "publishing" => native = opened + 1

LiveHoldsCell ==
  \A s \in Session : Live(s) =>
    /\ s = opened
    /\ native = s
    /\ cell
    /\ \A t \in Thread : ~Exiting(t)

ExitHoldsCell ==
  \A t \in Thread : Exiting(t) =>
    /\ cell
    /\ \A u \in Thread : Exiting(u) => u = t

NativeIsDown ==
  native # 0 /\ failedExits = 0 =>
    \/ \E t \in Thread : pc[t] = "publishing"
    \/ cell /\ \A t \in Thread : pc[t] # "clearing"

IInv ==
  /\ TypeOK
  /\ MutexCoversInit
  /\ SessionsCounted
  /\ InitHasEmptyCell
  /\ LiveHoldsCell
  /\ ExitHoldsCell
  /\ NativeIsDown
  /\ CellAccounted

(* Taking the mutex spends a call of init.                                 *)
LEMMA InitLockKeepsIInv ==
  ASSUME IInv, NEW t \in Thread, InitLock(t)
  PROVE  IInv'
<1> USE DEF IInv, InitLock, Goto
<1>1. TypeOK'
  BY BoundsAssumption DEF TypeOK, Session, Pc
<1>2. MutexCoversInit'
  BY NoThreadAssumption DEF TypeOK, MutexCoversInit, Initing
<1>3. SessionsCounted'
  BY DEF TypeOK, SessionsCounted, MutexCoversInit, Initing, Session
<1>4. /\ InitHasEmptyCell'
      /\ LiveHoldsCell'
      /\ ExitHoldsCell'
      /\ NativeIsDown'
      /\ CellAccounted'
  BY DEF TypeOK, InitHasEmptyCell, MutexCoversInit, Initing, ExitHoldsCell,
         Exiting, LiveHoldsCell, Live, NativeIsDown, CellAccounted
<1>5. QED
  BY <1>1, <1>2, <1>3, <1>4

(* Past the check the cell is empty, and stays so under the mutex.         *)
LEMMA InitCheckKeepsIInv ==
  ASSUME IInv, NEW t \in Thread, InitCheck(t)
  PROVE  IInv'
<1> USE DEF IInv, InitCheck, Goto
<1>1. MutexCoversInit'
  BY NoThreadAssumption DEF TypeOK, MutexCoversInit, Initing
<1>2. InitHasEmptyCell'
  BY DEF TypeOK, InitHasEmptyCell, MutexCoversInit, Initing, ExitHoldsCell,
         Exiting
<1>3. TypeOK'
  BY DEF TypeOK, Pc
<1>4. SessionsCounted'
  BY DEF TypeOK, SessionsCounted, MutexCoversInit, Initing, Session
<1>5. /\ LiveHoldsCell'
      /\ ExitHoldsCell'
      /\ NativeIsDown'
      /\ CellAccounted'
  BY DEF TypeOK, MutexCoversInit, Initing, LiveHoldsCell, Live, Exiting,
         InitHasEmptyCell, ExitHoldsCell, NativeIsDown, CellAccounted
<1>6. QED
  BY <1>1, <1>2, <1>3, <1>4, <1>5

(* The cell is empty, so no session is alive that the call could disturb.  *)
LEMMA InitNativeKeepsIInv ==
  ASSUME IInv, NEW t \in Thread, InitNative(t)
  PROVE  IInv'
<1> USE DEF IInv, InitNative, Goto
<1>1. TypeOK'
  <2>1. opened + 1 \in Session
    BY BoundsAssumption, NoThreadAssumption
    DEF TypeOK, Session, MutexCoversInit, Initing, SessionsCounted
  <2>2. QED
    BY <2>1 DEF TypeOK, Pc
<1>2. InitHasEmptyCell'
  BY DEF TypeOK, InitHasEmptyCell, MutexCoversInit, Initing, ExitHoldsCell,
         Exiting
<1>3. LiveHoldsCell'
  BY DEF TypeOK, LiveHoldsCell, Live, Exiting, InitHasEmptyCell,
         MutexCoversInit, Initing
<1>4. NativeIsDown'
  BY DEF TypeOK, NativeIsDown, InitHasEmptyCell, ExitHoldsCell, Exiting,
         MutexCoversInit, Initing
<1>5. MutexCoversInit' /\ SessionsCounted' /\ ExitHoldsCell' /\ CellAccounted'
  BY DEF TypeOK, MutexCoversInit, Initing, SessionsCounted, Session,
         ExitHoldsCell, Exiting, LiveHoldsCell, Live, InitHasEmptyCell,
         CellAccounted
<1>6. QED
  BY <1>1, <1>2, <1>3, <1>4, <1>5

(* A failed native call only releases the mutex.                           *)
LEMMA InitNativeFailsKeepsIInv ==
  ASSUME IInv, NEW t \in Thread, InitNativeFails(t)
  PROVE  IInv'
<1> USE DEF IInv, InitNativeFails, Goto
<1>1. TypeOK'
  BY BoundsAssumption DEF MayFail, TypeOK, Session, Pc
<1>2. MutexCoversInit'
  BY NoThreadAssumption DEF TypeOK, MutexCoversInit, Initing
<1>3. SessionsCounted'
  BY DEF TypeOK, SessionsCounted, MutexCoversInit, Initing, Session
<1>4. /\ InitHasEmptyCell'
      /\ LiveHoldsCell'
      /\ ExitHoldsCell'
      /\ NativeIsDown'
      /\ CellAccounted'
  BY DEF TypeOK, InitHasEmptyCell, MutexCoversInit, Initing, ExitHoldsCell,
         Exiting, LiveHoldsCell, Live, NativeIsDown, CellAccounted
<1>5. QED
  BY <1>1, <1>2, <1>3, <1>4

(* A clone keeps a session alive that already is.                          *)
LEMMA CloneKeepsIInv ==
  ASSUME IInv, NEW t \in Thread, NEW u \in Thread, NEW s \in Session,
         Clone(t, u, s)
  PROVE  IInv'
<1> USE DEF IInv, Clone, Goto
<1>1. TypeOK'
  <2>1. handles[u][s] + 1 \in 0 .. MaxHandles
    BY BoundsAssumption DEF TypeOK
  <2>2. handles' \in [Thread -> [Session -> 0 .. MaxHandles]]
    BY <2>1 DEF TypeOK
  <2>3. QED
    BY <2>2 DEF TypeOK
<1>2. LiveHoldsCell'
  BY DEF TypeOK, LiveHoldsCell, Live, Exiting, InitHasEmptyCell,
         MutexCoversInit, Initing
<1>3. CellAccounted'
  BY DEF TypeOK, CellAccounted, Live, ExitHoldsCell, Exiting
<1>4. /\ MutexCoversInit'
      /\ SessionsCounted'
      /\ InitHasEmptyCell'
      /\ ExitHoldsCell'
      /\ NativeIsDown'
  BY DEF TypeOK, MutexCoversInit, Initing, SessionsCounted, Session,
         InitHasEmptyCell, ExitHoldsCell, Exiting, LiveHoldsCell, Live,
         NativeIsDown
<1>5. QED
  BY <1>1, <1>2, <1>3, <1>4

(* No session is alive while a thread exits the library.                   *)
LEMMA ExitNativeKeepsIInv ==
  ASSUME IInv, NEW t \in Thread, ExitNative(t)
  PROVE  IInv'
<1> USE DEF IInv, ExitNative, Goto
<1>1. LiveHoldsCell'
  BY DEF TypeOK, LiveHoldsCell, Live, Exiting, InitHasEmptyCell,
         MutexCoversInit, Initing
<1>2. ExitHoldsCell'
  BY DEF TypeOK, ExitHoldsCell, Exiting, LiveHoldsCell, Live, InitHasEmptyCell
<1>3. NativeIsDown'
  BY DEF TypeOK, NativeIsDown, InitHasEmptyCell, ExitHoldsCell, Exiting,
         MutexCoversInit, Initing
<1>4. /\ TypeOK'
      /\ MutexCoversInit'
      /\ SessionsCounted'
      /\ InitHasEmptyCell'
      /\ CellAccounted'
  BY DEF TypeOK, Session, Pc, MutexCoversInit, Initing, SessionsCounted,
         InitHasEmptyCell, ExitHoldsCell, Exiting, CellAccounted, Live
<1>5. QED
  BY <1>1, <1>2, <1>3, <1>4

(* A failed exit leaves the library up and the session dead.               *)
LEMMA ExitNativeFailsKeepsIInv ==
  ASSUME IInv, NEW t \in Thread, ExitNativeFails(t)
  PROVE  IInv'
<1> USE DEF IInv, ExitNativeFails, Goto
<1>1. TypeOK'
  BY BoundsAssumption DEF MayFail, TypeOK, Session, Pc
<1>2. LiveHoldsCell'
  BY DEF TypeOK, LiveHoldsCell, Live, Exiting, InitHasEmptyCell,
         MutexCoversInit, Initing
<1>3. ExitHoldsCell'
  BY DEF TypeOK, ExitHoldsCell, Exiting, LiveHoldsCell, Live, InitHasEmptyCell
<1>4. /\ MutexCoversInit'
      /\ SessionsCounted'
      /\ InitHasEmptyCell'
      /\ NativeIsDown'
      /\ CellAccounted'
  BY DEF TypeOK, MutexCoversInit, Initing, SessionsCounted, Session,
         InitHasEmptyCell, ExitHoldsCell, Exiting, NativeIsDown,
         CellAccounted, Live
<1>5. QED
  BY <1>1, <1>2, <1>3, <1>4

(* The cell is cleared by the only thread that exits.                      *)
LEMMA ExitClearKeepsIInv ==
  ASSUME IInv, NEW t \in Thread, ExitClear(t)
  PROVE  IInv'
<1> USE DEF IInv, ExitClear, Goto
<1>1. InitHasEmptyCell'
  BY DEF TypeOK, InitHasEmptyCell, MutexCoversInit, Initing, ExitHoldsCell,
         Exiting
<1>2. LiveHoldsCell'
  BY DEF TypeOK, LiveHoldsCell, Live, Exiting, InitHasEmptyCell,
         MutexCoversInit, Initing
<1>3. ExitHoldsCell'
  BY DEF TypeOK, ExitHoldsCell, Exiting, LiveHoldsCell, Live, InitHasEmptyCell
<1>4. NativeIsDown'
  BY DEF TypeOK, NativeIsDown, InitHasEmptyCell, ExitHoldsCell, Exiting,
         MutexCoversInit, Initing
<1>5. CellAccounted'
  BY DEF TypeOK, CellAccounted, Live, ExitHoldsCell, Exiting
<1>6. TypeOK' /\ MutexCoversInit' /\ SessionsCounted'
  BY DEF TypeOK, Session, Pc, MutexCoversInit, Initing, SessionsCounted
<1>7. QED
  BY <1>1, <1>2, <1>3, <1>4, <1>5, <1>6

(* The new session is the only one alive, and the one the library is       *)
(* initialized for.                                                        *)
LEMMA InitPublishKeepsIInv ==
  ASSUME IInv, NEW t \in Thread, InitPublish(t)
  PROVE  IInv'
<1> USE DEF IInv, InitPublish, Goto
<1>1. mutex = t /\ ~cell /\ native = opened + 1 /\ opened < inits
  BY NoThreadAssumption
  DEF MutexCoversInit, Initing, InitHasEmptyCell, SessionsCounted
<1>2. opened + 1 \in Session
  BY <1>1, BoundsAssumption DEF TypeOK, Session
<1>3. \A s \in Session, u \in Thread : handles[u][s] = 0
  BY <1>1 DEF LiveHoldsCell, Live, TypeOK
<1>4. \A s \in Session, u \in Thread :
        handles'[u][s] = IF u = t /\ s = opened + 1 THEN 1 ELSE 0
  BY <1>2, <1>3 DEF TypeOK
<1>5. \A u \in Thread : ~Exiting(u)
  BY <1>1 DEF ExitHoldsCell
<1>6. TypeOK'
  <2>1. handles' \in [Thread -> [Session -> 0 .. MaxHandles]]
    BY <1>2, BoundsAssumption DEF TypeOK
  <2>2. QED
    BY <1>2, <2>1 DEF TypeOK, Pc
<1>7. LiveHoldsCell'
  <2>1. \A u \in Thread : ~Exiting(u)'
    BY <1>5 DEF Exiting, TypeOK
  <2>2. \A s \in Session : Live(s)' => s = opened + 1
    BY <1>4 DEF Live
  <2>3. QED
    BY <1>1, <2>1, <2>2 DEF LiveHoldsCell
<1>8. CellAccounted'
  BY <1>2, <1>4 DEF CellAccounted, Live
<1>9. MutexCoversInit' /\ SessionsCounted'
  BY <1>1, NoThreadAssumption
  DEF TypeOK, MutexCoversInit, Initing, SessionsCounted, Session
<1>10. InitHasEmptyCell' /\ ExitHoldsCell' /\ NativeIsDown'
  BY <1>1, <1>5
  DEF TypeOK, InitHasEmptyCell, MutexCoversInit, Initing, ExitHoldsCell,
      Exiting, NativeIsDown
<1>11. QED
  BY <1>6, <1>7, <1>8, <1>9, <1>10

(* The thread that drops the last handle exits the library, and no other   *)
(* thread does: a session was alive until this step.                       *)
LEMMA DropHandleKeepsIInv ==
  ASSUME IInv, NEW t \in Thread, NEW s \in Session, DropHandle(t, s)
  PROVE  IInv'
<1> USE DEF IInv, DropHandle, Goto
<1>1. s = opened /\ native = s /\ cell /\ \A u \in Thread : ~Exiting(u)
  BY DEF LiveHoldsCell, Live
<1>2. \A r \in Session, u \in Thread :
        handles'[u][r] =
          IF u = t /\ r = s THEN handles[t][s] - 1 ELSE handles[u][r]
  BY DEF TypeOK
<1>3. \A r \in Session : Live(r)' => Live(r)
  BY <1>2 DEF Live, TypeOK
<1>4. TypeOK'
  <2>1. handles[t][s] - 1 \in 0 .. MaxHandles
    BY BoundsAssumption DEF TypeOK
  <2>2. handles' \in [Thread -> [Session -> 0 .. MaxHandles]]
    BY <2>1 DEF TypeOK
  <2>3. QED
    BY <2>2 DEF TypeOK, Pc
<1>5. LiveHoldsCell'
  <2> SUFFICES ASSUME NEW r \in Session, Live(r)'
               PROVE  /\ r = opened /\ native = r /\ cell
                      /\ \A u \in Thread : ~Exiting(u)'
    BY DEF LiveHoldsCell
  <2>1. r = s
    BY <1>1, <1>3 DEF LiveHoldsCell
  <2>2. pc'[t] = "idle"
    BY <2>1 DEF Live, TypeOK
  <2>3. QED
    BY <1>1, <2>1, <2>2 DEF Exiting, TypeOK
<1>6. CellAccounted'
  <2>1. CASE Live(s)'
    BY <2>1 DEF CellAccounted
  <2>2. CASE ~Live(s)'
    BY <2>2 DEF CellAccounted, Live, TypeOK
  <2>3. QED
    BY <2>1, <2>2
<1>7. ExitHoldsCell'
  BY <1>1 DEF ExitHoldsCell, Exiting, TypeOK
<1>8. MutexCoversInit' /\ SessionsCounted' /\ InitHasEmptyCell'
  BY DEF TypeOK, MutexCoversInit, Initing, SessionsCounted, InitHasEmptyCell
<1>9. NativeIsDown'
  BY <1>1 DEF NativeIsDown, Exiting, TypeOK
<1>10. QED
  BY <1>4, <1>5, <1>6, <1>7, <1>8, <1>9

-----------------------------------------------------------------------------
LEMMA StutterKeepsIInv == IInv /\ UNCHANGED vars => IInv'
BY DEF vars, IInv, TypeOK, MutexCoversInit, Initing, SessionsCounted,
       InitHasEmptyCell, LiveHoldsCell, Live, ExitHoldsCell, Exiting,
       NativeIsDown, CellAccounted

LEMMA Invariance == Spec => []IInv
<1>1. Init => IInv
  <2> SUFFICES ASSUME Init
               PROVE  IInv
    OBVIOUS
  <2>1. TypeOK
    <3>1. /\ 0 \in 0 .. MaxInits
          /\ 0 \in 0 .. MaxHandles
          /\ 0 \in 0 .. MaxFaults
      BY BoundsAssumption
    <3>2. handles \in [Thread -> [Session -> 0 .. MaxHandles]]
      BY <3>1 DEF Init
    <3>3. QED
      BY <3>1, <3>2 DEF Init, TypeOK, Pc
  <2>2. /\ LiveHoldsCell /\ ExitHoldsCell /\ NativeIsDown /\ CellAccounted
        /\ InitHasEmptyCell /\ SessionsCounted
    BY DEF Init, LiveHoldsCell, Live, ExitHoldsCell, Exiting, NativeIsDown,
           CellAccounted, InitHasEmptyCell, SessionsCounted
  <2>3. MutexCoversInit
    BY NoThreadAssumption DEF Init, MutexCoversInit, Initing
  <2>4. QED
    BY <2>1, <2>2, <2>3 DEF IInv
<1>2. IInv /\ [Next]_vars => IInv'
  <2> SUFFICES ASSUME IInv, [Next]_vars
               PROVE  IInv'
    OBVIOUS
  <2>1. ASSUME NEW t \in Thread, Progress(t)
        PROVE  IInv'
    BY <2>1, InitCheckKeepsIInv, InitNativeKeepsIInv, InitNativeFailsKeepsIInv,
       InitPublishKeepsIInv, ExitNativeKeepsIInv, ExitNativeFailsKeepsIInv,
       ExitClearKeepsIInv
    DEF Progress
  <2>2. ASSUME NEW t \in Thread, Call(t)
        PROVE  IInv'
    BY <2>2, InitLockKeepsIInv, DropHandleKeepsIInv, CloneKeepsIInv DEF Call
  <2>3. CASE UNCHANGED vars
    BY <2>3, StutterKeepsIInv
  <2>4. QED
    BY <2>1, <2>2, <2>3 DEF Next
<1>3. QED
  BY <1>1, <1>2, PTL DEF Spec

(* The state stays well typed: in particular no session number runs out    *)
(* before the calls of init do.                                            *)
THEOREM TypeCorrect == Spec => []TypeOK
BY Invariance, PTL DEF IInv

(* A live handle always has an initialized library behind it, however      *)
(* threads interleave, whichever native calls fail (RockitSysInner::drop). *)
THEOREM LiveSessionsAreInitialized == Spec => []LiveSessionIsInitialized
<1>1. IInv => LiveSessionIsInitialized
  BY DEF IInv, LiveHoldsCell, LiveSessionIsInitialized
<1>2. QED
  BY <1>1, Invariance, PTL

(* Never two sessions at once (RockitMpi::init).                           *)
THEOREM SessionsAreExclusive == Spec => []OneSession
<1>1. IInv => OneSession
  BY DEF IInv, LiveHoldsCell, OneSession
<1>2. QED
  BY <1>1, Invariance, PTL

(* RK_MPI_SYS_Init finds the library down unless an exit failed before.    *)
THEOREM InitsFindLibraryDown == Spec => []InitFindsLibraryDown
<1>1. IInv => InitFindsLibraryDown
  <2> SUFFICES ASSUME IInv, NEW t \in Thread, pc[t] = "initializing"
               PROVE  native = 0 \/ failedExits > 0
    BY DEF InitFindsLibraryDown
  <2>1. ~cell /\ mutex = t
    BY DEF IInv, InitHasEmptyCell, MutexCoversInit, Initing
  <2>2. \A u \in Thread : pc[u] # "publishing"
    BY <2>1 DEF IInv, MutexCoversInit, Initing
  <2>3. QED
    BY <2>1, <2>2 DEF IInv, NativeIsDown, TypeOK
<1>2. QED
  BY <1>1, Invariance, PTL

(* The cell is set only for a live session or one being closed: neither a  *)
(* failed init nor a finished drop leaves it set (MPI_SYS_INIT).           *)
THEOREM CellIsAccounted == Spec => []CellAccounted
BY Invariance, PTL DEF IInv
-----------------------------------------------------------------------------
(* The process: the sessions do not notice the AIQ contexts.                *)

(* A process with AIQ contexts opens and closes its sessions as one without: *)
(* what is proved of MpiSession holds of it.                                 *)
THEOREM ProcessHasSessions == ProcessSpec => Spec
<1>1. ProcessInit => Init
  BY DEF ProcessInit
<1>2. [ProcessNext]_<<vars, aiqVars>> => [Next]_vars
  BY DEF ProcessNext, SessionStep, ContextStep
<1>3. QED
  BY <1>1, <1>2, PTL DEF ProcessSpec, Spec

(* An object believes of its context what is so, and one that was not        *)
(* stopped counts as a failed stop.                                          *)
Agrees(c) ==
  /\ object[c] = "none" => at[c] = "idle"
  /\ object[c] # "none" => context[c] # "none"
  /\ object[c] = "Initialized" => context[c] # "Started"
  /\ object[c] = "Started" /\ at[c] # "deiniting" => context[c] = "Started"
  /\ at[c] = "starting" => object[c] = "Initialized"
  /\ at[c] = "deiniting" /\ context[c] = "Started" => failed["stop"] > 0

Orphan == {c \in Ctx : object[c] = "none" /\ context[c] # "none"}

AInv ==
  /\ AiqTypeOK
  /\ \A c \in Ctx : Agrees(c)
  /\ Cardinality(Orphan) =< failed["deinit"]

(* The steps other than a deinit leave no new context without an object.     *)
LEMMA OrphansKept ==
  ASSUME AInv, Orphan' = Orphan, failed'["deinit"] = failed["deinit"]
  PROVE  (Cardinality(Orphan) =< failed["deinit"])'
BY DEF AInv

LEMMA NativeCalls ==
  ASSUME AInv, NEW c \in Ctx, NEW call \in {"prepare", "start", "stop", "deinit"}
  PROVE  /\ Works(c, call) =>
              /\ context[c] \in Calls[call].from
              /\ context' = [context EXCEPT ![c] = Calls[call].to]
              /\ failed' = failed
         /\ Fails(c, call) =>
              /\ context' = context
              /\ failed' \in [DOMAIN Calls -> Nat]
              /\ \A other \in DOMAIN Calls :
                   /\ failed'[other] >= failed[other]
                   /\ other # call => failed'[other] = failed[other]
              /\ context[c] \in Calls[call].from => failed'[call] = failed[call] + 1
         /\ DOMAIN Calls = {"prepare", "start", "stop", "deinit"}
<1>1. DOMAIN Calls = {"prepare", "start", "stop", "deinit"}
  BY DEF Calls
<1>2. Fails(c, call) => context' = context
  BY DEF Fails
<1>3. failed \in [DOMAIN Calls -> Nat]
  BY DEF AInv, AiqTypeOK
<1>4. ASSUME Fails(c, call)
      PROVE  \E n \in {0, 1} : /\ failed' = [failed EXCEPT ![call] = @ + n]
                               /\ context[c] \in Calls[call].from => n = 1
  <2>1. CASE context[c] \in Calls[call].from
    BY <1>4, <2>1 DEF Fails
  <2>2. CASE context[c] \notin Calls[call].from
    <3>1. failed' = [failed EXCEPT ![call] = @]
      BY <1>4, <2>2 DEF Fails
    <3>2. failed[call] \in Nat
      BY <1>1, <1>3
    <3>3. failed[call] + 0 = failed[call]
      BY <3>2
    <3>4. failed' = [failed EXCEPT ![call] = @ + 0]
      BY <3>1, <3>3
    <3>5. QED
      BY <2>2, <3>4
  <2>3. QED
    BY <2>1, <2>2
<1>5. QED
  BY <1>1, <1>2, <1>3, <1>4 DEF Works

(* What holds of a context after a step of its own, and of the others.       *)
LEMMA ContextStepKeeps ==
  ASSUME AInv, NEW c \in Ctx,
         NEW to \in {"none", "Initialized", "Prepared", "Started"},
         NEW state \in {"none", "Initialized", "Started"},
         NEW where \in {"idle", "starting", "dropping", "deiniting"},
         context' = [context EXCEPT ![c] = to],
         object' = [object EXCEPT ![c] = state],
         at' = [at EXCEPT ![c] = where],
         failed' \in [DOMAIN Calls -> Nat],
         failed'["stop"] >= failed["stop"],
         Agrees(c)',
         (Cardinality(Orphan) =< failed["deinit"])'
  PROVE  AInv'
<1>1. AiqTypeOK'
  BY DEF AInv, AiqTypeOK
<1>2. failed["stop"] \in Nat /\ failed'["stop"] \in Nat
  BY <1>1 DEF AInv, AiqTypeOK, Calls
<1>3. ASSUME NEW d \in Ctx PROVE Agrees(d)'
  <2>1. CASE d = c
    BY <2>1
  <2>2. CASE d # c
    <3>1. context'[d] = context[d] /\ object'[d] = object[d] /\ at'[d] = at[d]
      BY <2>2 DEF AInv, AiqTypeOK
    <3>2. QED
      BY <1>2, <3>1 DEF AInv, Agrees
  <2>3. QED
    BY <2>1, <2>2
<1>4. QED
  BY <1>1, <1>3 DEF AInv

LEMMA ContextsInitial == AiqInit => AInv
<1> SUFFICES ASSUME AiqInit PROVE AInv
  OBVIOUS
<1>1. Orphan = {}
  BY DEF AiqInit, Orphan
<1>2. Cardinality(Orphan) = 0
  BY <1>1, FS_EmptySet
<1>3. QED
  BY <1>2 DEF AiqInit, AInv, AiqTypeOK, Agrees, Calls

(* A step that neither takes an object from its context nor frees a context. *)
LEMMA PlainStepKeeps ==
  ASSUME AInv, NEW c \in Ctx, object[c] # "none" \/ context[c] = "none",
         NEW to \in {"Initialized", "Prepared", "Started"},
         NEW state \in {"Initialized", "Started"},
         NEW where \in {"idle", "starting", "dropping", "deiniting"},
         context' = [context EXCEPT ![c] = to],
         object' = [object EXCEPT ![c] = state],
         at' = [at EXCEPT ![c] = where],
         failed' \in [DOMAIN Calls -> Nat],
         failed'["stop"] >= failed["stop"],
         failed'["deinit"] = failed["deinit"],
         state = "Initialized" => to # "Started",
         state = "Started" /\ where # "deiniting" => to = "Started",
         where = "starting" => state = "Initialized",
         where = "deiniting" /\ to = "Started" => failed'["stop"] > 0
  PROVE  AInv'
<1>1. context'[c] = to /\ object'[c] = state /\ at'[c] = where
  BY DEF AInv, AiqTypeOK
<1>2. Agrees(c)'
  BY <1>1 DEF Agrees
<1>3. Orphan' = Orphan
  <2>1. ASSUME NEW d \in Ctx
        PROVE  (object[d] = "none" /\ context[d] # "none")'
                 <=> object[d] = "none" /\ context[d] # "none"
    BY <1>1 DEF AInv, AiqTypeOK
  <2>2. QED
    BY <2>1 DEF Orphan
<1>4. QED
  BY <1>2, <1>3, OrphansKept, ContextStepKeeps

LEMMA ContextsInductive == ASSUME AInv, AiqNext PROVE AInv'
<1>1. PICK c \in Ctx :
        \/ NewContext(c) \/ Prepare(c) \/ StartNative(c) \/ Stop(c)
        \/ DropContext(c) \/ DropStops(c) \/ Deinit(c)
  BY DEF AiqNext
<1>2. /\ Agrees(c)
      /\ object = [object EXCEPT ![c] = object[c]]
      /\ context = [context EXCEPT ![c] = context[c]]
      /\ at = [at EXCEPT ![c] = at[c]]
      /\ object[c] \in {"none", "Initialized", "Started"}
      /\ context[c] \in {"none", "Initialized", "Prepared", "Started"}
      /\ at[c] \in {"idle", "starting", "dropping", "deiniting"}
  BY DEF AInv, AiqTypeOK
<1>3. /\ failed \in [DOMAIN Calls -> Nat]
      /\ DOMAIN Calls = {"prepare", "start", "stop", "deinit"}
      /\ failed["stop"] \in Nat /\ failed["deinit"] \in Nat
  BY DEF AInv, AiqTypeOK, Calls
<1>12. ASSUME failed' = failed
       PROVE  /\ failed' \in [DOMAIN Calls -> Nat]
              /\ failed'["stop"] >= failed["stop"] /\ failed'["deinit"] = failed["deinit"]
  BY <1>3, <1>12
<1>13. /\ Calls["prepare"].to = "Prepared" /\ Calls["start"].to = "Started"
       /\ Calls["stop"].to = "Prepared"
  BY DEF Calls
<1>4. CASE NewContext(c)
  <2>1. /\ object[c] = "none" /\ context[c] = "none" /\ at[c] = "idle"
        /\ object' = [object EXCEPT ![c] = "Initialized"]
        /\ context' = [context EXCEPT ![c] = "Initialized"]
        /\ at' = [at EXCEPT ![c] = "idle"] /\ failed' = failed
    BY <1>2, <1>4 DEF NewContext, Agrees
  <2>2. QED
    BY <1>12, <2>1, PlainStepKeeps
<1>5. CASE Prepare(c)
  <2>1. object[c] = "Initialized" /\ context[c] \in {"Initialized", "Prepared"}
    BY <1>2, <1>5 DEF Prepare, Agrees
  <2>2. CASE Works(c, "prepare") /\ At(c, "starting")
    <3>1. /\ context' = [context EXCEPT ![c] = "Prepared"] /\ failed' = failed
          /\ at' = [at EXCEPT ![c] = "starting"]
          /\ object' = [object EXCEPT ![c] = "Initialized"]
      BY <1>2, <1>5, <1>13, <2>1, <2>2, NativeCalls DEF Prepare, At
    <3>2. QED
      BY <1>12, <2>1, <3>1, PlainStepKeeps
  <2>3. CASE Fails(c, "prepare") /\ At(c, "dropping")
    BY <1>2, <1>3, <1>5, <2>1, <2>3, NativeCalls, PlainStepKeeps DEF Prepare, At
  <2>4. QED
    BY <1>5, <2>2, <2>3 DEF Prepare
<1>6. CASE StartNative(c)
  <2>1. object[c] = "Initialized" /\ context[c] \in {"Initialized", "Prepared"}
    BY <1>2, <1>6 DEF StartNative, Agrees
  <2>2. CASE Works(c, "start") /\ At(c, "idle") /\ object' = [object EXCEPT ![c] = "Started"]
    <3>1. /\ context' = [context EXCEPT ![c] = "Started"] /\ failed' = failed
          /\ at' = [at EXCEPT ![c] = "idle"]
      BY <1>13, <2>2, NativeCalls DEF At
    <3>2. QED
      BY <1>12, <2>1, <2>2, <3>1, PlainStepKeeps
  <2>3. CASE Fails(c, "start") /\ At(c, "dropping") /\ UNCHANGED object
    BY <1>2, <1>3, <1>6, <2>1, <2>3, NativeCalls, PlainStepKeeps DEF At
  <2>4. QED
    BY <1>6, <2>2, <2>3 DEF StartNative
<1>7. CASE Stop(c)
  <2>1. object[c] = "Started" /\ context[c] = "Started" /\ at[c] = "idle"
    BY <1>2, <1>7 DEF Stop, Agrees
  <2>2. CASE Works(c, "stop") /\ UNCHANGED at /\ object' = [object EXCEPT ![c] = "Initialized"]
    <3>1. /\ context' = [context EXCEPT ![c] = "Prepared"] /\ failed' = failed
          /\ at' = [at EXCEPT ![c] = "idle"]
      BY <1>2, <1>13, <2>1, <2>2, NativeCalls
    <3>2. QED
      BY <1>12, <2>1, <2>2, <3>1, PlainStepKeeps
  <2>3. CASE Fails(c, "stop") /\ At(c, "dropping") /\ UNCHANGED object
    BY <1>2, <1>3, <1>7, <2>1, <2>3, NativeCalls, PlainStepKeeps DEF At
  <2>4. QED
    BY <1>7, <2>2, <2>3 DEF Stop
<1>8. CASE DropContext(c)
  <2>1. /\ object[c] \in {"Initialized", "Started"} /\ at[c] = "idle"
        /\ context[c] \in {"Initialized", "Prepared", "Started"}
        /\ UNCHANGED <<object, context, failed>> /\ at' = [at EXCEPT ![c] = "dropping"]
    BY <1>2, <1>8 DEF DropContext, Agrees, At
  <2>2. /\ object' = [object EXCEPT ![c] = object[c]]
        /\ context' = [context EXCEPT ![c] = context[c]] /\ failed' = failed
        /\ object[c] = "Initialized" => context[c] # "Started"
        /\ object[c] = "Started" => context[c] = "Started"
    BY <1>2, <2>1 DEF Agrees
  <2>3. QED
    BY <1>12, <2>1, <2>2, PlainStepKeeps
<1>9. CASE DropStops(c)
  <2>1. /\ object[c] \in {"Initialized", "Started"} /\ at[c] = "dropping"
        /\ context[c] \in {"Initialized", "Prepared", "Started"}
        /\ UNCHANGED object /\ at' = [at EXCEPT ![c] = "deiniting"]
    BY <1>2, <1>9 DEF DropStops, Agrees, At
  <2>2. CASE object[c] = "Started" /\ Works(c, "stop")
    <3>1. /\ context' = [context EXCEPT ![c] = "Prepared"] /\ failed' = failed
          /\ object' = [object EXCEPT ![c] = object[c]]
      BY <1>2, <1>13, <2>1, <2>2, NativeCalls
    <3>2. QED
      BY <1>12, <2>1, <2>2, <3>1, PlainStepKeeps
  <2>3. CASE object[c] = "Started" /\ Fails(c, "stop")
    <3>1. context[c] = "Started" /\ Calls["stop"].from = {"Started"}
      BY <1>2, <2>1, <2>3 DEF Agrees, Calls
    <3>2. /\ failed'["stop"] > 0 /\ failed'["stop"] >= failed["stop"]
          /\ failed'["deinit"] = failed["deinit"]
          /\ failed' \in [DOMAIN Calls -> Nat] /\ context' = context
      BY <1>3, <2>3, <3>1, NativeCalls
    <3>3. QED
      BY <1>2, <2>1, <2>3, <3>1, <3>2, PlainStepKeeps
  <2>4. CASE object[c] = "Initialized" /\ UNCHANGED <<context, failed>>
    <3>1. /\ context' = [context EXCEPT ![c] = context[c]] /\ failed' = failed
          /\ object' = [object EXCEPT ![c] = object[c]] /\ context[c] # "Started"
      BY <1>2, <2>1, <2>4 DEF Agrees
    <3>2. QED
      BY <1>12, <2>1, <2>4, <3>1, PlainStepKeeps
  <2>5. QED
    BY <1>9, <2>1, <2>2, <2>3, <2>4 DEF DropStops
<1>10. CASE Deinit(c)
  <2>1. /\ object[c] # "none" /\ context[c] # "none"
        /\ object' = [object EXCEPT ![c] = "none"] /\ at' = [at EXCEPT ![c] = "idle"]
    BY <1>2, <1>10 DEF Deinit, Agrees, At
  <2>2. object'[c] = "none" /\ at'[c] = "idle"
    BY <2>1 DEF AInv, AiqTypeOK
  <2>3. Agrees(c)'
    BY <2>2 DEF Agrees
  <2>4. CASE Works(c, "deinit")
    <3>1. context' = [context EXCEPT ![c] = "none"] /\ failed' = failed
      BY <2>4, NativeCalls DEF Calls
    <3>2. ASSUME NEW d \in Ctx
          PROVE  (object[d] = "none" /\ context[d] # "none")'
                   <=> object[d] = "none" /\ context[d] # "none"
      BY <2>1, <3>1 DEF AInv, AiqTypeOK
    <3>3. Orphan' = Orphan
      BY <3>2 DEF Orphan
    <3>4. (Cardinality(Orphan) =< failed["deinit"])'
      BY <3>1, <3>3, OrphansKept
    <3>5. QED
      BY <1>12, <2>1, <2>3, <3>1, <3>4, ContextStepKeeps
  <2>5. CASE Fails(c, "deinit")
    <3>1. /\ context' = context /\ failed' \in [DOMAIN Calls -> Nat]
          /\ failed'["stop"] >= failed["stop"]
          /\ failed'["deinit"] = failed["deinit"] + 1
      BY <1>2, <1>3, <2>1, <2>5, NativeCalls DEF Calls
    <3>2. ASSUME NEW d \in Ctx
          PROVE  (object[d] = "none" /\ context[d] # "none")'
                   <=> d = c \/ (object[d] = "none" /\ context[d] # "none")
      BY <2>1, <3>1 DEF AInv, AiqTypeOK
    <3>3. Orphan' = Orphan \cup {c}
      BY <3>2 DEF Orphan
    <3>4. IsFiniteSet(Orphan) /\ c \notin Orphan
      BY <2>1, AiqAssumption, FS_Subset DEF Orphan
    <3>5. Cardinality(Orphan') = Cardinality(Orphan) + 1
      BY <3>3, <3>4, FS_AddElement
    <3>6. Cardinality(Orphan) =< failed["deinit"] /\ Cardinality(Orphan) \in Nat
      BY <3>4, FS_CardinalityType DEF AInv
    <3>7. Cardinality(Orphan') =< failed'["deinit"]
      BY <1>3, <3>1, <3>5, <3>6
    <3>8. QED
      BY <1>2, <1>3, <2>1, <2>3, <3>1, <3>7, ContextStepKeeps
  <2>6. QED
    BY <1>10, <2>4, <2>5 DEF Deinit
<1>11. QED
  BY <1>1, <1>4, <1>5, <1>6, <1>7, <1>8, <1>9, <1>10

(* No order of calls and failures, and no exit of a session by another       *)
(* thread, makes an AIQ context differ from what its object believes; and    *)
(* only failed calls leave contexts running or behind (AiqContext, and       *)
(* State::exit, which keeps the contexts).                                   *)
THEOREM ContextsAlwaysAgree == ProcessSpec => []ContextsAgree
<1>1. ProcessInit => AInv
  BY ContextsInitial DEF ProcessInit
<1>2. AInv /\ [ProcessNext]_<<vars, aiqVars>> => AInv'
  <2> SUFFICES ASSUME AInv, [ProcessNext]_<<vars, aiqVars>> PROVE AInv'
    OBVIOUS
  <2>1. CASE ContextStep
    BY <2>1, ContextsInductive DEF ContextStep
  <2>2. CASE SessionStep \/ UNCHANGED <<vars, aiqVars>>
    <3>1. UNCHANGED aiqVars
      BY <2>2 DEF SessionStep, ContextsAfterExit, aiqVars
    <3>2. QED
      BY <3>1 DEF aiqVars, AInv, AiqTypeOK, Agrees, Orphan
  <2>3. QED
    BY <2>1, <2>2 DEF ProcessNext
<1>3. AInv => ContextsAgree
  BY DEF AInv, Agrees, Orphan, ContextsAgree
<1>4. QED
  BY <1>1, <1>2, <1>3, PTL DEF ProcessSpec
=============================================================================
