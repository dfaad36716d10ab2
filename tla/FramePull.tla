------------------------------- MODULE FramePull -------------------------------
(***************************************************************************)
(* The frame calls of the stub: threads that get frames of a VI channel,   *)
(* of the channels of a VPSS group or streams of an encoder channel, with  *)
(* timeouts.  One mutex (STATE) and one condition variable (COND) serve    *)
(* them all: a call tries to pull a frame from its sink, and through the   *)
(* binds from the source of the sink, and waits until somebody notifies,   *)
(* the next VI frame is due or its deadline has come.                      *)
(*                                                                         *)
(* The channels stay enabled and the group and the encoder started: the    *)
(* calls borrow the objects that would stop them.  The binds come and go.  *)
(* Calls that do not wait (sends, binds) are made by other threads.        *)
(***************************************************************************)
EXTENDS Integers, SequencesExt

CONSTANTS
  Thread,      \* the threads that get frames
  Chn,         \* the enabled channels of the VPSS group
  Vi, Venc,    \* the VI channel and the encoder channel
  Unbound,     \* the encoder has no source
  Depth,       \* the configured depth of each VPSS channel
  InputDepth,  \* INPUT_QUEUE_DEPTH
  Period,      \* ticks from one VI frame to the next
  Timeouts,    \* the timeouts of calls that have one; 0 does not wait
  MaxTime,     \* bound: the clock
  MaxSends     \* bound: frames accepted from users

ASSUME SinksAssumption ==
  Vi # Venc /\ Vi \notin Chn /\ Venc \notin Chn /\ Unbound \notin Chn \cup {Vi}
ASSUME DepthAssumption == Depth \in [Chn -> Nat] /\ InputDepth \in Nat \ {0}
ASSUME TimeAssumption ==
  /\ Period \in Nat \ {0} /\ MaxTime \in Nat /\ MaxSends \in Nat
  /\ Timeouts \subseteq Nat

VARIABLES
  now,       \* Instant::now()
  nextDue,   \* ViChn::next_due, or NoDue
  seq,       \* ViChn::seq
  lastTwo,   \* history: when the last two VI frames were made
  sends,     \* frames accepted from users
  queue,     \* VpssChn::queue and VencChn::queue
  taken,     \* history: the last frame taken out of each queue
  viBound,   \* the VPSS group is bound to the VI channel
  vencBind,  \* the source of the encoder channel, or Unbound
  pc,        \* where each thread is in pull_blocking
  sink,      \* what it gets frames of
  deadline,  \* until when
  wakeAt     \* when wait() times out

viVars == <<nextDue, seq, lastTwo>>
frameVars == <<viVars, queue, taken>>
bindVars == <<viBound, vencBind>>
callVars == <<pc, sink, deadline, wakeAt>>
vars == <<now, frameVars, sends, bindVars, callVars>>

Sink == Chn \cup {Vi, Venc}
Queued == Chn \cup {Venc}
NoDue == -1
Never == MaxTime + Period + 1   \* later than any instant a call meets
Instants == 0 .. Never

Pc == {"idle",      \* no call
       "trying",    \* in a call, about to attempt a pull
       "sleeping"}  \* in wait()

Limit(c) == IF Depth[c] = 0 THEN 1 ELSE Depth[c]

(* The number of the newest frame: every frame made or sent is new. *)
Frames == seq + sends

Init ==
  /\ now = 0 /\ nextDue = NoDue /\ seq = 0 /\ lastTwo = <<NoDue, NoDue>>
  /\ sends = 0
  /\ queue = [s \in Queued |-> <<>>] /\ taken = [s \in Queued |-> 0]
  /\ viBound = FALSE /\ vencBind = Unbound
  /\ pc = [t \in Thread |-> "idle"] /\ sink = [t \in Thread |-> Vi]
  /\ deadline = [t \in Thread |-> 0] /\ wakeAt = [t \in Thread |-> 0]

-----------------------------------------------------------------------------
(* What a pull finds. *)

Due == IF nextDue = NoDue THEN now ELSE nextDue

(* pull_bound: the sink asks the source it is bound to.                    *)
FedByVi(s) ==
  \/ s = Vi
  \/ s \in Chn /\ viBound
  \/ s = Venc /\ (vencBind = Vi \/ (vencBind \in Chn /\ viBound))

(* The queue from which a pull of s takes a frame before it asks VI. *)
QueuesOf(s) == ({s} \cup (IF s = Venc THEN {vencBind} ELSE {})) \cap Queued

Waiting(s) == \E q \in QueuesOf(s) : queue[q] # <<>>

Ready(s) == Waiting(s) \/ (FedByVi(s) /\ now >= Due)

(* Mutant of Hint: NotYet says nothing of the next frame. *)
HintMissing(s) == Never

(* Pull::NotYet: when a frame is expected. *)
Hint(s) == IF FedByVi(s) THEN Due ELSE Never

-----------------------------------------------------------------------------
(* Frames. *)

(* Mutant of Push: a full queue drops the new frame. *)
PushRefuses(c, f) ==
  IF Len(queue[c]) >= Limit(c) THEN queue[c] ELSE Append(queue[c], f)

(* VpssGrp::process: the frame goes to all channels; a full queue drops its *)
(* oldest.                                                                  *)
Push(c, f) ==
  LET all == Append(queue[c], f)
  IN  IF Len(all) > Limit(c) THEN Tail(all) ELSE all

Process(f) == [s \in Queued |-> IF s \in Chn THEN Push(s, f) ELSE queue[s]]

(* Mutants of MakeFrame: the next frame is due at once, or a pause is made  *)
(* up for.                                                                  *)
MakeUnpaced ==
  /\ now >= Due
  /\ nextDue' = now
  /\ seq' = seq + 1
  /\ lastTwo' = <<lastTwo[2], now>>
MakeBurst ==
  /\ now >= Due
  /\ nextDue' = Due + Period
  /\ seq' = seq + 1
  /\ lastTwo' = <<lastTwo[2], now>>

(* vi::pull, when the frame is due. *)
MakeFrame ==
  /\ now >= Due
  /\ nextDue' = IF Due + Period > now THEN Due + Period ELSE now
  /\ seq' = seq + 1
  /\ lastTwo' = <<lastTwo[2], now>>

PullVi == MakeFrame /\ UNCHANGED <<queue, taken>>

(* Mutant of TakeFrom: pop_back for pop_front. *)
TakeNewest(q, qs) ==
  /\ queue' = [qs EXCEPT ![q] = Front(@)]
  /\ taken' = [taken EXCEPT ![q] = Last(qs[q])]

TakeFrom(q, qs) ==
  /\ queue' = [qs EXCEPT ![q] = Tail(@)]
  /\ taken' = [taken EXCEPT ![q] = Head(qs[q])]

(* vpss::pull *)
PullVpss(c) ==
  \/ queue[c] # <<>> /\ TakeFrom(c, queue) /\ UNCHANGED viVars
  \/ queue[c] = <<>> /\ viBound /\ MakeFrame /\ TakeFrom(c, Process(Frames + 1))

(* venc::pull *)
PullVenc ==
  \/ queue[Venc] # <<>> /\ TakeFrom(Venc, queue) /\ UNCHANGED viVars
  \/ queue[Venc] = <<>> /\ vencBind = Vi /\ PullVi
  \/ queue[Venc] = <<>> /\ vencBind \in Chn /\ PullVpss(vencBind)

Pull(s) ==
  \/ s = Vi /\ PullVi
  \/ s \in Chn /\ PullVpss(s)
  \/ s = Venc /\ PullVenc

-----------------------------------------------------------------------------
(* Calls that get a frame. *)

(* RK_MPI_VI_GetChnFrame, RK_MPI_VPSS_GetChnFrame or RK_MPI_VENC_GetStream, *)
(* up to the lock.                                                          *)
Call(t, s, d) ==
  /\ pc[t] = "idle"
  /\ pc' = [pc EXCEPT ![t] = "trying"]
  /\ sink' = [sink EXCEPT ![t] = s]
  /\ deadline' = [deadline EXCEPT ![t] = d]
  /\ UNCHANGED <<now, frameVars, sends, bindVars, wakeAt>>

Deadlines == {now + d : d \in {e \in Timeouts : now + e <= MaxTime}} \cup {Never}

Return(t) ==
  /\ pc' = [pc EXCEPT ![t] = "idle"]
  /\ sink' = [sink EXCEPT ![t] = Vi]
  /\ deadline' = [deadline EXCEPT ![t] = 0]
  /\ wakeAt' = [wakeAt EXCEPT ![t] = 0]

(* The deadline check and wait() read the clock after the pull has. *)
Clock == {now, now + 1} \cap (0 .. MaxTime)

Sleep(t, until) ==
  /\ pc' = [pc EXCEPT ![t] = "sleeping"]
  /\ wakeAt' = [wakeAt EXCEPT ![t] = until]
  /\ UNCHANGED <<sink, deadline>>

(* Mutant of Earlier: the hint replaces the deadline. *)
HintOnly(a, b) == b

Earlier(a, b) == IF a < b THEN a ELSE b

GetFrame(t) ==
  /\ pc[t] = "trying"
  /\ Pull(sink[t])
  /\ Return(t)
  /\ UNCHANGED <<now, sends, bindVars>>

(* Pull::NotYet *)
GetNothing(t) ==
  /\ pc[t] = "trying"
  /\ ~Ready(sink[t])
  /\ now' \in Clock
  /\ \/ now' >= deadline[t] /\ Return(t)   \* BUF_EMPTY
     \/ now' < deadline[t] /\ Sleep(t, Earlier(deadline[t], Hint(sink[t])))
  /\ UNCHANGED <<frameVars, sends, bindVars>>

Try(t) == GetFrame(t) \/ GetNothing(t)

Retry(t) ==
  /\ pc' = [pc EXCEPT ![t] = "trying"]
  /\ wakeAt' = [wakeAt EXCEPT ![t] = 0]
  /\ UNCHANGED <<now, frameVars, sends, bindVars, sink, deadline>>

(* wait_timeout times out. *)
TimeOut(t) == pc[t] = "sleeping" /\ now >= wakeAt[t] /\ Retry(t)

(* A wait may return for no reason, or be notified of a release. *)
WakeUp(t) == pc[t] = "sleeping" /\ Retry(t)

-----------------------------------------------------------------------------
(* Calls that do not wait. *)

Sleepers == {t \in Thread : pc[t] = "sleeping"}

(* COND.notify_all() *)
NotifyAll ==
  /\ pc' = [t \in Thread |-> IF t \in Sleepers THEN "trying" ELSE pc[t]]
  /\ wakeAt' = [t \in Thread |-> IF t \in Sleepers THEN 0 ELSE wakeAt[t]]
  /\ UNCHANGED <<sink, deadline>>

(* RK_MPI_VPSS_SendFrame *)
SendVpss ==
  /\ sends < MaxSends
  /\ sends' = sends + 1
  /\ queue' = Process(Frames + 1)
  /\ NotifyAll
  /\ UNCHANGED <<now, viVars, taken, bindVars>>

(* RK_MPI_VENC_SendFrame; a full queue refuses (BUF_FULL). *)
SendVenc ==
  /\ sends < MaxSends
  /\ Len(queue[Venc]) < InputDepth
  /\ sends' = sends + 1
  /\ queue' = [queue EXCEPT ![Venc] = Append(@, Frames + 1)]
  /\ NotifyAll
  /\ UNCHANGED <<now, viVars, taken, bindVars>>

(* Mutant of BindVpss: nobody is notified. *)
BindVpssSilent ==
  /\ ~viBound
  /\ viBound' = TRUE
  /\ UNCHANGED <<now, frameVars, sends, vencBind, callVars>>

(* RK_MPI_SYS_Bind and RK_MPI_SYS_UnBind; a second bind is refused (EXIST). *)
BindVpss ==
  /\ ~viBound
  /\ viBound' = TRUE
  /\ NotifyAll
  /\ UNCHANGED <<now, frameVars, sends, vencBind>>

UnbindVpss ==
  /\ viBound
  /\ viBound' = FALSE
  /\ UNCHANGED <<now, frameVars, sends, vencBind, callVars>>

BindVenc(s) ==
  /\ vencBind = Unbound
  /\ vencBind' = s
  /\ NotifyAll
  /\ UNCHANGED <<now, frameVars, sends, viBound>>

UnbindVenc ==
  /\ vencBind # Unbound
  /\ vencBind' = Unbound
  /\ UNCHANGED <<now, frameVars, sends, viBound, callVars>>

Tick ==
  /\ now < MaxTime
  /\ now' = now + 1
  /\ UNCHANGED <<frameVars, sends, bindVars, callVars>>

-----------------------------------------------------------------------------
Next ==
  \/ \E t \in Thread :
       \/ \E s \in Sink, d \in Deadlines : Call(t, s, d)
       \/ Try(t)
       \/ TimeOut(t)
       \/ WakeUp(t)
  \/ SendVpss \/ SendVenc
  \/ BindVpss \/ UnbindVpss
  \/ \E s \in Chn \cup {Vi} : BindVenc(s)
  \/ UnbindVenc
  \/ Tick

Spec == Init /\ [][Next]_vars

(* Time passes, a thread in a call gets the mutex, a wait that is over ends. *)
Fairness == WF_vars(Tick) /\ \A t \in Thread : WF_vars(Try(t)) /\ WF_vars(TimeOut(t))

FairSpec == Spec /\ Fairness

-----------------------------------------------------------------------------
(* The variables have their types; no queue exceeds its limit. *)
TypeOK ==
  /\ now \in 0 .. MaxTime
  /\ nextDue \in Nat \cup {NoDue} /\ seq \in Nat /\ sends \in 0 .. MaxSends
  /\ lastTwo \in (Nat \cup {NoDue}) \X (Nat \cup {NoDue})
  /\ queue \in [Queued -> Seq(Nat)] /\ taken \in [Queued -> Nat]
  /\ \A c \in Chn : Len(queue[c]) <= Limit(c)
  /\ Len(queue[Venc]) <= InputDepth
  /\ viBound \in BOOLEAN /\ vencBind \in Chn \cup {Vi, Unbound}
  /\ pc \in [Thread -> Pc] /\ sink \in [Thread -> Sink]
  /\ deadline \in [Thread -> Instants] /\ wakeAt \in [Thread -> Instants]

(* No wakeup is lost: a thread sleeps on although its pull would succeed   *)
(* only until the timeout it has already reached (state.rs, wait).  UnBind *)
(* notifies nobody, and a pull of one VPSS channel fills the queues of the *)
(* others without a notification.                                          *)
NoLostWakeup ==
  \A t \in Thread : pc[t] = "sleeping" /\ Ready(sink[t]) => now >= wakeAt[t]

(* Every queue hands its frames out in the order they were made, whoever   *)
(* fills and drains it, although VPSS queues drop frames.                  *)
FramesInOrder ==
  \A s \in Queued : \A i \in 1 .. Len(queue[s]) :
    /\ taken[s] < queue[s][i]
    /\ \A j \in 1 .. (i - 1) : queue[s][j] < queue[s][i]

(* The newest frame the group processed is either still queued in a channel *)
(* or was the last one taken from it: however slow its reader, no channel   *)
(* falls behind the others for good (vpss.rs, VpssGrp::process).            *)
NewestOf(c) == IF queue[c] = <<>> THEN taken[c] ELSE Last(queue[c])
NewestIsKept == \A c, d \in Chn : NewestOf(c) = NewestOf(d)

(* The VI channel keeps its rate over any number of pulls, through whatever *)
(* sinks, and the next frame is never more than a period away (vi.rs, pull).*)
PacedFrames ==
  nextDue # NoDue => seq * Period <= nextDue /\ nextDue <= now + Period

(* After a pause there is no burst: of any three frames in a row, the last *)
(* is made at least a period after the first (vi.rs, pull: max(now)).      *)
NoBurst == [][seq' # seq /\ lastTwo[1] # NoDue => now >= lastTwo[1] + Period]_vars

(* A call with a timeout returns, whatever becomes of the binds. *)
CallsReturn ==
  \A t \in Thread : pc[t] # "idle" /\ deadline[t] # Never ~> pc[t] = "idle"

(* A frame that can be had does not wait for ever while a thread waits for *)
(* it: it is taken, or can no longer be had, or nobody waits any more.     *)
Wanted(s) == Ready(s) /\ \E t \in Thread : pc[t] # "idle" /\ sink[t] = s
WantedFramesAreTaken == \A s \in Sink : Wanted(s) ~> ~Wanted(s)
=============================================================================
