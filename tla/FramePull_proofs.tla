--------------------------- MODULE FramePull_proofs ---------------------------
(***************************************************************************)
(* Machine-checked proofs about FramePull, for any number of threads and   *)
(* VPSS channels, any depths, period, timeouts and bounds.                 *)
(***************************************************************************)
EXTENDS FramePull, SequenceTheorems, TLAPS

-----------------------------------------------------------------------------
(* What a step does to the frames. *)

FromQueue(q) == queue[q] # <<>> /\ TakeFrom(q, queue) /\ UNCHANGED viVars
ThroughGroup(c) ==
  queue[c] = <<>> /\ viBound /\ MakeFrame /\ TakeFrom(c, Process(Frames + 1))

LEMMA PullCases ==
  ASSUME NEW s \in Sink, Pull(s)
  PROVE  \/ PullVi
         \/ \E q \in Queued : FromQueue(q)
         \/ \E c \in Chn : ThroughGroup(c)
<1>1. CASE s = Venc /\ PullVenc
  BY <1>1 DEF PullVenc, PullVpss, FromQueue, ThroughGroup, Queued
<1>2. CASE s \in Chn /\ PullVpss(s)
  BY <1>2 DEF PullVpss, FromQueue, ThroughGroup, Queued
<1>3. CASE s = Vi /\ PullVi
  BY <1>3
<1>4. QED
  BY <1>1, <1>2, <1>3 DEF Pull

(* Steps that leave the frames alone. *)
Elsewhere ==
  \/ \E t \in Thread :
       \/ \E s \in Sink, d \in Deadlines : Call(t, s, d)
       \/ GetNothing(t) \/ TimeOut(t) \/ WakeUp(t)
  \/ BindVpss \/ UnbindVpss
  \/ \E s \in Chn \cup {Vi} : BindVenc(s)
  \/ UnbindVenc
  \/ Tick
  \/ UNCHANGED vars

Getting(t) == Return(t) /\ UNCHANGED <<now, sends, bindVars>>

LEMMA StepCases ==
  ASSUME TypeOK, [Next]_vars
  PROVE  \/ \E t \in Thread : pc[t] = "trying" /\ Getting(t) /\ PullVi
         \/ \E t \in Thread, q \in Queued :
              pc[t] = "trying" /\ Getting(t) /\ FromQueue(q)
         \/ \E t \in Thread, c \in Chn :
              pc[t] = "trying" /\ Getting(t) /\ ThroughGroup(c)
         \/ SendVpss \/ SendVenc
         \/ Elsewhere
<1>1. ASSUME NEW t \in Thread, GetFrame(t)
      PROVE  \/ pc[t] = "trying" /\ Getting(t) /\ PullVi
             \/ \E q \in Queued : pc[t] = "trying" /\ Getting(t) /\ FromQueue(q)
             \/ \E c \in Chn : pc[t] = "trying" /\ Getting(t) /\ ThroughGroup(c)
  <2>1. sink[t] \in Sink
    BY DEF TypeOK
  <2>2. pc[t] = "trying" /\ Getting(t) /\ Pull(sink[t])
    BY <1>1 DEF GetFrame, Getting
  <2>3. QED
    BY <2>1, <2>2, PullCases
<1>2. QED
  BY <1>1 DEF Next, Try, Elsewhere

LEMMA ElsewhereFrames == Elsewhere => UNCHANGED <<frameVars, sends>>
BY DEF Elsewhere, Call, GetNothing, TimeOut, WakeUp, Retry, BindVpss,
       UnbindVpss, BindVenc, UnbindVenc, Tick, vars

-----------------------------------------------------------------------------
(* The queues. *)

LEMMA TailFacts ==
  ASSUME NEW q \in Seq(Nat), q # <<>>
  PROVE  /\ Tail(q) \in Seq(Nat) /\ Head(q) \in Nat /\ Head(q) = q[1]
         /\ Len(q) \in Nat \ {0} /\ Len(Tail(q)) = Len(q) - 1
         /\ \A i \in 1 .. (Len(q) - 1) : Tail(q)[i] = q[i + 1]
OBVIOUS

LEMMA PushFacts ==
  ASSUME NEW c \in Chn, NEW f \in Nat, queue[c] \in Seq(Nat),
         Len(queue[c]) <= Limit(c)
  PROVE  /\ Push(c, f) \in Seq(Nat)
         /\ Len(Push(c, f)) \in 1 .. Limit(c)
         /\ Push(c, f)[Len(Push(c, f))] = f
         /\ \E k \in {0, 1} :
              /\ Len(Push(c, f)) = Len(queue[c]) + 1 - k
              /\ \A i \in 1 .. (Len(queue[c]) - k) :
                   Push(c, f)[i] = queue[c][i + k]
<1> DEFINE all == Append(queue[c], f)
<1>1. Limit(c) \in Nat \ {0}
  BY DepthAssumption DEF Limit
<1>2. /\ all \in Seq(Nat) /\ Len(all) = Len(queue[c]) + 1
      /\ all[Len(all)] = f
      /\ \A i \in 1 .. Len(queue[c]) : all[i] = queue[c][i]
  OBVIOUS
<1>3. CASE Len(all) > Limit(c)
  <2>1. Push(c, f) = Tail(all)
    BY <1>3 DEF Push
  <2> HIDE DEF all
  <2>2. /\ Tail(all) \in Seq(Nat) /\ Len(Tail(all)) = Len(queue[c])
        /\ \A i \in 1 .. Len(queue[c]) : Tail(all)[i] = all[i + 1]
    <3>1. all # <<>>
      BY <1>2
    <3>2. QED
      BY <1>2, <3>1, TailFacts
  <2>3. Len(queue[c]) \in Nat \ {0} /\ Len(queue[c]) = Limit(c)
    BY <1>1, <1>2, <1>3
  <2>4. Tail(all)[Len(queue[c])] = f
    BY <1>2, <2>2, <2>3
  <2>5. ASSUME NEW i \in 1 .. (Len(queue[c]) - 1)
        PROVE  Tail(all)[i] = queue[c][i + 1]
    <3>1. i \in 1 .. Len(queue[c]) /\ i + 1 \in 1 .. Len(queue[c])
      BY <2>3
    <3>2. QED
      BY <1>2, <2>2, <3>1
  <2>6. QED
    BY <1>1, <2>1, <2>2, <2>3, <2>4, <2>5
<1>4. CASE ~(Len(all) > Limit(c))
  <2>1. Push(c, f) = all
    BY <1>4 DEF Push
  <2> HIDE DEF all
  <2>2. QED
    BY <1>1, <1>2, <1>4, <2>1
<1>5. QED
  BY <1>3, <1>4

QueueTypes ==
  /\ queue \in [Queued -> Seq(Nat)] /\ taken \in [Queued -> Nat]
  /\ \A c \in Chn : Len(queue[c]) <= Limit(c)
  /\ Len(queue[Venc]) <= InputDepth

LEMMA ProcessFacts ==
  ASSUME QueueTypes, NEW f \in Nat
  PROVE  /\ Process(f) \in [Queued -> Seq(Nat)]
         /\ \A c \in Chn : Process(f)[c] = Push(c, f)
         /\ Process(f)[Venc] = queue[Venc]
<1>1. \A c \in Chn : Push(c, f) \in Seq(Nat)
  BY PushFacts DEF QueueTypes, Queued
<1>2. Venc \notin Chn
  BY SinksAssumption
<1>3. QED
  BY <1>1, <1>2 DEF Process, Queued, QueueTypes

LEMMA LimitsAreNaturals == \A c \in Chn : Limit(c) \in Nat \ {0}
BY DepthAssumption DEF Limit

(* pop_front of a queue that pushes have been made to. *)
LEMMA TakeTypes ==
  ASSUME QueueTypes, NEW q \in Queued, NEW qs \in [Queued -> Seq(Nat)],
         qs[q] # <<>>, TakeFrom(q, qs),
         \A c \in Chn : Len(qs[c]) <= Limit(c), Len(qs[Venc]) <= InputDepth
  PROVE  QueueTypes'
<1>1. /\ Tail(qs[q]) \in Seq(Nat) /\ Head(qs[q]) \in Nat
      /\ Len(Tail(qs[q])) <= Len(qs[q])
  BY TailFacts
<1>2. /\ queue' = [qs EXCEPT ![q] = Tail(qs[q])]
      /\ taken' = [taken EXCEPT ![q] = Head(qs[q])]
  BY DEF TakeFrom
<1>3. queue' \in [Queued -> Seq(Nat)] /\ taken' \in [Queued -> Nat]
  BY <1>1, <1>2 DEF QueueTypes
<1>4. \A s \in Queued : Len(queue'[s]) <= Len(qs[s])
  BY <1>1, <1>2
<1>5. \A s \in Queued : Len(qs[s]) \in Nat /\ Len(queue'[s]) \in Nat
  BY <1>3
<1>6. \A c \in Chn : Len(queue'[c]) <= Limit(c)
  BY <1>4, <1>5, LimitsAreNaturals DEF Queued
<1>7. Len(queue'[Venc]) <= InputDepth
  BY <1>4, <1>5, DepthAssumption DEF Queued
<1>8. QED
  BY <1>3, <1>6, <1>7 DEF QueueTypes, Limit

LEMMA QueueTypesInductive ==
  ASSUME TypeOK, [Next]_vars
  PROVE  QueueTypes'
<1>1. QueueTypes /\ Frames + 1 \in Nat
  BY TimeAssumption DEF TypeOK, QueueTypes, Frames
<1>2. \A c \in Chn : /\ Push(c, Frames + 1) \in Seq(Nat)
                     /\ Len(Push(c, Frames + 1)) \in 1 .. Limit(c)
  BY <1>1, PushFacts DEF QueueTypes, Queued
<1>3. ASSUME NEW q \in Queued, FromQueue(q)
      PROVE  QueueTypes'
  BY <1>1, <1>3, TakeTypes DEF FromQueue, QueueTypes
<1>4. ASSUME NEW c \in Chn, ThroughGroup(c)
      PROVE  QueueTypes'
  <2> DEFINE qs == Process(Frames + 1)
  <2>1. /\ qs \in [Queued -> Seq(Nat)]
        /\ \A d \in Chn : qs[d] = Push(d, Frames + 1)
        /\ qs[Venc] = queue[Venc]
    BY <1>1, ProcessFacts
  <2>2. TakeFrom(c, qs)
    BY <1>4 DEF ThroughGroup
  <2> HIDE DEF qs
  <2>3. qs[c] # <<>>
    BY <1>2, <2>1, LimitsAreNaturals
  <2>4. \A d \in Chn : Len(qs[d]) <= Limit(d)
    BY <1>2, <2>1, LimitsAreNaturals
  <2>5. QED
    BY <1>1, <2>1, <2>2, <2>3, <2>4, TakeTypes DEF QueueTypes, Queued
<1>5. CASE SendVpss
  <2>1. /\ queue' \in [Queued -> Seq(Nat)]
        /\ \A d \in Chn : queue'[d] = Push(d, Frames + 1)
        /\ queue'[Venc] = queue[Venc]
    BY <1>1, <1>5, ProcessFacts DEF SendVpss
  <2>2. \A d \in Chn : Len(queue'[d]) <= Limit(d)
    BY <1>2, <2>1, LimitsAreNaturals
  <2>3. QED
    BY <1>1, <1>5, <2>1, <2>2 DEF SendVpss, QueueTypes, Limit
<1>6. CASE SendVenc
  <2>1. Venc \in Queued /\ Venc \notin Chn /\ queue[Venc] \in Seq(Nat)
    BY <1>1, SinksAssumption DEF Queued, QueueTypes
  <2>2. /\ queue' = [queue EXCEPT ![Venc] = Append(queue[Venc], Frames + 1)]
        /\ Len(queue[Venc]) < InputDepth /\ taken' = taken
    BY <1>6 DEF SendVenc
  <2>3. /\ Append(queue[Venc], Frames + 1) \in Seq(Nat)
        /\ Len(Append(queue[Venc], Frames + 1)) <= InputDepth
    BY <1>1, <2>1, <2>2, DepthAssumption
  <2>4. \A c \in Chn : c \in Queued /\ queue'[c] = queue[c]
    BY <1>1, <2>1, <2>2 DEF Queued, QueueTypes
  <2>5. QED
    BY <1>1, <2>1, <2>2, <2>3, <2>4 DEF QueueTypes, Limit
<1>7. CASE UNCHANGED <<queue, taken>>
  BY <1>1, <1>7 DEF QueueTypes, Limit
<1>8. QED
  BY <1>3, <1>4, <1>5, <1>6, <1>7, StepCases, ElsewhereFrames
  DEF PullVi, frameVars

-----------------------------------------------------------------------------
(* The clock and the calls. *)

ClockTypes ==
  /\ now \in 0 .. MaxTime
  /\ nextDue \in Nat \cup {NoDue} /\ seq \in Nat /\ sends \in 0 .. MaxSends
  /\ lastTwo \in (Nat \cup {NoDue}) \X (Nat \cup {NoDue})
  /\ viBound \in BOOLEAN /\ vencBind \in Chn \cup {Vi, Unbound}

CallTypes ==
  /\ pc \in [Thread -> Pc] /\ sink \in [Thread -> Sink]
  /\ deadline \in [Thread -> Instants] /\ wakeAt \in [Thread -> Instants]

LEMMA TypeParts == TypeOK <=> ClockTypes /\ QueueTypes /\ CallTypes
BY DEF TypeOK, ClockTypes, QueueTypes, CallTypes

LEMMA ClockTypesInductive ==
  ASSUME TypeOK, [Next]_vars
  PROVE  ClockTypes'
<1> USE TypeParts DEF ClockTypes, viVars, bindVars
<1>1. CASE MakeFrame /\ UNCHANGED <<now, sends, bindVars>>
  BY <1>1, TimeAssumption DEF MakeFrame, Due
<1>2. CASE UNCHANGED <<now, viVars, sends, bindVars>>
  BY <1>2
<1>3. CASE SendVpss \/ SendVenc
  BY <1>3, TimeAssumption DEF SendVpss, SendVenc
<1>4. CASE Elsewhere
  <2>1. ASSUME NEW t \in Thread, GetNothing(t)
        PROVE  ClockTypes'
    BY <2>1, TimeAssumption DEF GetNothing, Clock, frameVars
  <2>2. CASE Tick
    BY <2>2, TimeAssumption DEF Tick, frameVars
  <2>3. CASE BindVpss \/ UnbindVpss
    BY <2>3 DEF BindVpss, UnbindVpss, frameVars
  <2>4. CASE UnbindVenc \/ \E s \in Chn \cup {Vi} : BindVenc(s)
    BY <2>4 DEF BindVenc, UnbindVenc, frameVars
  <2>5. ASSUME NEW t \in Thread, NEW s \in Sink, NEW d \in Deadlines, Call(t, s, d)
        PROVE  ClockTypes'
    BY <2>5 DEF Call, frameVars
  <2>6. ASSUME NEW t \in Thread, TimeOut(t) \/ WakeUp(t)
        PROVE  ClockTypes'
    BY <2>6 DEF TimeOut, WakeUp, Retry, frameVars
  <2>7. CASE UNCHANGED vars
    BY <2>7 DEF vars, frameVars
  <2>8. QED
    BY <1>4, <2>1, <2>2, <2>3, <2>4, <2>5, <2>6, <2>7 DEF Elsewhere
<1>5. QED
  BY <1>1, <1>2, <1>3, <1>4, StepCases
  DEF PullVi, FromQueue, ThroughGroup, Getting

LEMMA Times ==
  /\ Never \in Nat /\ MaxTime < Never /\ Instants = 0 .. Never
  /\ TypeOK => now \in Instants /\ Due \in Nat
BY TimeAssumption DEF Never, Instants, TypeOK, Due, NoDue

LEMMA CallTypesInductive ==
  ASSUME TypeOK, [Next]_vars
  PROVE  CallTypes'
<1> USE TypeParts DEF CallTypes, Pc
<1>1. ASSUME NEW t \in Thread, Return(t)
      PROVE  CallTypes'
  BY <1>1, Times DEF Return, Sink
<1>2. ASSUME NEW t \in Thread, Retry(t)
      PROVE  CallTypes'
  BY <1>2, Times DEF Retry
<1>3. CASE NotifyAll
  BY <1>3, Times DEF NotifyAll, Sleepers
<1>4. ASSUME NEW t \in Thread, NEW s \in Sink, NEW d \in Deadlines, Call(t, s, d)
      PROVE  CallTypes'
  <2>1. d \in Instants
    BY Times, TimeAssumption DEF Deadlines, ClockTypes
  <2>2. QED
    BY <1>4, <2>1 DEF Call
<1>5. ASSUME NEW t \in Thread, GetNothing(t)
      PROVE  CallTypes'
  <2>1. Hint(sink[t]) \in Nat
    BY Times DEF Hint
  <2>2. Earlier(deadline[t], Hint(sink[t])) \in Instants
    BY <2>1, Times DEF Earlier
  <2>3. QED
    BY <1>1, <1>5, <2>2 DEF GetNothing, Sleep
<1>6. CASE UNCHANGED callVars
  BY <1>6 DEF callVars
<1>7. QED
  BY <1>1, <1>2, <1>3, <1>4, <1>5, <1>6, StepCases
  DEF Getting, SendVpss, SendVenc, Elsewhere, TimeOut, WakeUp, BindVpss,
      UnbindVpss, BindVenc, UnbindVenc, Tick, vars

LEMMA TypeInit == Init => TypeOK
<1> SUFFICES ASSUME Init PROVE TypeOK
  OBVIOUS
<1>1. ClockTypes
  <2>1. now \in 0 .. MaxTime /\ sends \in 0 .. MaxSends /\ seq \in Nat
    BY TimeAssumption DEF Init
  <2>2. /\ nextDue \in Nat \cup {NoDue} /\ vencBind \in Chn \cup {Vi, Unbound}
        /\ lastTwo \in (Nat \cup {NoDue}) \X (Nat \cup {NoDue})
        /\ viBound \in BOOLEAN
    BY DEF Init
  <2>3. QED
    BY <2>1, <2>2 DEF ClockTypes
<1>2. \A s \in Queued : queue[s] = <<>> /\ Len(queue[s]) = 0
  BY DEF Init
<1>3. QueueTypes
  BY <1>2, LimitsAreNaturals, DepthAssumption DEF Init, QueueTypes, Queued
<1>4. CallTypes
  BY Times DEF Init, CallTypes, Pc, Sink
<1>5. QED
  BY <1>1, <1>3, <1>4, TypeParts

LEMMA TypeStep == TypeOK /\ [Next]_vars => TypeOK'
<1> SUFFICES ASSUME TypeOK, [Next]_vars PROVE TypeOK'
  OBVIOUS
<1>1. ClockTypes' /\ QueueTypes' /\ CallTypes'
  BY ClockTypesInductive, QueueTypesInductive, CallTypesInductive
<1>2. QED
  BY <1>1 DEF TypeOK, ClockTypes, QueueTypes, CallTypes, Limit

(* Every queue stays within its limit, and all variables within their      *)
(* types: no deadline and no timeout lies after the last instant.          *)
THEOREM TypeCorrect == Spec => []TypeOK
BY TypeInit, TypeStep, PTL DEF Spec

-----------------------------------------------------------------------------
(* The pace of the VI channel. *)

Clocked ==
  /\ nextDue = NoDue => seq = 0 /\ lastTwo = <<NoDue, NoDue>>
  /\ PacedFrames
  /\ nextDue # NoDue =>
       /\ lastTwo[2] # NoDue => lastTwo[2] <= nextDue
       /\ lastTwo[1] # NoDue => lastTwo[1] + Period <= nextDue

LEMMA OnePeriodMore ==
  ASSUME NEW n \in Nat
  PROVE  (n + 1) * Period = n * Period + Period /\ n * Period \in Nat
BY TimeAssumption

LEMMA LaterStill ==
  ASSUME NEW a \in Nat, NEW b \in Nat, NEW c \in Nat, NEW p \in Nat,
         a <= b + p, c >= b
  PROVE  a <= c + p
OBVIOUS

(* Time goes on, and a frame may be made. *)
LEMMA FrameStep ==
  ASSUME TypeOK, [Next]_vars
  PROVE  \/ MakeFrame /\ now' = now
         \/ UNCHANGED viVars /\ now' \in {now, now + 1}
BY StepCases
DEF PullVi, FromQueue, ThroughGroup, Getting, SendVpss, SendVenc, Elsewhere,
    Call, GetNothing, Clock, TimeOut, WakeUp, Retry, BindVpss, UnbindVpss,
    BindVenc, UnbindVenc, Tick, vars, frameVars

LEMMA ClockedStep == TypeOK /\ Clocked /\ [Next]_vars => Clocked'
<1> SUFFICES ASSUME TypeOK, Clocked, [Next]_vars PROVE Clocked'
  OBVIOUS
<1>1. CASE MakeFrame /\ now' = now
  <2>1. /\ now \in Nat /\ seq \in Nat /\ Period \in Nat \ {0}
        /\ Due \in Nat /\ now >= Due
        /\ lastTwo[1] \in Nat \cup {NoDue} /\ lastTwo[2] \in Nat \cup {NoDue}
    BY <1>1, Times, TimeAssumption DEF MakeFrame, TypeOK
  <2>2. nextDue' = IF Due + Period > now THEN Due + Period ELSE now
    BY <1>1 DEF MakeFrame
  <2>3. nextDue' \in Nat /\ nextDue' >= Due + Period /\ nextDue' >= now /\ nextDue' <= now + Period
    BY <2>1, <2>2
  <2>4. seq' = seq + 1 /\ lastTwo'[1] = lastTwo[2] /\ lastTwo'[2] = now
    BY <1>1 DEF MakeFrame
  <2>5. seq * Period <= Due
    <3>1. CASE nextDue = NoDue
      <4>1. seq = 0 /\ 0 * Period = 0
        BY <2>1, <3>1 DEF Clocked
      <4>2. QED
        BY <2>1, <4>1
    <3>2. CASE nextDue # NoDue
      BY <3>2 DEF Clocked, PacedFrames, Due
    <3>3. QED
      BY <3>1, <3>2
  <2>6. seq' * Period <= nextDue'
    BY <2>1, <2>3, <2>4, <2>5, OnePeriodMore
  <2>7. lastTwo[2] # NoDue => lastTwo[2] + Period <= nextDue'
    BY <2>1, <2>3 DEF Clocked, Due
  <2>8. nextDue' # NoDue
    BY <2>3 DEF NoDue
  <2>9. QED
    BY <1>1, <2>3, <2>4, <2>6, <2>7, <2>8 DEF Clocked, PacedFrames
<1>2. CASE UNCHANGED viVars /\ now' \in {now, now + 1}
  <2>1. nextDue' = nextDue /\ seq' = seq /\ lastTwo' = lastTwo
    BY <1>2 DEF viVars
  <2>2. now \in Nat /\ nextDue \in Nat \cup {NoDue} /\ Period \in Nat
    BY TimeAssumption DEF TypeOK
  <2>3. nextDue # NoDue => nextDue <= now' + Period
    <3>1. PacedFrames
      BY DEF Clocked
    <3>2. nextDue # NoDue => nextDue <= now + Period
      BY <3>1, Zenon DEF PacedFrames
    <3>3. now' \in Nat /\ now' >= now
      BY <1>2, <2>2
    <3>4. ASSUME nextDue # NoDue
          PROVE  nextDue <= now' + Period
      <4>1. nextDue \in Nat /\ nextDue <= now + Period
        BY <2>2, <3>2, <3>4
      <4>2. QED
        BY <2>2, <3>3, <4>1, LaterStill
    <3>5. QED
      BY <3>4
  <2>4. PacedFrames'
    BY <2>1, <2>3 DEF Clocked, PacedFrames
  <2>5. QED
    BY <2>1, <2>4 DEF Clocked
<1>3. QED
  BY <1>1, <1>2, FrameStep

LEMMA ClockedInvariant == Spec => []Clocked
<1>1. Init => Clocked
  BY TimeAssumption DEF Init, Clocked, PacedFrames
<1>2. QED
  BY <1>1, ClockedStep, TypeCorrect, PTL DEF Spec

(* The VI channel makes no more frames than its period allows, and the     *)
(* next one is at most a period away (vi.rs, pull).                        *)
THEOREM FramesArePaced == Spec => []PacedFrames
<1>1. Clocked => PacedFrames
  BY DEF Clocked
<1>2. QED
  BY <1>1, ClockedInvariant, PTL

(* Of any three frames in a row, the last is made at least a period after  *)
(* the first, however long nobody has asked for one (vi.rs, pull).         *)
THEOREM PausesMakeNoBurst == Spec => NoBurst
<1>1. TypeOK /\ Clocked /\ [Next]_vars
        => [seq' # seq /\ lastTwo[1] # NoDue => now >= lastTwo[1] + Period]_vars
  <2> SUFFICES ASSUME TypeOK, Clocked, [Next]_vars,
                      seq' # seq, lastTwo[1] # NoDue
               PROVE  now >= lastTwo[1] + Period
    OBVIOUS
  <2>1. MakeFrame
    BY FrameStep DEF viVars
  <2>2. /\ now \in Nat /\ Due \in Nat /\ now >= Due /\ Period \in Nat
        /\ lastTwo[1] \in Nat \cup {NoDue}
    BY <2>1, Times, TimeAssumption DEF MakeFrame, TypeOK
  <2>3. nextDue # NoDue
    BY DEF Clocked
  <2>4. QED
    BY <2>2, <2>3 DEF Clocked, Due
<1>2. QED
  BY <1>1, ClockedInvariant, TypeCorrect, PTL DEF Spec, NoBurst

-----------------------------------------------------------------------------
(* Waiting. *)

(* A sleeping thread that VI can serve wakes up no later than the next     *)
(* frame is due; one whose queue has been filled should be awake.          *)
Fed == {s \in Sink : FedByVi(s)}
Filled == {s \in Sink : Waiting(s)}
SleepBound ==
  \A t \in Thread : pc[t] = "sleeping" =>
    /\ sink[t] \in Fed => nextDue # NoDue /\ wakeAt[t] <= nextDue
    /\ sink[t] \in Filled => wakeAt[t] <= now

LEMMA SleepBoundSuffices == TypeOK /\ SleepBound => NoLostWakeup
<1> SUFFICES ASSUME TypeOK, SleepBound, NEW t \in Thread,
                    pc[t] = "sleeping", Ready(sink[t])
             PROVE  now >= wakeAt[t]
  BY DEF NoLostWakeup
<1>1. now \in Nat /\ wakeAt[t] \in Nat /\ nextDue \in Nat \cup {NoDue}
  BY Times DEF TypeOK
<1>2. sink[t] \in Sink
  BY DEF TypeOK
<1>3. CASE Waiting(sink[t])
  BY <1>1, <1>2, <1>3 DEF SleepBound, Filled
<1>4. CASE FedByVi(sink[t]) /\ now >= Due
  BY <1>1, <1>2, <1>4 DEF SleepBound, Due, Fed
<1>5. QED
  BY <1>3, <1>4 DEF Ready

(* A step that only ends sleeps and takes sources and frames away keeps    *)
(* the bound.                                                              *)
LEMMA LessToWaitFor ==
  ASSUME TypeOK, SleepBound,
         \A t \in Thread : pc'[t] = "sleeping" =>
           pc[t] = "sleeping" /\ sink'[t] = sink[t] /\ wakeAt'[t] = wakeAt[t],
         now' \in {now, now + 1},
         Fed' \subseteq Fed, Filled' \subseteq Filled,
         nextDue' = nextDue \/ (nextDue' \in Nat /\ nextDue' >= Due)
  PROVE  SleepBound'
<1>1. SUFFICES ASSUME NEW t \in Thread, pc'[t] = "sleeping"
               PROVE  /\ sink'[t] \in Fed' => nextDue' # NoDue /\ wakeAt'[t] <= nextDue'
                      /\ sink'[t] \in Filled' => wakeAt'[t] <= now'
  BY DEF SleepBound
<1>2. /\ pc[t] = "sleeping" /\ sink'[t] = sink[t] /\ wakeAt'[t] = wakeAt[t]
      /\ wakeAt[t] \in Nat /\ now \in Nat /\ nextDue \in Nat \cup {NoDue}
  BY <1>1, Times DEF TypeOK
<1>3. ASSUME sink'[t] \in Fed'
      PROVE  nextDue' # NoDue /\ wakeAt'[t] <= nextDue'
  <2>1. nextDue # NoDue /\ wakeAt[t] <= nextDue /\ Due = nextDue
    BY <1>2, <1>3 DEF SleepBound, Due
  <2>2. QED
    BY <1>2, <2>1 DEF NoDue
<1>4. ASSUME sink'[t] \in Filled'
      PROVE  wakeAt'[t] <= now'
  BY <1>2, <1>4 DEF SleepBound
<1>5. QED
  BY <1>3, <1>4

LEMMA SleepBoundStep == TypeOK /\ SleepBound /\ [Next]_vars => SleepBound'
<1> SUFFICES ASSUME TypeOK, SleepBound, [Next]_vars PROVE SleepBound'
  OBVIOUS
<1> DEFINE NoNewSleep ==
      \A t \in Thread : pc'[t] = "sleeping" =>
        pc[t] = "sleeping" /\ sink'[t] = sink[t] /\ wakeAt'[t] = wakeAt[t]
<1>1. ASSUME NEW t \in Thread, Return(t)
      PROVE  NoNewSleep
  BY <1>1 DEF Return, TypeOK
<1>2. ASSUME NEW t \in Thread, Retry(t)
      PROVE  NoNewSleep
  BY <1>2 DEF Retry, TypeOK
<1>3. CASE NotifyAll
  BY <1>3 DEF NotifyAll, Sleepers, SleepBound, TypeOK
<1>4. ASSUME MakeFrame
      PROVE  nextDue' \in Nat /\ nextDue' >= Due /\ Due <= now
  BY <1>4, Times, TimeAssumption DEF MakeFrame, TypeOK
<1>5. UNCHANGED bindVars => Fed' = Fed
  BY DEF Fed, FedByVi, bindVars
<1>6. UNCHANGED <<queue, bindVars>> => Filled' = Filled
  BY DEF Filled, Waiting, QueuesOf, bindVars
<1> HIDE DEF NoNewSleep
<1>7. ASSUME NEW t \in Thread, Getting(t), PullVi
      PROVE  SleepBound'
  <2>1. NoNewSleep
    BY <1>1, <1>7 DEF Getting
  <2>2. now' = now /\ UNCHANGED <<queue, bindVars>> /\ MakeFrame
    BY <1>7 DEF Getting, PullVi
  <2>3. QED
    BY <1>4, <1>5, <1>6, <2>1, <2>2, LessToWaitFor DEF NoNewSleep
<1>8. ASSUME NEW t \in Thread, NEW q \in Queued, Getting(t), FromQueue(q)
      PROVE  SleepBound'
  <2>1. NoNewSleep
    BY <1>1, <1>8 DEF Getting
  <2>2. now' = now /\ UNCHANGED <<viVars, bindVars>>
    BY <1>8 DEF Getting, FromQueue
  <2>3. \A p \in Queued : queue'[p] # <<>> => queue[p] # <<>>
    BY <1>8 DEF FromQueue, TakeFrom, TypeOK
  <2>4. Filled' \subseteq Filled
    BY <2>2, <2>3 DEF Filled, Waiting, QueuesOf, bindVars
  <2>5. QED
    BY <1>5, <2>1, <2>2, <2>4, LessToWaitFor DEF NoNewSleep, viVars
<1>9. ASSUME NEW t \in Thread, NEW c \in Chn, Getting(t), ThroughGroup(c)
      PROVE  SleepBound'
  <2>1. NoNewSleep
    BY <1>1, <1>9 DEF Getting
  <2>2. now' = now /\ UNCHANGED bindVars /\ MakeFrame /\ viBound
    BY <1>9 DEF Getting, ThroughGroup
  <2>3. queue'[Venc] # <<>> => queue[Venc] # <<>>
    <3>1. TakeFrom(c, Process(Frames + 1)) /\ Venc # c
      BY <1>9, SinksAssumption DEF ThroughGroup
    <3>2. queue'[Venc] = Process(Frames + 1)[Venc]
      BY <3>1 DEF TakeFrom, Process, Queued
    <3>3. QED
      BY <3>2, SinksAssumption DEF Process, Queued
  <2>4. Filled' \subseteq Filled \cup Fed
    BY <2>2, <2>3 DEF Filled, Fed, FedByVi, Waiting, QueuesOf, bindVars, Sink, Queued
  <2>5. SUFFICES ASSUME NEW u \in Thread, pc'[u] = "sleeping"
                 PROVE  /\ sink'[u] \in Fed' => nextDue' # NoDue /\ wakeAt'[u] <= nextDue'
                        /\ sink'[u] \in Filled' => wakeAt'[u] <= now'
    BY DEF SleepBound
  <2>6. /\ pc[u] = "sleeping" /\ sink'[u] = sink[u] /\ wakeAt'[u] = wakeAt[u]
        /\ wakeAt[u] \in Nat /\ now \in Nat /\ nextDue \in Nat \cup {NoDue}
    BY <2>1, <2>5, Times DEF TypeOK, NoNewSleep
  <2>7. sink[u] \in Fed => nextDue # NoDue /\ wakeAt[u] <= nextDue /\ Due = nextDue
    BY <2>6 DEF SleepBound, Due
  <2>8. nextDue' \in Nat /\ nextDue' >= Due /\ Due <= now
    BY <1>4, <2>2
  <2>9. sink'[u] \in Fed' => nextDue' # NoDue /\ wakeAt'[u] <= nextDue'
    BY <1>5, <2>2, <2>6, <2>7, <2>8 DEF NoDue
  <2>10. sink'[u] \in Filled' => wakeAt'[u] <= now'
    <3>1. sink[u] \in Filled => wakeAt[u] <= now
      BY <2>6 DEF SleepBound
    <3>2. QED
      BY <2>2, <2>4, <2>6, <2>7, <2>8, <3>1
  <2>11. QED
    BY <2>9, <2>10
<1>10. CASE NotifyAll
  BY <1>10 DEF NotifyAll, Sleepers, SleepBound, TypeOK
<1>11. ASSUME NEW t \in Thread, GetNothing(t)
       PROVE  SleepBound'
  <2>1. /\ now' \in {now, now + 1} /\ UNCHANGED <<viVars, queue, bindVars>>
        /\ ~Ready(sink[t])
    BY <1>11 DEF GetNothing, Clock, frameVars
  <2>2. Fed' = Fed /\ Filled' = Filled /\ nextDue' = nextDue
    BY <1>5, <1>6, <2>1 DEF viVars
  <2>3. CASE Return(t)
    BY <1>1, <2>1, <2>2, <2>3, LessToWaitFor DEF NoNewSleep
  <2>4. CASE Sleep(t, Earlier(deadline[t], Hint(sink[t])))
    <3>1. now \in Nat /\ nextDue \in Nat \cup {NoDue} /\ deadline[t] \in Nat
      BY Times DEF TypeOK
    <3>2. sink[t] \notin Filled
      BY <2>1 DEF Ready, Filled
    <3>3. sink[t] \in Fed => nextDue # NoDue /\ Hint(sink[t]) = nextDue
      BY <2>1, <3>1 DEF Ready, Fed, Hint, Due
    <3>4. sink[t] \in Fed => Earlier(deadline[t], Hint(sink[t])) <= nextDue
      BY <3>1, <3>3 DEF Earlier
    <3>5. sink' = sink /\ wakeAt'[t] = Earlier(deadline[t], Hint(sink[t]))
      BY <2>4 DEF Sleep, TypeOK
    <3>6. ASSUME NEW u \in Thread, u # t, pc'[u] = "sleeping"
          PROVE  /\ sink[u] \in Fed => nextDue # NoDue /\ wakeAt'[u] <= nextDue
                 /\ sink[u] \in Filled => wakeAt'[u] <= now'
      <4>1. pc[u] = "sleeping" /\ wakeAt'[u] = wakeAt[u] /\ wakeAt[u] \in Nat
        BY <2>4, <3>6, Times DEF Sleep, TypeOK
      <4>2. QED
        BY <2>1, <3>1, <4>1 DEF SleepBound
    <3>7. QED
      BY <2>2, <3>2, <3>3, <3>4, <3>5, <3>6 DEF SleepBound
  <2>5. QED
    BY <1>11, <2>3, <2>4 DEF GetNothing
<1>12. ASSUME NEW t \in Thread, TimeOut(t) \/ WakeUp(t)
       PROVE  SleepBound'
  <2>1. NoNewSleep /\ now' = now /\ UNCHANGED <<viVars, queue, bindVars>>
    BY <1>2, <1>12 DEF TimeOut, WakeUp, Retry, frameVars
  <2>2. QED
    BY <1>5, <1>6, <2>1, LessToWaitFor DEF NoNewSleep, viVars
<1>13. ASSUME NEW t \in Thread, NEW s \in Sink, NEW d \in Deadlines, Call(t, s, d)
       PROVE  SleepBound'
  <2>1. NoNewSleep
    BY <1>13 DEF Call, TypeOK, NoNewSleep
  <2>2. now' = now /\ UNCHANGED <<viVars, queue, bindVars>>
    BY <1>13 DEF Call, frameVars
  <2>3. QED
    BY <1>5, <1>6, <2>1, <2>2, LessToWaitFor DEF NoNewSleep, viVars
<1>14. CASE UnbindVpss \/ UnbindVenc
  <2>1. NoNewSleep /\ now' = now /\ UNCHANGED <<viVars, queue>>
    BY <1>14 DEF UnbindVpss, UnbindVenc, frameVars, callVars, NoNewSleep
  <2>2. Fed' \subseteq Fed /\ Filled' \subseteq Filled
    <3>1. CASE UnbindVpss
      BY <2>1, <3>1 DEF UnbindVpss, Fed, Filled, FedByVi, Waiting, QueuesOf
    <3>2. CASE UnbindVenc
      BY <2>1, <3>2, SinksAssumption
      DEF UnbindVenc, Fed, Filled, FedByVi, Waiting, QueuesOf, Queued, Sink
    <3>3. QED
      BY <1>14, <3>1, <3>2
  <2>3. QED
    BY <2>1, <2>2, LessToWaitFor DEF NoNewSleep, viVars
<1>15. CASE Tick \/ UNCHANGED vars
  <2>1. /\ NoNewSleep /\ now' \in {now, now + 1}
        /\ UNCHANGED <<viVars, queue, bindVars>>
    BY <1>15 DEF Tick, vars, frameVars, callVars, NoNewSleep
  <2>2. QED
    BY <1>5, <1>6, <2>1, LessToWaitFor DEF NoNewSleep, viVars
<1>16. QED
  BY <1>7, <1>8, <1>9, <1>10, <1>11, <1>12, <1>13, <1>14, <1>15, StepCases
  DEF Elsewhere, SendVpss, SendVenc, BindVpss, BindVenc

(* No wakeup is lost, for any number of threads that wait for any sinks    *)
(* while the binds come and go: UnBind needs no notification, and neither  *)
(* does a pull that fills the queues of other VPSS channels, since whoever *)
(* waits for those sleeps no longer than until the next VI frame is due.   *)
THEOREM NoWakeupIsLost == Spec => []NoLostWakeup
<1>1. Init => SleepBound
  BY DEF Init, SleepBound
<1>2. QED
  BY <1>1, SleepBoundStep, SleepBoundSuffices, TypeCorrect, PTL DEF Spec

-----------------------------------------------------------------------------
(* The order of the frames. *)

Within(q, low, high) ==
  \A i \in 1 .. Len(q) :
    /\ low < q[i] /\ q[i] <= high
    /\ \A j \in 1 .. (i - 1) : q[j] < q[i]

Ordered ==
  \A s \in Queued : taken[s] <= Frames /\ Within(queue[s], taken[s], Frames)

LEMMA FramesGrow ==
  ASSUME TypeOK
  PROVE  /\ Frames \in Nat
         /\ MakeFrame /\ sends' = sends => Frames' = Frames + 1
         /\ SendVpss \/ SendVenc => Frames' = Frames + 1
         /\ UNCHANGED <<viVars, sends>> => Frames' = Frames
BY DEF TypeOK, Frames, MakeFrame, SendVpss, SendVenc, viVars

LEMMA TailWithin ==
  ASSUME NEW q \in Seq(Nat), q # <<>>, NEW low \in Nat, NEW high \in Nat,
         Within(q, low, high)
  PROVE  Within(Tail(q), Head(q), high) /\ Head(q) <= high
<1>1. 1 \in 1 .. Len(q) /\ Head(q) = q[1]
  BY TailFacts
<1>2. Head(q) <= high
  BY <1>1 DEF Within
<1>3. SUFFICES ASSUME NEW i \in 1 .. Len(Tail(q))
               PROVE  /\ Head(q) < Tail(q)[i] /\ Tail(q)[i] <= high
                      /\ \A j \in 1 .. (i - 1) : Tail(q)[j] < Tail(q)[i]
  BY <1>2 DEF Within
<1>4. /\ i + 1 \in 1 .. Len(q) /\ Tail(q)[i] = q[i + 1]
      /\ 1 \in 1 .. ((i + 1) - 1)
  BY <1>3, TailFacts
<1>5. ASSUME NEW j \in 1 .. (i - 1)
      PROVE  Tail(q)[j] = q[j + 1] /\ j + 1 \in 1 .. ((i + 1) - 1)
  BY <1>3, <1>5, TailFacts
<1>6. QED
  BY <1>1, <1>4, <1>5 DEF Within

LEMMA PushWithin ==
  ASSUME QueueTypes, NEW c \in Chn, NEW f \in Nat, NEW low \in Nat,
         low <= f, Within(queue[c], low, f)
  PROVE  Within(Push(c, f + 1), low, f + 1)
<1> DEFINE q == queue[c]
           r == Push(c, f + 1)
<1>1. q \in Seq(Nat) /\ Len(q) <= Limit(c) /\ f + 1 \in Nat
  BY DEF QueueTypes, Queued
<1>2. r \in Seq(Nat) /\ Len(r) \in Nat \ {0} /\ r[Len(r)] = f + 1
  BY <1>1, PushFacts, LimitsAreNaturals
<1>3. PICK k \in {0, 1} :
        /\ Len(r) = Len(q) + 1 - k
        /\ \A i \in 1 .. (Len(q) - k) : r[i] = q[i + k]
  BY <1>1, PushFacts
<1>4. Len(q) \in Nat
  BY <1>1
<1>5. Within(q, low, f)
  OBVIOUS
<1> HIDE DEF q, r
<1>6. ASSUME NEW i \in 1 .. Len(r), i # Len(r)
      PROVE  /\ r[i] = q[i + k] /\ i + k \in 1 .. Len(q)
             /\ low < r[i] /\ r[i] <= f /\ r[i] \in Nat
  <2>1. i \in 1 .. (Len(q) - k) /\ i + k \in 1 .. Len(q)
    BY <1>2, <1>3, <1>4, <1>6
  <2>2. QED
    BY <1>1, <1>3, <1>5, <2>1 DEF Within
<1>7. ASSUME NEW i \in 1 .. Len(r), NEW j \in 1 .. (i - 1)
      PROVE  r[j] < r[i]
  <2>1. j \in 1 .. Len(r) /\ j # Len(r)
    BY <1>2, <1>7
  <2>2. CASE i = Len(r)
    BY <1>2, <1>6, <2>1, <2>2
  <2>3. CASE i # Len(r)
    <3>1. r[j] = q[j + k] /\ r[i] = q[i + k] /\ i + k \in 1 .. Len(q)
      BY <1>6, <2>1, <2>3
    <3>2. j + k \in 1 .. ((i + k) - 1)
      BY <1>2, <1>3, <1>7
    <3>3. QED
      BY <1>5, <3>1, <3>2 DEF Within
  <2>4. QED
    BY <2>2, <2>3
<1>8. ASSUME NEW i \in 1 .. Len(r)
      PROVE  low < r[i] /\ r[i] <= f + 1
  BY <1>2, <1>6
<1>9. QED
  BY <1>7, <1>8 DEF Within, r

LEMMA Wider ==
  ASSUME NEW q \in Seq(Nat), NEW low \in Nat, NEW high \in Nat,
         Within(q, low, high)
  PROVE  Within(q, low, high + 1)
BY DEF Within

(* Taking from a queue in order keeps it in order. *)
LEMMA TakeOrdered ==
  ASSUME QueueTypes, NEW q \in Queued, NEW qs \in [Queued -> Seq(Nat)],
         qs[q] # <<>>, TakeFrom(q, qs), NEW high \in Nat,
         \A s \in Queued : taken[s] <= high /\ Within(qs[s], taken[s], high)
  PROVE  \A s \in Queued : taken'[s] <= high /\ Within(queue'[s], taken'[s], high)
<1>1. /\ queue' = [qs EXCEPT ![q] = Tail(qs[q])]
      /\ taken' = [taken EXCEPT ![q] = Head(qs[q])]
      /\ taken \in [Queued -> Nat]
  BY DEF TakeFrom, QueueTypes
<1>2. Within(Tail(qs[q]), Head(qs[q]), high) /\ Head(qs[q]) <= high
  BY <1>1, TailWithin
<1>3. QED
  BY <1>1, <1>2

LEMMA PushAll ==
  ASSUME TypeOK, Ordered
  PROVE  LET qs == Process(Frames + 1)
         IN  /\ qs \in [Queued -> Seq(Nat)]
             /\ \A s \in Queued :
                  taken[s] <= Frames + 1 /\ Within(qs[s], taken[s], Frames + 1)
<1> DEFINE qs == Process(Frames + 1)
<1>1. QueueTypes /\ Frames \in Nat /\ Frames + 1 \in Nat
  BY TypeParts, FramesGrow
<1>2. /\ qs \in [Queued -> Seq(Nat)] /\ qs[Venc] = queue[Venc]
      /\ \A c \in Chn : qs[c] = Push(c, Frames + 1)
  BY <1>1, ProcessFacts
<1>3. \A s \in Queued : /\ taken[s] \in Nat /\ taken[s] <= Frames
                        /\ queue[s] \in Seq(Nat)
                        /\ Within(queue[s], taken[s], Frames)
  BY <1>1 DEF Ordered, QueueTypes
<1> HIDE DEF qs
<1>4. ASSUME NEW c \in Chn
      PROVE  Within(qs[c], taken[c], Frames + 1)
  BY <1>1, <1>2, <1>3, PushWithin DEF Queued
<1>5. Within(qs[Venc], taken[Venc], Frames + 1)
  BY <1>1, <1>2, <1>3, Wider DEF Queued
<1>6. \A s \in Queued : taken[s] <= Frames + 1
  BY <1>1, <1>3
<1>7. \A s \in Queued : Within(qs[s], taken[s], Frames + 1)
  BY <1>4, <1>5 DEF Queued
<1>8. QED
  BY <1>2, <1>6, <1>7 DEF qs

(* What is in a queue after a step that made no new frame. *)
LEMMA GroupIsFull ==
  ASSUME QueueTypes, NEW f \in Nat, NEW c \in Chn
  PROVE  Process(f)[c] # <<>>
BY ProcessFacts, PushFacts, LimitsAreNaturals DEF QueueTypes, Queued

LEMMA OrderedStep == TypeOK /\ Ordered /\ [Next]_vars => Ordered'
<1> SUFFICES ASSUME TypeOK, Ordered, [Next]_vars PROVE Ordered'
  OBVIOUS
<1>1. /\ QueueTypes /\ Frames \in Nat /\ Frames + 1 \in Nat
      /\ \A s \in Queued : /\ taken[s] \in Nat /\ taken[s] <= Frames
                           /\ queue[s] \in Seq(Nat)
                           /\ Within(queue[s], taken[s], Frames)
  BY TypeParts, FramesGrow DEF Ordered, QueueTypes
<1>2. ASSUME Frames' = Frames \/ Frames' = Frames + 1, UNCHANGED <<queue, taken>>
      PROVE  Ordered'
  <2>1. ASSUME NEW s \in Queued
        PROVE  taken[s] <= Frames' /\ Within(queue[s], taken[s], Frames')
    <3>1. Within(queue[s], taken[s], Frames + 1)
      BY <1>1, Wider
    <3>2. QED
      BY <1>1, <1>2, <3>1
  <2>2. QED
    BY <1>2, <2>1 DEF Ordered, Within
<1>3. ASSUME NEW t \in Thread, Getting(t), PullVi
      PROVE  Ordered'
  BY <1>2, <1>3, FramesGrow DEF Getting, PullVi
<1>4. ASSUME NEW t \in Thread, NEW q \in Queued, Getting(t), FromQueue(q)
      PROVE  Ordered'
  <2>1. Frames' = Frames /\ queue[q] # <<>> /\ TakeFrom(q, queue)
    BY <1>4, FramesGrow DEF Getting, FromQueue
  <2>2. \A s \in Queued :
          taken'[s] <= Frames /\ Within(queue'[s], taken'[s], Frames)
    BY <1>1, <2>1, TakeOrdered DEF QueueTypes
  <2>3. QED
    BY <2>1, <2>2 DEF Ordered, Within
<1>5. ASSUME NEW t \in Thread, NEW c \in Chn, Getting(t), ThroughGroup(c)
      PROVE  Ordered'
  <2> DEFINE qs == Process(Frames + 1)
  <2>1. Frames' = Frames + 1 /\ TakeFrom(c, qs)
    BY <1>5, FramesGrow DEF Getting, ThroughGroup
  <2>2. /\ qs \in [Queued -> Seq(Nat)] /\ qs[c] # <<>> /\ c \in Queued
        /\ \A s \in Queued :
             taken[s] <= Frames + 1 /\ Within(qs[s], taken[s], Frames + 1)
    BY <1>1, PushAll, GroupIsFull DEF Queued
  <2> HIDE DEF qs
  <2>3. \A s \in Queued :
          taken'[s] <= Frames + 1 /\ Within(queue'[s], taken'[s], Frames + 1)
    BY <1>1, <2>1, <2>2, TakeOrdered
  <2>4. QED
    BY <2>1, <2>3 DEF Ordered, Within
<1>6. CASE SendVpss
  <2>1. Frames' = Frames + 1 /\ queue' = Process(Frames + 1) /\ taken' = taken
    BY <1>6, FramesGrow DEF SendVpss
  <2>2. \A s \in Queued :
          taken'[s] <= Frames + 1 /\ Within(queue'[s], taken'[s], Frames + 1)
    BY <2>1, PushAll
  <2>3. QED
    BY <2>1, <2>2 DEF Ordered, Within
<1>7. CASE SendVenc
  <2>1. /\ Frames' = Frames + 1 /\ taken' = taken
        /\ queue' = [queue EXCEPT ![Venc] = Append(queue[Venc], Frames + 1)]
    BY <1>7, FramesGrow DEF SendVenc
  <2>2. Within(Append(queue[Venc], Frames + 1), taken[Venc], Frames + 1)
    <3> DEFINE q == queue[Venc]
               r == Append(q, Frames + 1)
    <3>1. q \in Seq(Nat) /\ Within(q, taken[Venc], Frames) /\ taken[Venc] <= Frames
          /\ taken[Venc] \in Nat
      BY <1>1 DEF Queued
    <3>2. /\ Len(r) = Len(q) + 1 /\ r[Len(q) + 1] = Frames + 1 /\ Len(q) \in Nat
          /\ \A i \in 1 .. Len(q) : r[i] = q[i] /\ q[i] \in Nat
      <4> HIDE DEF q
      <4>1. Frames + 1 \in Nat
        BY <1>1
      <4>2. QED
        BY <3>1, <4>1, AppendProperties
    <3> HIDE DEF q, r
    <3>3. \A i \in 1 .. Len(q) :
            /\ taken[Venc] < r[i] /\ r[i] <= Frames /\ r[i] \in Nat
            /\ \A j \in 1 .. (i - 1) : r[j] < r[i]
      <4> SUFFICES ASSUME NEW i \in 1 .. Len(q)
                   PROVE  /\ taken[Venc] < r[i] /\ r[i] <= Frames /\ r[i] \in Nat
                          /\ \A j \in 1 .. (i - 1) : r[j] < r[i]
        OBVIOUS
      <4>1. /\ taken[Venc] < q[i] /\ q[i] <= Frames
            /\ \A j \in 1 .. (i - 1) : q[j] < q[i]
        BY <3>1 DEF Within
      <4>2. \A j \in 1 .. (i - 1) : j \in 1 .. Len(q)
        BY <3>2
      <4>3. QED
        BY <3>2, <4>1, <4>2
    <3>4. ASSUME NEW i \in 1 .. Len(r)
          PROVE  /\ taken[Venc] < r[i] /\ r[i] <= Frames + 1
                 /\ \A j \in 1 .. (i - 1) : r[j] < r[i]
      <4>1. CASE i \in 1 .. Len(q)
        BY <1>1, <3>3, <4>1
      <4>2. CASE i = Len(q) + 1
        BY <1>1, <3>1, <3>2, <3>3, <4>2
      <4>3. QED
        BY <3>2, <3>4, <4>1, <4>2
    <3>5. QED
      BY <3>4 DEF Within, q, r
  <2>3. \A s \in Queued :
          /\ taken[s] <= Frames + 1
          /\ s # Venc => Within(queue[s], taken[s], Frames + 1)
    BY <1>1, Wider
  <2>4. queue \in [Queued -> Seq(Nat)]
    BY <1>1 DEF QueueTypes
  <2>5. \A s \in Queued :
          taken'[s] <= Frames + 1 /\ Within(queue'[s], taken'[s], Frames + 1)
    BY <2>1, <2>2, <2>3, <2>4
  <2>6. QED
    BY <2>1, <2>5 DEF Ordered, Within
<1>8. CASE Elsewhere
  BY <1>2, <1>8, ElsewhereFrames, FramesGrow DEF frameVars
<1>9. QED
  BY <1>3, <1>4, <1>5, <1>6, <1>7, <1>8, StepCases

(* Every queue hands its frames out in the order they were made, whoever   *)
(* fills and drains it, and whatever it drops.                             *)
THEOREM QueuesKeepOrder == Spec => []FramesInOrder
<1>1. Init => Ordered
  <2> SUFFICES ASSUME Init, NEW s \in Queued
               PROVE  taken[s] <= Frames /\ Within(queue[s], taken[s], Frames)
    BY DEF Ordered
  <2>1. taken[s] = 0 /\ queue[s] = <<>> /\ Frames = 0
    BY DEF Init, Frames
  <2>2. QED
    BY <2>1 DEF Within
<1>2. Ordered => FramesInOrder
  BY DEF Ordered, Within, FramesInOrder
<1>3. QED
  BY <1>1, <1>2, OrderedStep, TypeCorrect, PTL DEF Spec

LEMMA EmptyLength ==
  ASSUME NEW q \in Seq(Nat)
  PROVE  q = <<>> <=> Len(q) = 0
OBVIOUS

LEMMA NewestStays ==
  ASSUME NEW q \in Seq(Nat), q # <<>>
  PROVE  (IF Tail(q) = <<>> THEN Head(q) ELSE Last(Tail(q))) = Last(q)
<1>1. PICK n \in Nat : Len(q) = n /\ n # 0 /\ Len(Tail(q)) = n - 1
  BY TailFacts
<1>2. Tail(q) \in Seq(Nat) /\ Head(q) = q[1]
  BY TailFacts
<1>3. CASE n = 1
  <2>1. Tail(q) = <<>>
    <3>1. Len(Tail(q)) = 0
      BY <1>1, <1>3
    <3>2. QED
      BY <1>2, <3>1, EmptyLength
  <2>2. QED
    BY <1>1, <1>2, <1>3, <2>1 DEF Last
<1>4. CASE n # 1
  <2>1. n - 1 \in 1 .. (n - 1) /\ (n - 1) + 1 = n
    BY <1>1, <1>4
  <2>2. Tail(q)[n - 1] = q[(n - 1) + 1]
    BY <1>1, <2>1, TailFacts
  <2>3. Tail(q) # <<>>
    <3>1. Len(Tail(q)) # 0
      BY <1>1, <2>1
    <3>2. QED
      BY <1>2, <3>1, EmptyLength
  <2>4. QED
    BY <1>1, <2>1, <2>2, <2>3 DEF Last
<1>5. QED
  BY <1>3, <1>4

(* No VPSS channel loses the newest frame of the group: of a queue that is *)
(* full, process drops the oldest.                                         *)
THEOREM NewestFrameIsKept == Spec => []NewestIsKept
<1>1. Init => NewestIsKept
  BY DEF Init, NewestIsKept, NewestOf, Queued
<1>2. TypeOK /\ NewestIsKept /\ [Next]_vars => NewestIsKept'
  <2> SUFFICES ASSUME TypeOK, NewestIsKept, [Next]_vars PROVE NewestIsKept'
    OBVIOUS
  <2>1. /\ QueueTypes /\ Frames + 1 \in Nat /\ Chn \subseteq Queued
        /\ queue \in [Queued -> Seq(Nat)] /\ taken \in [Queued -> Nat]
    BY TypeParts, FramesGrow DEF QueueTypes, Queued
  <2>2. ASSUME NEW q \in Queued, NEW qs \in [Queued -> Seq(Nat)],
               qs[q] # <<>>, TakeFrom(q, qs), NEW c \in Chn
        PROVE  NewestOf(c)' = IF qs[c] = <<>> THEN taken[c] ELSE Last(qs[c])
    <3>1. /\ queue' = [qs EXCEPT ![q] = Tail(qs[q])]
          /\ taken' = [taken EXCEPT ![q] = Head(qs[q])] /\ c \in Queued
      BY <2>1, <2>2 DEF TakeFrom
    <3>2. CASE c # q
      BY <2>1, <3>1, <3>2 DEF NewestOf
    <3>3. CASE c = q
      <4>0. qs[c] \in Seq(Nat) /\ qs[c] # <<>>
        BY <2>2, <3>1, <3>3
      <4>1. queue'[c] = Tail(qs[c]) /\ taken'[c] = Head(qs[c])
        BY <2>1, <3>1, <3>3
      <4>2. (IF Tail(qs[c]) = <<>> THEN Head(qs[c]) ELSE Last(Tail(qs[c])))
              = Last(qs[c])
        BY <4>0, NewestStays
      <4>3. QED
        BY <4>0, <4>1, <4>2 DEF NewestOf
    <3>4. QED
      BY <3>2, <3>3
  <2>3. ASSUME NEW q \in Queued, FromQueue(q)
        PROVE  NewestIsKept'
    <3>1. \A c \in Chn : NewestOf(c)' = NewestOf(c)
      BY <2>1, <2>2, <2>3 DEF FromQueue, NewestOf
    <3>2. QED
      BY <3>1 DEF NewestIsKept
  <2>4. ASSUME NEW c \in Chn
        PROVE  /\ Process(Frames + 1)[c] # <<>>
               /\ Last(Process(Frames + 1)[c]) = Frames + 1
    <3>1. Process(Frames + 1)[c] = Push(c, Frames + 1)
      BY <2>1, ProcessFacts
    <3>2. Push(c, Frames + 1)[Len(Push(c, Frames + 1))] = Frames + 1
      BY <2>1, PushFacts DEF QueueTypes
    <3>3. QED
      BY <2>1, <3>1, <3>2, GroupIsFull DEF Last
  <2>5. ASSUME NEW c \in Chn, ThroughGroup(c)
        PROVE  NewestIsKept'
    <3> DEFINE qs == Process(Frames + 1)
    <3>1. TakeFrom(c, qs) /\ qs \in [Queued -> Seq(Nat)]
      BY <2>1, <2>5, ProcessFacts DEF ThroughGroup
    <3>2. \A d \in Chn : qs[d] # <<>> /\ Last(qs[d]) = Frames + 1
      BY <2>4
    <3> HIDE DEF qs
    <3>3. \A d \in Chn : NewestOf(d)' = Frames + 1
      BY <2>1, <2>2, <3>1, <3>2
    <3>4. QED
      BY <3>3 DEF NewestIsKept
  <2>6. CASE SendVpss
    <3>1. \A d \in Chn : NewestOf(d)' = Frames + 1
      BY <2>4, <2>6 DEF SendVpss, NewestOf
    <3>2. QED
      BY <3>1 DEF NewestIsKept
  <2>7. CASE SendVenc
    <3>1. taken' = taken /\ \A c \in Chn : queue'[c] = queue[c]
      BY <2>1, <2>7, SinksAssumption DEF SendVenc
    <3>2. \A c \in Chn : NewestOf(c)' = NewestOf(c)
      BY <3>1 DEF NewestOf
    <3>3. QED
      BY <3>2 DEF NewestIsKept
  <2>8. CASE UNCHANGED <<queue, taken>>
    BY <2>8 DEF NewestIsKept, NewestOf
  <2>9. QED
    BY <2>3, <2>5, <2>6, <2>7, <2>8, StepCases, ElsewhereFrames
    DEF PullVi, frameVars
<1>3. QED
  BY <1>1, <1>2, TypeCorrect, PTL DEF Spec

===============================================================================
