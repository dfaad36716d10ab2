----------------------------- MODULE SimpleEncoder -----------------------------
(***************************************************************************)
(* encode_frame over the owned handles of OwnedHandles: it takes the one   *)
(* buffer of its pool, sends it to the encoder (NV12) or to the VPSS group *)
(* bound to the encoder, waits for the stream, and gives the buffer back   *)
(* when it returns.  A wait that fails or times out leaves the frame where *)
(* it was sent: in the input queue of the encoder, which refuses frames    *)
(* when it is full, or in the queue of the VPSS channel, which drops its   *)
(* oldest.                                                                 *)
(***************************************************************************)
EXTENDS OwnedHandles

CONSTANTS
  QueueDepth,  \* INPUT_QUEUE_DEPTH
  MaxFrames,   \* bound: frames one encoder accepts
  MaxWaits     \* bound: failed waits of one encoder

ASSUME EncoderBoundsAssumption ==
  QueueDepth \in Nat /\ MaxFrames \in Nat /\ MaxWaits \in Nat

VARIABLES
  sent,         \* frames sent by this encoder; the last one's number
  encQueue,     \* the frames in the input queue of its VENC channel
  chnQueue,     \* the frames in the queue of its VPSS channel
  result,       \* the frame of the last stream, 0 for none
  failedWaits   \* get_stream calls that failed

frameVars == <<sent, encQueue, chnQueue, result, failedWaits>>
vars == <<ownedVars, frameVars>>

Encoder == {"SimpleEncoder", "SimpleEncoderNv12"}
Frames == 1 .. MaxFrames

TypeOK ==
  /\ OwnedTypeOK
  /\ sent \in 0 .. MaxFrames
  /\ encQueue \in Seq(Frames)
  /\ chnQueue \in Seq(Frames)
  /\ result \in 0 .. MaxFrames
  /\ failedWaits \in 0 .. MaxWaits

NoFrames == sent = 0 /\ encQueue = <<>> /\ chnQueue = <<>> /\ result = 0 /\ failedWaits = 0

Init == OwnedInit /\ NoFrames

(* Queues are empty when an encoder is built and go with its channels. *)
ForgetFrames ==
  sent' = 0 /\ encQueue' = <<>> /\ chnQueue' = <<>> /\ result' = 0 /\ failedWaits' = 0

Build == (BuildEncoder \/ BuildEncoderNv12) /\ ForgetFrames

(* A stream that encode_frame returned borrows its encoder. *)
DropHandle ==
  \E h \in held :
    /\ h \in Encoder => "VencStreamOwned" \notin held
    /\ Drop(h)
    /\ IF h \in Encoder THEN ForgetFrames ELSE UNCHANGED frameVars

Other == (NewObject \/ ChangeState \/ DropField) /\ UNCHANGED frameVars
-----------------------------------------------------------------------------
(* encode_frame takes the encoder by &mut and returns a stream that borrows *)
(* it, and it needs the buffer of the pool: GetMB returns null otherwise.   *)
MayEncode(e) ==
  /\ Idle
  /\ e \in held
  /\ "VencStreamOwned" \notin held
  /\ sent < MaxFrames
  /\ native["pool"] # "none" /\ native["buf"] = "none"

(* The library takes the frame. *)
Accepts(e) ==
  IF e = "SimpleEncoder" THEN Runs("grp")
  ELSE Runs("venc") /\ Len(encQueue) < QueueDepth

(* Mutant of QueuesAfterSend: the queue of a VPSS channel keeps old frames.  *)
QueuesAfterSendKeep(e) ==
  IF e = "SimpleEncoder"
  THEN [enc |-> encQueue,
        chn |-> IF Runs("vchn") THEN Append(chnQueue, sent + 1) ELSE chnQueue]
  ELSE [enc |-> Append(encQueue, sent + 1), chn |-> chnQueue]

(* send_frame.  The channel has depth 0, which counts as 1. *)
QueuesAfterSend(e) ==
  IF e = "SimpleEncoder"
  THEN [enc |-> encQueue, chn |-> IF Runs("vchn") THEN <<sent + 1>> ELSE chnQueue]
  ELSE [enc |-> Append(encQueue, sent + 1), chn |-> chnQueue]

(* The pull of get_stream: the encoder's own queue first, then its source.  *)
Ready(q) ==
  IF q.enc # <<>> THEN q.enc
  ELSE IF native["vbind"] # "none" /\ Runs("vchn") /\ Runs("grp") THEN q.chn ELSE <<>>

AfterPull(q) ==
  IF q.enc # <<>> THEN [q EXCEPT !.enc = Tail(@)] ELSE [q EXCEPT !.chn = Tail(@)]

(* Mutant of ReleaseBuffer: the buffer is not given back.                    *)
KeepBuffer(life) ==
  /\ UNCHANGED faults
  /\ native' = [native EXCEPT !["buf"] = "made", !["stream"] = life]

(* At the end of the call the buffer goes back to the pool, or ReleaseMB    *)
(* fails and is logged.                                                      *)
ReleaseBuffer(life) ==
  \E fails \in BOOLEAN :
    /\ Spend(One(fails))
    /\ native' = [native EXCEPT !["buf"] = IF fails THEN "made" ELSE "none",
                                !["stream"] = life]

(* encode_frame returns the stream of the frame the encoder pulls first.    *)
EncodeFrame(e) ==
  /\ MayEncode(e) /\ Accepts(e)
  /\ LET q == QueuesAfterSend(e) IN
       /\ Runs("venc") /\ Ready(q) # <<>>
       /\ result' = Head(Ready(q))
       /\ encQueue' = AfterPull(q).enc
       /\ chnQueue' = AfterPull(q).chn
  /\ sent' = sent + 1
  /\ held' = held \cup {"VencStreamOwned"}
  /\ inner' = [inner EXCEPT !["stream"] = "made"]
  /\ ReleaseBuffer("made")
  /\ UNCHANGED <<dropping, field, orphans, refused, failedWaits>>

(* The frame is sent, but get_stream fails or nothing arrives in time.      *)
EncodeFrameLate(e) ==
  /\ MayEncode(e) /\ Accepts(e)
  /\ failedWaits < MaxWaits
  /\ encQueue' = QueuesAfterSend(e).enc
  /\ chnQueue' = QueuesAfterSend(e).chn
  /\ ReleaseBuffer(native["stream"])
  /\ sent' = sent + 1
  /\ failedWaits' = failedWaits + 1
  /\ UNCHANGED <<held, dropping, field, inner, orphans, refused, result>>

(* send_frame is refused, or fails, and the stream is not waited for.       *)
EncodeFrameRefused(e) ==
  /\ MayEncode(e)
  /\ ReleaseBuffer(native["stream"])
  /\ UNCHANGED <<held, dropping, field, inner, orphans, refused, frameVars>>

Encode(e) == EncodeFrame(e) \/ EncodeFrameLate(e) \/ EncodeFrameRefused(e)

Next == Other \/ Build \/ DropHandle \/ \E e \in Encoder : Encode(e)

Spec == Init /\ [][Next]_vars
-----------------------------------------------------------------------------
(* An encoder works until a call fails: between two encode_frame calls its  *)
(* channel, group and bind are up and running, the buffer is back in the    *)
(* pool and the input queue of the encoder has room (SimpleEncoder keeps    *)
(* its parts to itself, and mem_buf is dropped on every way out).            *)
EncoderStaysReady ==
  \A e \in Encoder : e \in held /\ faults = 0 =>
    /\ Runs("venc") /\ Up("pool") /\ native["buf"] = "none"
    /\ Len(encQueue) = (IF e = "SimpleEncoderNv12" THEN failedWaits ELSE 0)
    /\ e = "SimpleEncoder" =>
         Runs("grp") /\ Runs("vchn") /\ native["vbind"] # "none"

(* encode_frame returns the stream of the frame it was given.  Only over    *)
(* NV12, and only after get_stream failed, it returns an older one: by as   *)
(* many frames as waits failed, and no call makes that up (encode_frame     *)
(* sends before it waits).                                                   *)
StreamIsOfItsFrame ==
  "VencStreamOwned" \in held /\ held \cap Encoder # {} /\ result # 0 =>
    result = sent - (IF "SimpleEncoderNv12" \in held THEN failedWaits ELSE 0)
===============================================================================
