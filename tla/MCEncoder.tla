------------------------------- MODULE MCEncoder -------------------------------
(***************************************************************************)
(* The simple encoder with the numbers it is made with and the clip that   *)
(* the library replays for it.  Sizes and Clip have no state of their own: *)
(* what an object is given when it is made, or a call when it is made, is  *)
(* right for all inputs within the bounds.                                 *)
(***************************************************************************)
EXTENDS SimpleEncoder, Sizes, Clip

(* An encoder is built with a buffer that holds its frames and a stream      *)
(* buffer of two GOPs, or less if a size or a rate exceeds u32 or the frame  *)
(* is smaller; with a frame rate of 0 it is not built                        *)
(* (calc_frame_buffer_size, calc_buffer_size, Image::import).                *)
BufferSizesFit == held \cap Encoder # {} => BuffersHoldFrames /\ StreamBuffersHoldGops

(* A clip, when there is one, is for a channel of any GOP. *)
ClipRoundsBeginWithIdr ==
  \A codec \in ClipCodec : \A nals \in BoundedSeq(NalKinds(codec), MaxNals) :
    LET clip == ClipIdrs(codec, nals)
    IN  \A c \in [codec : {codec}, mode : {"Cbr"}, gop : {0, 2}, framerate : {1},
                  bitrate_kbps : {1}] :
          RoundsBeginWithIdr(c, clip, 0 .. 2 * MaxNals)

(* The union that a native encoder channel is created from is read as it was *)
(* written, and its packets are IDRs where they have to be: every GOP        *)
(* begins with an IDR if they are synthetic, every round of the clip if they *)
(* are replayed, which ignores the GOP (native_rate_control_mode,            *)
(* native_rate_control_attrs, gop, RK_MPI_VENC_GetStream).                   *)
RateReachesEncoder == native["venc"] # "none" => RatesAreRead /\ ClipRoundsBeginWithIdr

(* A call to get a frame waits as long as it is told to, never longer but    *)
(* for ever (`timeout.as_millis() as i32', Deadline::from_ms).               *)
TimeoutsKept == native["vi"] # "none" => DeadlinesAreMeant

(* The clip of a running encoder is split into its pictures and loops frame  *)
(* by frame (nal_units, split_frames, and the comment at the head of         *)
(* clip.rs).                                                                 *)
ClipSplits == native["venc"] = "running" => NalUnitsAreFound /\ ClipsAreReplayed
===============================================================================
