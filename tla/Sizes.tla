--------------------------------- MODULE Sizes ---------------------------------
(***************************************************************************)
(* The numbers an encoder is made with: the size of a frame, the size of   *)
(* the stream buffer, the rate control attributes, and the timeouts its    *)
(* calls take.                                                             *)
(*                                                                         *)
(* u32 arithmetic wraps, as it does without overflow checks (the release   *)
(* profile); a division by zero panics in every build.  The types are as   *)
(* wide as the parameters say, so that small ones reach the overflows that *)
(* real ones have.                                                         *)
(***************************************************************************)
EXTENDS Integers, Sequences

CONSTANTS
  U32Size, U16Size, U8Size,  \* how many values u32 and i32, u16 and u8 have: 2^32, 2^16, 2^8
  Kilo,                      \* 1024
  MicrosPerMilli             \* 1000

ASSUME WidthsAssumption ==
  /\ \A size \in {U32Size, U16Size, U8Size} : size \in Nat \ {0} /\ size % 2 = 0
  /\ U8Size < U16Size /\ U16Size < U32Size
  /\ Kilo \in Nat \ {0} /\ MicrosPerMilli \in Nat \ {0}

U32Max == U32Size - 1
U16 == 0 .. U16Size - 1
U8 == 0 .. U8Size - 1
Wrap(n) == n % U32Size
I32Size == U32Size \div 2  \* of i32, those that are not negative

Format == {"Nv12", "Yuyv", "Rgb24"}
-----------------------------------------------------------------------------
(* RatioU32 and align2 of util.rs. *)
Align2(n) == n + (n % 2)

NewRatio(n, d) == [numer |-> n, denom |-> d]

(* gcd of a pair: a turn of its loop leaves <<y, x % y>>. *)
Gcd[xy \in Nat \X Nat] == IF xy[2] = 0 THEN xy[1] ELSE Gcd[<<xy[2], xy[1] % xy[2]>>]

(* Mutant of Times: the ratio is not reduced before it is multiplied.        *)
TimesUnreduced(ratio, n) == NewRatio(Wrap(ratio.numer * n), ratio.denom)

Times(ratio, n) ==
  LET common == Gcd[<<n, ratio.denom>>]
  IN  NewRatio(Wrap(ratio.numer * (n \div common)), ratio.denom \div common)

Ceil(ratio) ==
  ratio.numer \div ratio.denom + (IF ratio.numer % ratio.denom = 0 THEN 0 ELSE 1)

BytesPerPixel ==
  [Nv12 |-> NewRatio(3, 2), Yuyv |-> NewRatio(2, 1), Rgb24 |-> NewRatio(3, 1)]

(* calc_frame_buffer_size: the pool of an encoder has one buffer of this size. *)
FrameBufferSize(format, width, height) ==
  Ceil(Times(Times(BytesPerPixel[format], Align2(width)), Align2(height)))

(* What the library makes of a frame, in usize: chroma is subsampled by two, *)
(* rounding up.  `Extent' is where the last row that it reads ends, in a     *)
(* frame whose stride is its width (image.rs).                               *)
Half(n) == (n + 1) \div 2

FrameSize(format, width, height) ==
  CASE format = "Nv12" -> width * height + Half(width) * Half(height) * 2
    [] format = "Yuyv" -> Half(width) * 2 * height * 2
    [] format = "Rgb24" -> width * height * 3

RowsEnd(offset, row, stride, rows) ==
  IF rows = 0 THEN 0 ELSE offset + (rows - 1) * stride + row

Extent(format, width, height) ==
  CASE format = "Nv12" -> RowsEnd(width * height, Half(width) * 2, Half(width) * 2, Half(height))
    [] format = "Yuyv" -> RowsEnd(0, Half(width) * 4, Half(width) * 4, height)
    [] format = "Rgb24" -> RowsEnd(0, width * 3, width * 3, height)
-----------------------------------------------------------------------------
(* A codec: H.264 or HEVC, with a rate control of three kinds. *)
Codec(kbps, gops, framerates) ==
  [codec : {"H264", "Hevc"}, mode : {"Cbr"}, gop : gops, framerate : framerates,
   bitrate_kbps : kbps]
  \cup [codec : {"H264", "Hevc"}, mode : {"Vbr", "Avbr"}, gop : gops, framerate : framerates,
        bitrate_kbps : kbps, max_bitrate_kbps : kbps, min_bitrate_kbps : kbps]

PeakKbps(c) == IF c.mode = "Cbr" THEN c.bitrate_kbps ELSE c.max_bitrate_kbps

MaxBitrate(c) == Wrap(PeakKbps(c) * Kilo)

Panic == -1

(* calc_buffer_size: two GOPs at the peak rate, no more than a frame.        *)
StreamBufferSize(c, frameSize) ==
  IF c.framerate = 0 THEN Panic
  ELSE LET gops == Wrap(Wrap(((MaxBitrate(c) \div 8) \div c.framerate) * c.gop) * 2)
       IN  IF gops < frameSize THEN gops ELSE frameSize

(* Mutant of NativeTag: one mode is passed for the other. *)
NativeTagSwapped(c) ==
  [H264 |-> [Cbr |-> "H264CBR", Vbr |-> "H264VBR", Avbr |-> "H264CBR"],
   Hevc |-> [Cbr |-> "H265CBR", Vbr |-> "H265VBR", Avbr |-> "H265AVBR"]][c.codec][c.mode]

(* native_rate_control_mode, by the tag of the native union.                 *)
NativeTag(c) ==
  [H264 |-> [Cbr |-> "H264CBR", Vbr |-> "H264VBR", Avbr |-> "H264AVBR"],
   Hevc |-> [Cbr |-> "H265CBR", Vbr |-> "H265VBR", Avbr |-> "H265AVBR"]][c.codec][c.mode]

(* The words of the union under a tag, in the order of the native structs    *)
(* (those of H.265 are those of H.264).                                      *)
Layout(tag) ==
  IF tag \in {"H264CBR", "H265CBR"}
  THEN <<"gop", "srcNum", "srcDen", "dstNum", "dstDen", "bitRate", "statTime">>
  ELSE <<"gop", "srcNum", "srcDen", "dstNum", "dstDen", "bitRate", "maxBitRate", "minBitRate",
         "statTime">>

(* native_rate_control_attrs: the words of the member for this codec.        *)
NativeAttrs(c) ==
  IF c.mode = "Cbr" THEN <<c.gop, c.framerate, 1, c.framerate, 1, c.bitrate_kbps, 0>>
  ELSE <<c.gop, c.framerate, 1, c.framerate, 1, c.bitrate_kbps, c.max_bitrate_kbps,
         c.min_bitrate_kbps, 0>>

(* What a reader of the union finds under a name if it follows the tag, as   *)
(* the header lays the union out.  The fake library reads the GOP alone, the *)
(* other words are for the real one.                                         *)
Absent == -1
Uninitialized == -2

ReadWord(c, word) ==
  LET layout == Layout(NativeTag(c))
      at == {i \in 1 .. Len(layout) : layout[i] = word}
      attrs == NativeAttrs(c)
  IN  IF at = {} THEN Absent
      ELSE LET i == CHOOSE i \in at : TRUE
           IN  IF i > Len(attrs) THEN Uninitialized ELSE attrs[i]

DefaultGop == 30

(* gop(): the GOP of a channel of the fake library. *)
ChannelGop(c) == IF ReadWord(c, "gop") = 0 THEN DefaultGop ELSE ReadWord(c, "gop")

(* A clip by its frames: whether each of them is an IDR.  A channel has no   *)
(* clip if its packets are synthetic.                                        *)
NoClip == <<>>

(* RK_MPI_VENC_GetStream: whether the packet of a frame is an IDR.  A clip   *)
(* goes round and has its own, whatever the GOP; encode counts by the GOP.   *)
IsIdr(c, clip, seq) ==
  IF clip = NoClip THEN seq % ChannelGop(c) = 0 ELSE clip[1 + (seq % Len(clip))]
-----------------------------------------------------------------------------
(* timeout.as_millis() as i32, of a Duration in microseconds. *)
Millis(timeout) == timeout \div MicrosPerMilli
ToI32(ms) ==
  IF Wrap(ms) < I32Size THEN Wrap(ms) ELSE Wrap(ms) - U32Size

(* Mutant of FromMs: zero is taken for no timeout at all. *)
FromMsZeroWaits(ms) == IF ms =< 0 THEN [kind |-> "Never"] ELSE [kind |-> "At", ms |-> ms]

(* Deadline::from_ms. *)
FromMs(ms) ==
  IF ms < 0 THEN [kind |-> "Never"]
  ELSE IF ms = 0 THEN [kind |-> "NonBlock"] ELSE [kind |-> "At", ms |-> ms]

Deadline(timeout) == FromMs(ToI32(Millis(timeout)))
-----------------------------------------------------------------------------
(* If the size of a frame fits u32, the buffer of the encoder has the size   *)
(* of the frame with its sides made even, as the library counts it, and the  *)
(* library finds all rows of the frame in it, odd sides included.  If it     *)
(* does not, the buffer is smaller than such a frame, never larger.          *)
BufferHoldsFrame(format, width, height) ==
  LET size == FrameSize(format, Align2(width), Align2(height))
      buffer == FrameBufferSize(format, width, height)
  IN  IF size =< U32Max THEN buffer = size /\ Extent(format, width, height) =< buffer
      ELSE buffer < size

BuffersHoldFrames ==
  \A format \in Format, width, height \in U16 : BufferHoldsFrame(format, width, height)

(* There is a size for the stream unless the frame rate is 0.  It is never   *)
(* larger than the frame nor than two GOPs, overflow or not, and short of    *)
(* both by less than a byte per frame of the GOPs, if neither the rate nor   *)
(* the GOPs overflow.                                                        *)
StreamBufferHoldsGops(c, frameSize) ==
  LET rate == PeakKbps(c) * Kilo
      bits == PeakKbps(c) * Kilo * c.gop * 2
      size == StreamBufferSize(c, frameSize)
  IN  IF c.framerate = 0 THEN size = Panic
      ELSE /\ size \in 0 .. frameSize
           /\ size * 8 * c.framerate =< bits
           /\ rate =< U32Max /\ (bits \div 8) \div c.framerate =< U32Max /\ size < frameSize
                => bits =< (size + 2 * c.gop) * 8 * c.framerate

(* Rates of up to twice what u32 holds, in bits. *)
StreamBuffersHoldGops ==
  \A frameSize \in {0, U32Max \div 2, U32Max},
     c \in [codec : {"H264"}, mode : {"Cbr"}, gop : U16, framerate : U8,
            bitrate_kbps : 0 .. 2 * (U32Max \div Kilo)] :
    StreamBufferHoldsGops(c, frameSize)

(* Read through the tag that goes with it, the native union has the GOP, the *)
(* frame rate and the peak rate that the size of the stream buffer was       *)
(* computed from, and no word is uninitialized.                              *)
RateIsRead(c) ==
  /\ \A i \in 1 .. Len(Layout(NativeTag(c))) :
       ReadWord(c, Layout(NativeTag(c))[i]) # Uninitialized
  /\ ReadWord(c, "gop") = c.gop
  /\ \A word \in {"srcNum", "dstNum"} : ReadWord(c, word) = c.framerate
  /\ MaxBitrate(c) = Wrap(Kilo *
       (IF ReadWord(c, "maxBitRate") = Absent THEN ReadWord(c, "bitRate")
        ELSE ReadWord(c, "maxBitRate")))

(* Without a clip every GOP begins with an IDR, and only a GOP does, until   *)
(* the number of the frame exceeds u32.                                      *)
GopsBeginWithIdr(c, frames) ==
  c.gop # 0 =>
    \A seq \in frames : IsIdr(c, NoClip, seq) <=> seq \in {c.gop * n : n \in frames}

RatesAreRead ==
  \A c \in Codec(0 .. 2, 0 .. 3, 0 .. 2) : RateIsRead(c) /\ GopsBeginWithIdr(c, 0 .. 5)

(* With a clip its rounds begin with an IDR, whatever the GOP. *)
RoundsBeginWithIdr(c, clip, frames) ==
  clip # NoClip => \A seq \in frames : seq % Len(clip) = 0 => IsIdr(c, clip, seq)

(* A deadline is as far away as the timeout says, in whole milliseconds, and *)
(* less than one means not to wait, up to 2^31 milliseconds.  From there on  *)
(* it is nearer, or never, but not later.                                    *)
DeadlineIsMeant(timeout) ==
  LET deadline == Deadline(timeout)
  IN  IF Millis(timeout) < I32Size
      THEN deadline = (IF timeout < MicrosPerMilli THEN [kind |-> "NonBlock"]
                       ELSE [kind |-> "At", ms |-> Millis(timeout)])
      ELSE deadline.kind = "At" => deadline.ms < Millis(timeout) - I32Size

DeadlinesAreMeant == \A timeout \in 0 .. MicrosPerMilli * U32Size * 2 : DeadlineIsMeant(timeout)
===============================================================================
