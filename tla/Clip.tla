---------------------------------- MODULE Clip ----------------------------------
(***************************************************************************)
(* How the library splits an Annex-B clip into the frames that an encoder  *)
(* replays, over and over: into NAL units at the start codes, and those    *)
(* into pictures.                                                          *)
(*                                                                         *)
(* A NAL unit is its bytes where start codes matter.  Where pictures do it *)
(* is its type, the bit that says it is the first slice of a picture, and  *)
(* whether it is too short to have that bit.                               *)
(***************************************************************************)
EXTENDS Integers, Sequences, SequencesExt, FiniteSetsExt

CONSTANTS
  ClipByte,     \* bound: the bytes of a clip, 0 and 1 among them
  MaxNalBytes,  \* bound: the length of a NAL unit
  MaxNals       \* bound: the NAL units of a clip

ASSUME ClipAssumption ==
  {0, 1} \subseteq ClipByte /\ MaxNalBytes \in Nat /\ MaxNals \in Nat

StartCode == <<0, 0, 1>>

(* Where the start codes begin: no two overlap. *)
Starts(data) ==
  {i \in 1 .. Len(data) - 2 : SubSeq(data, i, i + 2) = StartCode}

(* Zero bytes at the end are not part of the unit. *)
TrimZeros(nal) == SubSeq(nal, 1, Max({0} \cup {i \in DOMAIN nal : nal[i] # 0}))

(* The NAL unit behind the start code at i. *)
NalUnit(data, i) ==
  LET later == {j \in Starts(data) : j > i}
  IN  TrimZeros(SubSeq(data, i + 3, IF later = {} THEN Len(data) ELSE Min(later) - 1))

(* The units that are not empty, in their order. *)
NalUnits(data) ==
  LET found == {i \in Starts(data) : NalUnit(data, i) # <<>>}
      Nth(n) == CHOOSE i \in found : Cardinality({j \in found : j =< i}) = n
  IN  [n \in 1 .. Cardinality(found) |-> NalUnit(data, Nth(n))]
-----------------------------------------------------------------------------
ClipCodec == {"H264", "Hevc"}

(* nal_info: a picture starts with its first slice or with what may only     *)
(* precede one.                                                              *)
Vcl(codec, nal) == IF codec = "H264" THEN nal.type \in 1 .. 5 ELSE nal.type < 32

StartsPicture(codec, nal) ==
  IF Vcl(codec, nal) THEN nal.first
  ELSE nal.type \in (IF codec = "H264" THEN 6 .. 9 \cup 14 .. 18
                     ELSE 32 .. 35 \cup {39} \cup 41 .. 44 \cup 48 .. 55)

Idr(codec, nal) == nal.type \in (IF codec = "H264" THEN {5} ELSE 16 .. 21)

Truncated(codec, nal) == Vcl(codec, nal) /\ nal.short

(* Mutant of AddNal: the first slice of a picture always cuts, its parameter *)
(* sets never do.                                                            *)
AddNalCutsAtSlices(codec, s, nal) ==
  LET cut == Vcl(codec, nal) /\ nal.first /\ s.current # <<>>
  IN  [frames |-> IF cut THEN Append(s.frames, s.current) ELSE s.frames,
       current |-> Append(IF cut THEN <<>> ELSE s.current, nal),
       hasVcl |-> (s.hasVcl /\ ~cut) \/ Vcl(codec, nal)]

(* One turn of the loop of split_frames. *)
AddNal(codec, s, nal) ==
  LET cut == StartsPicture(codec, nal) /\ s.hasVcl
  IN  [frames |-> IF cut THEN Append(s.frames, s.current) ELSE s.frames,
       current |-> Append(IF cut THEN <<>> ELSE s.current, nal),
       hasVcl |-> (s.hasVcl /\ ~cut) \/ Vcl(codec, nal)]

IsIdrFrame(codec, frame) == \E n \in DOMAIN frame : Idr(codec, frame[n])

AddNals(codec, s, nals) ==
  LET after[n \in 0 .. Len(nals)] ==
        IF n = 0 THEN s ELSE AddNal(codec, after[n - 1], nals[n])
  IN  after[Len(nals)]

(* split_frames: the frames, or <<>> for an error. *)
SplitFrames(codec, nals) ==
  LET end == AddNals(codec, [frames |-> <<>>, current |-> <<>>, hasVcl |-> FALSE], nals)
      frames == IF end.hasVcl THEN Append(end.frames, end.current) ELSE end.frames
  IN  IF \/ \E n \in DOMAIN nals : Truncated(codec, nals[n])
         \/ frames = <<>>
         \/ ~IsIdrFrame(codec, Head(frames))
      THEN <<>> ELSE frames

(* Which of the frames of a clip are IDRs; <<>> if there is no clip.         *)
ClipIdrs(codec, nals) ==
  LET frames == SplitFrames(codec, nals)
  IN  [f \in DOMAIN frames |-> IsIdrFrame(codec, frames[f])]
-----------------------------------------------------------------------------
(* A NAL unit does not end in a zero byte nor contain a start code. *)
IsNalUnit(nal) == nal # <<>> /\ Last(nal) # 0 /\ Starts(nal) = {}

Zeros(n) == [i \in 1 .. n |-> 0]

(* Slices of all kinds, what goes before a picture and what goes after one. *)
NalKinds(codec) ==
  [type : IF codec = "H264" THEN {1, 5} ELSE {1, 19}, first : BOOLEAN, short : BOOLEAN]
  \cup [type : IF codec = "H264" THEN {7, 12} ELSE {33, 40}, first : {FALSE}, short : {FALSE}]

(* Whatever start codes of three bytes or more stand before the NAL units of *)
(* a clip and whatever zeros follow the last, nal_units finds those units.   *)
UnitsAreFound(one, two, m, n, trailing) ==
  NalUnits(Zeros(m) \o <<1>> \o one \o Zeros(n) \o <<1>> \o two \o Zeros(trailing))
    = <<one, two>>

NalUnitsAreFound ==
  \A one, two \in {nal \in BoundedSeq(ClipByte, MaxNalBytes) : IsNalUnit(nal)},
     m, n \in 2 .. 4, trailing \in 0 .. 2 :
    UnitsAreFound(one, two, m, n, trailing)

(* Each frame is a picture, with a slice, that begins where the one before  *)
(* ends; nothing is lost but what follows the last picture without a slice.  *)
FramesArePictures(codec, nals, frames) ==
  LET Slices(frame) == {n \in DOMAIN frame : Vcl(codec, frame[n])}
      kept == FlattenSeq(frames)
  IN  /\ IsPrefix(kept, nals)
      /\ \A n \in Len(kept) + 1 .. Len(nals) : ~Vcl(codec, nals[n])
      /\ \A f \in DOMAIN frames :
           /\ Slices(frames[f]) # {}
           /\ f > 1 => StartsPicture(codec, Head(frames[f]))
           /\ \A m, n \in DOMAIN frames[f] :
                m \in Slices(frames[f]) /\ StartsPicture(codec, frames[f][n]) => n =< m

(* If a clip begins with the start of a picture, replaying its frames twice  *)
(* over is a clip that splits into those frames twice over.                  *)
ClipIsReplayed(codec, nals) ==
  LET frames == SplitFrames(codec, nals)
  IN  frames # <<>> =>
        /\ FramesArePictures(codec, nals, frames)
        /\ StartsPicture(codec, Head(nals)) =>
             SplitFrames(codec, FlattenSeq(frames) \o FlattenSeq(frames)) = frames \o frames

ClipsAreReplayed ==
  \A codec \in ClipCodec : \A nals \in BoundedSeq(NalKinds(codec), MaxNals) :
    ClipIsReplayed(codec, nals)
===============================================================================
