-------------------------- MODULE SimpleEncoder_proofs --------------------------
(***************************************************************************)
(* Machine-checked proofs about the owned handles and the simple encoder,  *)
(* for any number of handles, faults, frames and failed waits and any      *)
(* queue depth; and about the numbers an encoder is made with, for         *)
(* integers of any width.                                                  *)
(***************************************************************************)
EXTENDS MCEncoder, WellFoundedInduction, SequenceTheorems, FiniteSetTheorems, TLAPS

-----------------------------------------------------------------------------
(* The fields of the handles.                                               *)

LEMMA Kinds ==
  Kind = {"RockitMpi", "VencChannelOwned", "VpssGroupOwned", "VpssChannelOwned",
          "CameraOwned", "ViPipeOwned", "ViChannelOwned", "ViVencBindOwned",
          "VpssVencBindOwned", "VpssViBindOwned", "MemBufferPoolOwned",
          "MemBufferOwned", "VencStreamOwned", "ViFrameOwned", "VpssFrameOwned",
          "SimpleEncoder", "SimpleEncoderNv12"}
BY DEF Kind, Fields

(* What an object needs is declared after it: the session last of all, a     *)
(* group after its channels, a pool after its buffer, an encoder after its   *)
(* binds and its streams.                                                    *)
Closed(list) ==
  /\ Len(list) \in Nat \ {0}
  /\ list \in Seq(Object)
  /\ list[Len(list)] = "mpi"
  /\ \A i \in 1 .. Len(list) :
       /\ list[i] = "vchn" => \E j \in i + 1 .. Len(list) : list[j] = "grp"
       /\ list[i] = "buf" => \E j \in i + 1 .. Len(list) : list[j] = "pool"
       /\ list[i] \in {"stream", "cbind", "vbind"} =>
            \E j \in i + 1 .. Len(list) : list[j] = "venc"

LEMMA FieldsClosed == \A h \in Kind : Closed(Fields[h])
<1>1. Closed(Fields["RockitMpi"])
  BY DEF Closed, Object, Bind, Frame, Fields
<1>2. Closed(Fields["VencChannelOwned"])
  BY DEF Closed, Object, Bind, Frame, Fields
<1>3. Closed(Fields["VpssGroupOwned"])
  BY DEF Closed, Object, Bind, Frame, Fields
<1>4. Closed(Fields["VpssChannelOwned"])
  BY DEF Closed, Object, Bind, Frame, Fields
<1>5. Closed(Fields["CameraOwned"]) /\ Closed(Fields["ViPipeOwned"])
  BY DEF Closed, Object, Bind, Frame, Fields
<1>6. Closed(Fields["ViChannelOwned"])
  BY DEF Closed, Object, Bind, Frame, Fields
<1>7. Closed(Fields["ViVencBindOwned"])
  BY DEF Closed, Object, Bind, Frame, Fields
<1>8. Closed(Fields["VpssVencBindOwned"])
  BY DEF Closed, Object, Bind, Frame, Fields
<1>9. Closed(Fields["VpssViBindOwned"])
  BY DEF Closed, Object, Bind, Frame, Fields
<1>10. Closed(Fields["MemBufferPoolOwned"])
  BY DEF Closed, Object, Bind, Frame, Fields
<1>11. Closed(Fields["MemBufferOwned"])
  BY DEF Closed, Object, Bind, Frame, Fields
<1>12. Closed(Fields["VencStreamOwned"])
  BY DEF Closed, Object, Bind, Frame, Fields
<1>13. Closed(Fields["ViFrameOwned"])
  BY DEF Closed, Object, Bind, Frame, Fields
<1>14. Closed(Fields["VpssFrameOwned"])
  BY DEF Closed, Object, Bind, Frame, Fields
<1>15. Closed(Fields["SimpleEncoder"])
  BY DEF Closed, Object, Bind, Frame, Fields
<1>16. Closed(Fields["SimpleEncoderNv12"])
  BY DEF Closed, Object, Bind, Frame, Fields
<1>17. QED
  BY <1>1, <1>2, <1>3, <1>4, <1>5, <1>6, <1>7, <1>8, <1>9, <1>10, <1>11, <1>12,
     <1>13, <1>14, <1>15, <1>16, Kinds

(* What each kind of handle holds. *)
LEMMA HeldObjects ==
  /\ Holds("RockitMpi") = {"mpi"}
  /\ Holds("VencChannelOwned") = {"venc", "mpi"}
  /\ Holds("VpssGroupOwned") = {"grp", "mpi"}
  /\ Holds("VpssChannelOwned") = {"vchn", "grp", "mpi"}
  /\ Holds("CameraOwned") = {"cam", "mpi"}
  /\ Holds("ViPipeOwned") = {"cam", "mpi"}
  /\ Holds("ViChannelOwned") = {"vi", "cam", "mpi"}
  /\ Holds("ViVencBindOwned") = {"cbind", "venc", "vi", "cam", "mpi"}
  /\ Holds("VpssVencBindOwned") = {"vbind", "venc", "vchn", "grp", "mpi"}
  /\ Holds("VpssViBindOwned") = {"gbind", "grp", "vi", "cam", "mpi"}
  /\ Holds("MemBufferPoolOwned") = {"pool", "mpi"}
  /\ Holds("MemBufferOwned") = {"buf", "pool", "mpi"}
  /\ Holds("VencStreamOwned") = {"stream", "venc", "mpi"}
  /\ Holds("ViFrameOwned") = {"viframe", "vi", "cam", "mpi"}
  /\ Holds("VpssFrameOwned") = {"vpssframe", "vchn", "grp", "mpi"}
  /\ Holds("SimpleEncoder") = {"vbind", "venc", "vchn", "grp", "pool", "mpi"}
  /\ Holds("SimpleEncoderNv12") = {"venc", "pool", "mpi"}
BY DEF Holds, Fields, Range

(* The same of a held handle, by positions or by what it holds.              *)
LEMMA HoldsClosed ==
  ASSUME NEW h \in Kind
  PROVE  /\ Holds(h) \subseteq Object
         /\ "mpi" \in Holds(h)
         /\ "vchn" \in Holds(h) => "grp" \in Holds(h)
         /\ "buf" \in Holds(h) => "pool" \in Holds(h)
         /\ Holds(h) \cap {"stream", "cbind", "vbind"} # {} => "venc" \in Holds(h)
BY HeldObjects, Kinds DEF Object, Bind, Frame

LEMMA HandleIsNoKind == NoHandle \notin Kind
BY Kinds DEF NoHandle
-----------------------------------------------------------------------------
(* What is referenced, and by what steps that changes.                      *)

LEMMA LeftStep ==
  ASSUME OwnedTypeOK, ~Idle
  PROVE  /\ FieldAt(dropping, field) \in Object
         /\ LeftFrom(field) = {FieldAt(dropping, field)} \cup LeftFrom(field + 1)
         /\ field = Len(Fields[dropping]) => LeftFrom(field + 1) = {}
         /\ Len(Fields[dropping]) \in Nat
         /\ dropping \in Kind
<1>1. dropping \in Kind /\ Closed(Fields[dropping]) /\ field \in 1 .. Len(Fields[dropping])
  BY FieldsClosed DEF Idle, OwnedTypeOK
<1>2. QED
  BY <1>1, HandleIsNoKind DEF LeftFrom, FieldAt, Closed

LEMMA NextFieldLeft ==
  ASSUME OwnedTypeOK, ~Idle, NextField
  PROVE  /\ dropping' \in Kind \cup {NoHandle}
         /\ field' \in Nat
         /\ dropping' = NoHandle => field' = 1
         /\ dropping' # NoHandle => field' \in 1 .. Len(Fields[dropping'])
         /\ LeftFrom(field)' = LeftFrom(field + 1)
<1>1. CASE field < Len(Fields[dropping])
  BY <1>1, LeftStep DEF NextField, LeftFrom, FieldAt, OwnedTypeOK, Idle
<1>2. CASE ~(field < Len(Fields[dropping]))
  <2>1. field = Len(Fields[dropping])
    BY <1>2, LeftStep DEF OwnedTypeOK, Idle
  <2>2. dropping' = NoHandle /\ field' = 1
    BY <1>2 DEF NextField
  <2>3. LeftFrom(field)' = {}
    BY <2>2 DEF LeftFrom
  <2>4. QED
    BY <2>1, <2>2, <2>3, LeftStep
<1>3. QED
  BY <1>1, <1>2

LEMMA ReferencedAfterDrop ==
  ASSUME OwnedTypeOK, NEW h \in Kind, Drop(h), NEW o \in Object
  PROVE  Referenced(o)' <=> Referenced(o)
<1>1. LeftFrom(field) = {}
  BY DEF Drop, Idle, LeftFrom
<1>2. LeftFrom(field)' = Holds(h)
  BY HandleIsNoKind, FieldsClosed DEF Drop, LeftFrom, FieldAt, Holds, Range, Closed
<1>3. HeldElsewhere(o) <=> HeldElsewhere(o)' \/ o \in Holds(h)
  BY DEF HeldElsewhere, Drop
<1>4. QED
  BY <1>1, <1>2, <1>3 DEF Referenced

LEMMA ReferencedAfterNext ==
  ASSUME OwnedTypeOK, ~Idle, NextField, UNCHANGED held, NEW o \in Object
  PROVE  Referenced(o)' <=> HeldElsewhere(o) \/ o \in LeftFrom(field + 1)
BY NextFieldLeft DEF Referenced, HeldElsewhere

(* The field that goes refers to its object, and to the session.             *)
LEMMA FieldReferences ==
  ASSUME OwnedTypeOK, ~Idle
  PROVE  /\ Referenced(FieldAt(dropping, field))
         /\ Referenced("mpi")
         /\ FieldAt(dropping, field) = "vchn" => Referenced("grp")
         /\ FieldAt(dropping, field) = "stream" => Referenced("venc")
<1>1. dropping \in Kind /\ Closed(Fields[dropping]) /\ field \in 1 .. Len(Fields[dropping])
  BY FieldsClosed DEF Idle, OwnedTypeOK
<1>2. \A j \in field .. Len(Fields[dropping]) : Fields[dropping][j] \in LeftFrom(field)
  BY <1>1, HandleIsNoKind DEF LeftFrom, FieldAt
<1>3. QED
  BY <1>1, <1>2 DEF Referenced, FieldAt, Closed

(* The last reference to an object goes after all that need it.              *)
LEMMA LastIsLast ==
  ASSUME OwnedTypeOK, NEW o \in Object, NEW p \in Object, LastOf(o), o # p,
         \A h \in Kind : p \in Holds(h) => o \in Holds(h),
         \A h \in Kind : \A i \in 1 .. Len(Fields[h]) :
            Fields[h][i] = p => \E j \in i + 1 .. Len(Fields[h]) : Fields[h][j] = o
  PROVE  ~Referenced(p)
<1>1. /\ dropping \in Kind /\ Closed(Fields[dropping]) /\ field \in 1 .. Len(Fields[dropping])
      /\ ~Idle
  BY FieldsClosed DEF Idle, OwnedTypeOK, LastOf
<1>2. ~HeldElsewhere(p)
  BY DEF HeldElsewhere, LastOf, OwnedTypeOK
<1>3. ASSUME p \in LeftFrom(field) PROVE FALSE
  <2>1. PICK i \in field .. Len(Fields[dropping]) : Fields[dropping][i] = p
    BY <1>1, <1>3, HandleIsNoKind DEF LeftFrom, FieldAt
  <2>2. i \in 1 .. Len(Fields[dropping]) /\ i > field
    <3>1. i # field
      BY <2>1 DEF LastOf, FieldAt
    <3>2. QED
      BY <3>1, <2>1, <1>1 DEF Closed
  <2>3. PICK j \in i + 1 .. Len(Fields[dropping]) : Fields[dropping][j] = o
    BY <1>1, <2>1, <2>2
  <2>4. o \in LeftFrom(field + 1)
    BY <1>1, <2>2, <2>3, HandleIsNoKind DEF LeftFrom, FieldAt, Closed
  <2>5. QED
    BY <2>4 DEF LastOf
<1>4. QED
  BY <1>2, <1>3 DEF Referenced

LEMMA LastGroup == ASSUME OwnedTypeOK, LastOf("grp") PROVE ~Referenced("vchn")
<1>1. "grp" \in Object /\ "vchn" \in Object
  BY DEF Object
<1>2. QED
  BY <1>1, LastIsLast, HoldsClosed, FieldsClosed DEF Closed

LEMMA LastPool == ASSUME OwnedTypeOK, LastOf("pool") PROVE ~Referenced("buf")
<1>1. "pool" \in Object /\ "buf" \in Object
  BY DEF Object
<1>2. QED
  BY <1>1, LastIsLast, HoldsClosed, FieldsClosed DEF Closed

LEMMA LastVenc ==
  ASSUME OwnedTypeOK, LastOf("venc"), NEW p \in {"stream", "cbind", "vbind"}
  PROVE  ~Referenced(p)
<1>1. "venc" \in Object /\ p \in Object /\ p # "venc"
  BY DEF Object, Bind, Frame
<1>2. \A h \in Kind : p \in Holds(h) => "venc" \in Holds(h)
  BY HoldsClosed
<1>3. \A h \in Kind : \A i \in 1 .. Len(Fields[h]) :
        Fields[h][i] = p => \E j \in i + 1 .. Len(Fields[h]) : Fields[h][j] = "venc"
  BY FieldsClosed DEF Closed
<1>4. QED
  BY <1>1, <1>2, <1>3, LastIsLast

LEMMA LastMpi ==
  ASSUME OwnedTypeOK, LastOf("mpi"), NEW p \in Object, p # "mpi"
  PROVE  ~Referenced(p)
<1>1. "mpi" \in Object
  BY DEF Object
<1>2. \A h \in Kind : \A i \in 1 .. Len(Fields[h]) :
        Fields[h][i] = p => \E j \in i + 1 .. Len(Fields[h]) : Fields[h][j] = "mpi"
  <2>1. SUFFICES ASSUME NEW h \in Kind, NEW i \in 1 .. Len(Fields[h]), Fields[h][i] = p
                 PROVE  \E j \in i + 1 .. Len(Fields[h]) : Fields[h][j] = "mpi"
    OBVIOUS
  <2>2. Len(Fields[h]) \in Nat \ {0} /\ Fields[h][Len(Fields[h])] = "mpi"
    BY FieldsClosed DEF Closed
  <2>3. i # Len(Fields[h])
    BY <2>1, <2>2
  <2>4. Len(Fields[h]) \in i + 1 .. Len(Fields[h])
    BY <2>2, <2>3
  <2>5. QED
    BY <2>2, <2>4
<1>3. QED
  BY <1>1, <1>2, LastIsLast, HoldsClosed
-----------------------------------------------------------------------------
(* The inductive invariant of the handles.  What is referenced is alive on   *)
(* the Rust side; what is alive there exists in the library, and runs if it  *)
(* believes so; and without faults there is nothing else in the library but  *)
(* the configuration of a VPSS channel.                                      *)
Linked == \A o \in Object : Referenced(o) <=> inner[o] # "none"

Backed ==
  \A o \in Object :
    /\ inner[o] # "none" => native[o] # "none"
    /\ inner[o] = "running" => native[o] = "running"

Clean ==
  faults = 0 =>
    /\ orphans = 0
    /\ refused = FALSE
    /\ \A o \in Object :
         native[o] = inner[o] \/ (o = "vchn" /\ inner[o] = "none" /\ native[o] = "made")

OInv == OwnedTypeOK /\ Linked /\ Backed /\ Clean

LEMMA HeldReferences ==
  ASSUME NEW h \in held, NEW o \in Holds(h)
  PROVE  Referenced(o)
BY DEF Referenced, HeldElsewhere

LEMMA OwnedInitial == OwnedInit => OInv
<1> SUFFICES ASSUME OwnedInit PROVE OInv
  OBVIOUS
<1>1. OwnedTypeOK
  <2>1. refused \in BOOLEAN
    BY DEF OwnedInit
  <2>2. held \in SUBSET Kind /\ dropping \in Kind \cup {NoHandle} /\ field \in Nat
    BY DEF OwnedInit
  <2>3. inner \in [Object -> Life] /\ native \in [Object -> Life]
    BY DEF OwnedInit, Life
  <2>4. orphans \in Nat /\ faults \in 0 .. MaxFaults
    BY OwnedBoundsAssumption DEF OwnedInit
  <2>5. QED
    BY <2>1, <2>2, <2>3, <2>4 DEF OwnedTypeOK, OwnedInit
<1>2. Linked
  BY DEF OwnedInit, Linked, Referenced, HeldElsewhere, LeftFrom
<1>3. QED
  BY <1>1, <1>2 DEF OwnedInit, OInv, Backed, Clean

LEMMA OwnedStutter == ASSUME OInv, UNCHANGED ownedVars PROVE OInv'
BY DEF OInv, ownedVars, OwnedTypeOK, Linked, Backed, Clean, Referenced, HeldElsewhere,
       LeftFrom, FieldAt

(* A new object and a handle to it and to objects that others refer to.      *)
LEMMA MakeKeeps ==
  ASSUME OInv, NEW h \in Kind, NEW o \in Object, NEW life \in {"made", "running"},
         Make(h, o, life), o \in Holds(h),
         \A p \in Holds(h) : p = o \/ Referenced(p),
         life = "made" \/ native[o] = "running"
  PROVE  OInv'
<1>1. inner[o] = "none"
  BY DEF Make, OInv, Linked
<1>2. OwnedTypeOK'
  BY DEF OInv, OwnedTypeOK, Make, Life, Idle
<1>3. Linked'
  <2> SUFFICES ASSUME NEW p \in Object PROVE (Referenced(p) <=> inner[p] # "none")'
    BY DEF Linked
  <2>1. Referenced(p)' <=> Referenced(p) \/ p = o
    <3>1. /\ Referenced(p)' => Referenced(p) \/ p \in Holds(h)
          /\ Referenced(p) => Referenced(p)'
          /\ p \in Holds(h) => Referenced(p)'
      BY DEF Make, Idle, Referenced, LeftFrom, HeldElsewhere
    <3>2. QED
      BY <3>1
  <2>2. inner'[p] = IF p = o THEN "made" ELSE inner[p]
    BY DEF Make, OInv, OwnedTypeOK
  <2>3. QED
    BY <2>1, <2>2 DEF OInv, Linked
<1>4. Backed'
  BY DEF Make, OInv, OwnedTypeOK, Backed
<1>5. Clean'
  BY <1>1 DEF Make, OInv, OwnedTypeOK, Clean
<1>6. QED
  BY <1>2, <1>3, <1>4, <1>5 DEF OInv

(* The object changes its state on both sides.                               *)
LEMMA SetLifeKeeps ==
  ASSUME OInv, NEW h \in Kind, NEW o \in Object,
         NEW before \in {"made", "running"}, NEW after \in {"made", "running"},
         SetLife(h, o, before, after)
  PROVE  OInv'
<1>1. OwnedTypeOK'
  BY DEF OInv, OwnedTypeOK, SetLife, Life
<1>2. Linked'
  <2> SUFFICES ASSUME NEW p \in Object PROVE (Referenced(p) <=> inner[p] # "none")'
    BY DEF Linked
  <2>1. Referenced(p)' <=> Referenced(p)
    BY DEF SetLife, Referenced, HeldElsewhere, LeftFrom
  <2>2. QED
    BY <2>1 DEF SetLife, OInv, Linked, OwnedTypeOK
<1>3. Backed' /\ Clean'
  BY DEF SetLife, OInv, OwnedTypeOK, Backed, Clean
<1>4. QED
  BY <1>1, <1>2, <1>3 DEF OInv

(* Handles are exchanged for others that refer to the same objects.          *)
LEMMA ExchangeKeeps ==
  ASSUME OInv, held' \in SUBSET Kind,
         UNCHANGED <<dropping, field, inner, native, orphans, refused, faults>>,
         \A p \in Object : Referenced(p)' <=> Referenced(p)
  PROVE  OInv'
<1>1. OwnedTypeOK'
  BY DEF OInv, OwnedTypeOK
<1>2. QED
  BY <1>1 DEF OInv, Linked, Backed, Clean

LEMMA DropKeeps ==
  ASSUME OInv, NEW h \in held, Drop(h)
  PROVE  OInv'
<1>1. h \in Kind
  BY DEF OInv, OwnedTypeOK
<1>2. OwnedTypeOK'
  BY <1>1, FieldsClosed, HandleIsNoKind DEF OInv, OwnedTypeOK, Drop, Closed
<1>3. \A p \in Object : Referenced(p)' <=> Referenced(p)
  BY <1>1, ReferencedAfterDrop DEF OInv
<1>4. QED
  BY <1>2, <1>3 DEF OInv, Linked, Backed, Clean, Drop

LEMMA DropSharedKeeps == ASSUME OInv, DropShared PROVE OInv'
<1>1. OwnedTypeOK'
  BY NextFieldLeft DEF OInv, OwnedTypeOK, DropShared
<1>2. ASSUME NEW p \in Object PROVE Referenced(p)' <=> Referenced(p)
  <2>1. Referenced(p)' <=> HeldElsewhere(p) \/ p \in LeftFrom(field + 1)
    BY ReferencedAfterNext DEF OInv, DropShared
  <2>2. LeftFrom(field) = {FieldAt(dropping, field)} \cup LeftFrom(field + 1)
    BY LeftStep DEF OInv, DropShared
  <2>3. QED
    BY <2>1, <2>2 DEF Referenced, DropShared, LastOf
<1>3. QED
  BY <1>1, <1>2 DEF OInv, Linked, Backed, Clean, DropShared

(* The last reference to an object goes, and its Drop leaves alone what is   *)
(* referenced.                                                               *)
LEMMA GoneKeeps ==
  ASSUME OInv, NEW o \in Object, LastOf(o), Gone(o),
         native' \in [Object -> Life],
         \A p \in Object : p # o /\ Referenced(p) => native'[p] = native[p],
         orphans' \in Nat, refused' \in BOOLEAN, faults' \in 0 .. MaxFaults,
         Clean'
  PROVE  OInv'
<1>1. /\ NextField /\ UNCHANGED held /\ ~Idle
      /\ inner' = [inner EXCEPT ![o] = "none"]
  BY DEF Gone, LastOf
<1>2. OwnedTypeOK'
  BY <1>1, NextFieldLeft DEF OInv, OwnedTypeOK, Life
<1>3. ASSUME NEW p \in Object PROVE Referenced(p)' <=> Referenced(p) /\ p # o
  <2>1. Referenced(p)' <=> HeldElsewhere(p) \/ p \in LeftFrom(field + 1)
    BY <1>1, ReferencedAfterNext DEF OInv
  <2>2. LeftFrom(field) = {o} \cup LeftFrom(field + 1)
    BY <1>1, LeftStep DEF OInv, LastOf
  <2>3. QED
    BY <2>1, <2>2 DEF Referenced, LastOf
<1>4. Linked'
  <2> SUFFICES ASSUME NEW p \in Object PROVE (Referenced(p) <=> inner[p] # "none")'
    BY DEF Linked
  <2>1. inner'[p] = IF p = o THEN "none" ELSE inner[p]
    BY <1>1 DEF OInv, OwnedTypeOK
  <2>2. QED
    BY <2>1, <1>3 DEF OInv, Linked
<1>5. Backed'
  BY <1>1 DEF OInv, OwnedTypeOK, Backed, Linked
<1>6. QED
  BY <1>2, <1>4, <1>5 DEF OInv
-----------------------------------------------------------------------------
(* The steps that make objects and change their state.                      *)

LEMMA NewObjectKeeps == ASSUME OInv, NewObject PROVE OInv'
<1>1. CASE OpenMpi
  <2>1. Make("RockitMpi", "mpi", "made")
    BY <1>1 DEF OpenMpi
  <2>2. \A p \in Holds("RockitMpi") : p = "mpi" \/ Referenced(p)
    BY <1>1, HeldReferences, HeldObjects DEF OpenMpi
  <2>3. "RockitMpi" \in Kind /\ "mpi" \in Object /\ "mpi" \in Holds("RockitMpi")
    BY Kinds, HeldObjects DEF Object, Bind, Frame
  <2>4. QED
    BY <2>1, <2>2, <2>3, MakeKeeps
<1>2. CASE NewVenc
  <2>1. Make("VencChannelOwned", "venc", "made")
    BY <1>2 DEF NewVenc
  <2>2. \A p \in Holds("VencChannelOwned") : p = "venc" \/ Referenced(p)
    BY <1>2, HeldReferences, HeldObjects DEF NewVenc
  <2>3. "VencChannelOwned" \in Kind /\ "venc" \in Object /\ "venc" \in Holds("VencChannelOwned")
    BY Kinds, HeldObjects DEF Object, Bind, Frame
  <2>4. QED
    BY <2>1, <2>2, <2>3, MakeKeeps
<1>3. CASE NewGroup
  <2>1. Make("VpssGroupOwned", "grp", "made")
    BY <1>3 DEF NewGroup
  <2>2. \A p \in Holds("VpssGroupOwned") : p = "grp" \/ Referenced(p)
    BY <1>3, HeldReferences, HeldObjects DEF NewGroup
  <2>3. "VpssGroupOwned" \in Kind /\ "grp" \in Object /\ "grp" \in Holds("VpssGroupOwned")
    BY Kinds, HeldObjects DEF Object, Bind, Frame
  <2>4. QED
    BY <2>1, <2>2, <2>3, MakeKeeps
<1>4. CASE NewVpssChannel
  <2>1. PICK life \in {"made", "running"} :
          Make("VpssChannelOwned", "vchn", life) /\ (life = "made" \/ native["vchn"] = "running")
    BY <1>4 DEF NewVpssChannel
  <2>2. \A p \in Holds("VpssChannelOwned") : p = "vchn" \/ Referenced(p)
    BY <1>4, HeldReferences, HeldObjects DEF NewVpssChannel
  <2>3. "VpssChannelOwned" \in Kind /\ "vchn" \in Object /\ "vchn" \in Holds("VpssChannelOwned")
    BY Kinds, HeldObjects DEF Object, Bind, Frame
  <2>4. QED
    BY <2>1, <2>2, <2>3, MakeKeeps
<1>5. CASE NewCamera
  <2>1. Make("CameraOwned", "cam", "made")
    BY <1>5 DEF NewCamera
  <2>2. \A p \in Holds("CameraOwned") : p = "cam" \/ Referenced(p)
    BY <1>5, HeldReferences, HeldObjects DEF NewCamera
  <2>3. "CameraOwned" \in Kind /\ "cam" \in Object /\ "cam" \in Holds("CameraOwned")
    BY Kinds, HeldObjects DEF Object, Bind, Frame
  <2>4. QED
    BY <2>1, <2>2, <2>3, MakeKeeps
<1>6. CASE NewViChannel
  <2>1. Make("ViChannelOwned", "vi", "made")
    BY <1>6 DEF NewViChannel
  <2>2. \A p \in Holds("ViChannelOwned") : p = "vi" \/ Referenced(p)
    BY <1>6, HeldReferences, HeldObjects DEF NewViChannel
  <2>3. "ViChannelOwned" \in Kind /\ "vi" \in Object /\ "vi" \in Holds("ViChannelOwned")
    BY Kinds, HeldObjects DEF Object, Bind, Frame
  <2>4. QED
    BY <2>1, <2>2, <2>3, MakeKeeps
<1>7. CASE NewPool
  <2>1. Make("MemBufferPoolOwned", "pool", "made")
    BY <1>7 DEF NewPool
  <2>2. \A p \in Holds("MemBufferPoolOwned") : p = "pool" \/ Referenced(p)
    BY <1>7, HeldReferences, HeldObjects DEF NewPool
  <2>3. "MemBufferPoolOwned" \in Kind /\ "pool" \in Object /\ "pool" \in Holds("MemBufferPoolOwned")
    BY Kinds, HeldObjects DEF Object, Bind, Frame
  <2>4. QED
    BY <2>1, <2>2, <2>3, MakeKeeps
<1>8. CASE GetBuffer
  <2>1. Make("MemBufferOwned", "buf", "made")
    BY <1>8 DEF GetBuffer
  <2>2. \A p \in Holds("MemBufferOwned") : p = "buf" \/ Referenced(p)
    BY <1>8, HeldReferences, HeldObjects DEF GetBuffer
  <2>3. "MemBufferOwned" \in Kind /\ "buf" \in Object /\ "buf" \in Holds("MemBufferOwned")
    BY Kinds, HeldObjects DEF Object, Bind, Frame
  <2>4. QED
    BY <2>1, <2>2, <2>3, MakeKeeps
<1>9. CASE BindVi
  <2>1. Make("ViVencBindOwned", "cbind", "made")
    BY <1>9 DEF BindVi
  <2>2. \A p \in Holds("ViVencBindOwned") : p = "cbind" \/ Referenced(p)
    BY <1>9, HeldReferences, HeldObjects DEF BindVi
  <2>3. "ViVencBindOwned" \in Kind /\ "cbind" \in Object /\ "cbind" \in Holds("ViVencBindOwned")
    BY Kinds, HeldObjects DEF Object, Bind, Frame
  <2>4. QED
    BY <2>1, <2>2, <2>3, MakeKeeps
<1>10. CASE BindVpss
  <2>1. Make("VpssVencBindOwned", "vbind", "made")
    BY <1>10 DEF BindVpss
  <2>2. \A p \in Holds("VpssVencBindOwned") : p = "vbind" \/ Referenced(p)
    BY <1>10, HeldReferences, HeldObjects DEF BindVpss
  <2>3. "VpssVencBindOwned" \in Kind /\ "vbind" \in Object /\ "vbind" \in Holds("VpssVencBindOwned")
    BY Kinds, HeldObjects DEF Object, Bind, Frame
  <2>4. QED
    BY <2>1, <2>2, <2>3, MakeKeeps
<1>11. CASE BindGroupToVi
  <2>1. Make("VpssViBindOwned", "gbind", "made")
    BY <1>11 DEF BindGroupToVi
  <2>2. \A p \in Holds("VpssViBindOwned") : p = "gbind" \/ Referenced(p)
    BY <1>11, HeldReferences, HeldObjects DEF BindGroupToVi
  <2>3. "VpssViBindOwned" \in Kind /\ "gbind" \in Object /\ "gbind" \in Holds("VpssViBindOwned")
    BY Kinds, HeldObjects DEF Object, Bind, Frame
  <2>4. QED
    BY <2>1, <2>2, <2>3, MakeKeeps
<1>12. CASE GetStream
  <2>1. Make("VencStreamOwned", "stream", "made")
    BY <1>12 DEF GetStream
  <2>2. \A p \in Holds("VencStreamOwned") : p = "stream" \/ Referenced(p)
    BY <1>12, HeldReferences, HeldObjects DEF GetStream
  <2>3. "VencStreamOwned" \in Kind /\ "stream" \in Object /\ "stream" \in Holds("VencStreamOwned")
    BY Kinds, HeldObjects DEF Object, Bind, Frame
  <2>4. QED
    BY <2>1, <2>2, <2>3, MakeKeeps
<1>13. CASE GetViFrame
  <2>1. Make("ViFrameOwned", "viframe", "made")
    BY <1>13 DEF GetViFrame
  <2>2. \A p \in Holds("ViFrameOwned") : p = "viframe" \/ Referenced(p)
    BY <1>13, HeldReferences, HeldObjects DEF GetViFrame
  <2>3. "ViFrameOwned" \in Kind /\ "viframe" \in Object /\ "viframe" \in Holds("ViFrameOwned")
    BY Kinds, HeldObjects DEF Object, Bind, Frame
  <2>4. QED
    BY <2>1, <2>2, <2>3, MakeKeeps
<1>14. CASE GetVpssFrame
  <2>1. Make("VpssFrameOwned", "vpssframe", "made")
    BY <1>14 DEF GetVpssFrame
  <2>2. \A p \in Holds("VpssFrameOwned") : p = "vpssframe" \/ Referenced(p)
    BY <1>14, HeldReferences, HeldObjects DEF GetVpssFrame
  <2>3. "VpssFrameOwned" \in Kind /\ "vpssframe" \in Object /\ "vpssframe" \in Holds("VpssFrameOwned")
    BY Kinds, HeldObjects DEF Object, Bind, Frame
  <2>4. QED
    BY <2>1, <2>2, <2>3, MakeKeeps
<1>15. CASE OpenPipe
  <2>1. held' = held \cup {"ViPipeOwned"} /\ "ViPipeOwned" \in Kind
    BY <1>15, Kinds DEF OpenPipe
  <2>2. \A p \in Holds("ViPipeOwned") : HeldElsewhere(p)
    BY <1>15, HeldObjects DEF OpenPipe, HeldElsewhere
  <2>3. UNCHANGED <<dropping, field, inner, native, orphans, refused, faults>>
    BY <1>15 DEF OpenPipe
  <2>4. \A p \in Object : Referenced(p)' <=> Referenced(p)
    BY <2>1, <2>2, <2>3 DEF Referenced, HeldElsewhere, LeftFrom
  <2>5. QED
    BY <2>1, <2>3, <2>4, ExchangeKeeps DEF OInv, OwnedTypeOK
<1>16. QED
  BY <1>1, <1>2, <1>3, <1>4, <1>5, <1>6, <1>7, <1>8, <1>9, <1>10, <1>11, <1>12, <1>13, <1>14, <1>15 DEF NewObject

LEMMA ChangeStateKeeps == ASSUME OInv, ChangeState PROVE OInv'
<1>1. "venc" \in Object /\ "grp" \in Object /\ "vchn" \in Object
  BY DEF Object
<1>2. "VencChannelOwned" \in Kind /\ "VpssGroupOwned" \in Kind /\ "VpssChannelOwned" \in Kind
  BY Kinds
<1>3. CASE StartVenc
  BY <1>1, <1>2, <1>3, SetLifeKeeps DEF StartVenc
<1>4. CASE StartGroup
  BY <1>1, <1>2, <1>4, SetLifeKeeps DEF StartGroup
<1>5. CASE EnableChannel
  BY <1>1, <1>2, <1>5, SetLifeKeeps DEF EnableChannel
<1>6. CASE DisableChannel
  BY <1>1, <1>2, <1>6, SetLifeKeeps DEF DisableChannel
<1>7. QED
  BY <1>3, <1>4, <1>5, <1>6 DEF ChangeState

LEMMA BuildEncoderKeeps == ASSUME OInv, BuildEncoder PROVE OInv'
<1> DEFINE parts == {"VencChannelOwned", "VpssVencBindOwned", "MemBufferPoolOwned"}
<1>1. BuildFrom(parts, "SimpleEncoder")
  BY DEF BuildEncoder
<1>2. /\ held' = (held \ parts) \cup {"SimpleEncoder"}
      /\ parts \cup {"RockitMpi"} \subseteq held
      /\ UNCHANGED <<dropping, field, inner, native, orphans, refused, faults>>
  BY <1>1 DEF BuildFrom
<1>3. Holds("SimpleEncoder") = UNION {Holds(part) : part \in parts}
  BY HeldObjects
<1>4. ASSUME NEW p \in Object PROVE Referenced(p)' <=> Referenced(p)
  <2>1. HeldElsewhere(p) <=> (\E h \in held \ parts : p \in Holds(h)) \/ p \in Holds("SimpleEncoder")
    BY <1>2, <1>3 DEF HeldElsewhere
  <2>2. HeldElsewhere(p)' <=> (\E h \in held \ parts : p \in Holds(h)) \/ p \in Holds("SimpleEncoder")
    BY <1>2 DEF HeldElsewhere
  <2>3. QED
    BY <1>2, <2>1, <2>2 DEF Referenced, LeftFrom
<1>5. held' \in SUBSET Kind
  BY <1>2, Kinds DEF OInv, OwnedTypeOK
<1>6. QED
  BY <1>2, <1>4, <1>5, ExchangeKeeps

LEMMA BuildEncoderNv12Keeps == ASSUME OInv, BuildEncoderNv12 PROVE OInv'
<1> DEFINE parts == {"VencChannelOwned", "MemBufferPoolOwned"}
<1>1. BuildFrom(parts, "SimpleEncoderNv12")
  BY DEF BuildEncoderNv12
<1>2. /\ held' = (held \ parts) \cup {"SimpleEncoderNv12"}
      /\ parts \cup {"RockitMpi"} \subseteq held
      /\ UNCHANGED <<dropping, field, inner, native, orphans, refused, faults>>
  BY <1>1 DEF BuildFrom
<1>3. Holds("SimpleEncoderNv12") = UNION {Holds(part) : part \in parts}
  BY HeldObjects
<1>4. ASSUME NEW p \in Object PROVE Referenced(p)' <=> Referenced(p)
  <2>1. HeldElsewhere(p) <=> (\E h \in held \ parts : p \in Holds(h)) \/ p \in Holds("SimpleEncoderNv12")
    BY <1>2, <1>3 DEF HeldElsewhere
  <2>2. HeldElsewhere(p)' <=> (\E h \in held \ parts : p \in Holds(h)) \/ p \in Holds("SimpleEncoderNv12")
    BY <1>2 DEF HeldElsewhere
  <2>3. QED
    BY <1>2, <2>1, <2>2 DEF Referenced, LeftFrom
<1>5. held' \in SUBSET Kind
  BY <1>2, Kinds DEF OInv, OwnedTypeOK
<1>6. QED
  BY <1>2, <1>4, <1>5, ExchangeKeeps
-----------------------------------------------------------------------------
(* The steps that tear objects down.                                        *)

(* What the Drop of a referenced object finds.                               *)
LEMMA DropFinds ==
  ASSUME OInv, NEW o \in Object, LastOf(o)
  PROVE  /\ Referenced(o) /\ Referenced("mpi") /\ native["mpi"] # "none"
         /\ inner[o] \in {"made", "running"} /\ native[o] \in {"made", "running"}
         /\ inner[o] = "running" => native[o] = "running"
         /\ faults = 0 => native[o] = inner[o]
<1>1. Referenced(o) /\ Referenced("mpi")
  BY FieldReferences DEF LastOf, OInv
<1>2. "mpi" \in Object
  BY DEF Object
<1>3. QED
  BY <1>1, <1>2 DEF OInv, Linked, Backed, Clean, OwnedTypeOK, Life

(* An unreferenced object is gone in the library too, without faults.        *)
LEMMA UnreferencedIsGone ==
  ASSUME OInv, NEW o \in Object, ~Referenced(o), faults = 0
  PROVE  native[o] = "none" \/ (o = "vchn" /\ native[o] = "made")
BY DEF OInv, Linked, Clean

LEMMA SpendCounts ==
  ASSUME OwnedTypeOK, NEW n \in Nat, Spend(n)
  PROVE  faults' \in 0 .. MaxFaults /\ (faults' = 0 => faults = 0 /\ n = 0)
BY DEF OwnedTypeOK, Spend

LEMMA BlockCounts == BlockInPool \in Nat /\ (native["buf"] = "none" => BlockInPool = 0)
BY DEF BlockInPool, One

LEMMA DropVencKeeps == ASSUME OInv, DropVenc PROVE OInv'
<1>1. PICK stopFails, destroyFails \in BOOLEAN :
        LET stops == inner["venc"] = "running"
            after == IF stops /\ ~stopFails /\ Up("venc") THEN "made" ELSE native["venc"]
            busy == after = "running" \/ ~VencUnbound \/ ~Up("venc")
        IN  /\ stopFails => stops
            /\ native' = [native EXCEPT !["venc"] =
                            IF destroyFails \/ busy THEN after ELSE "none"]
            /\ refused' = (refused \/ (busy /\ ~destroyFails))
            /\ Spend(One(stopFails) + One(destroyFails))
  BY DEF DropVenc
<1> DEFINE stops == inner["venc"] = "running"
           after == IF stops /\ ~stopFails /\ Up("venc") THEN "made" ELSE native["venc"]
           busy == after = "running" \/ ~VencUnbound \/ ~Up("venc")
<1>2. LastOf("venc") /\ Gone("venc") /\ UNCHANGED orphans /\ "venc" \in Object
  BY DEF DropVenc, Object
<1>3. native' \in [Object -> Life]
  BY <1>1, <1>2 DEF OInv, OwnedTypeOK, Life
<1>4. /\ One(stopFails) + One(destroyFails) \in Nat
      /\ One(stopFails) + One(destroyFails) = 0 => ~stopFails /\ ~destroyFails
  BY DEF One
<1>5. faults' \in 0 .. MaxFaults /\ (faults' = 0 => faults = 0 /\ ~stopFails /\ ~destroyFails)
  BY <1>1, <1>4, SpendCounts DEF OInv
<1>6. ASSUME faults' = 0 PROVE ~busy
  <2>1. "cbind" \in Object /\ "vbind" \in Object
    BY DEF Object, Bind
  <2>2. VencUnbound
    BY <1>2, <1>5, <1>6, <2>1, LastVenc, UnreferencedIsGone DEF VencUnbound, OInv
  <2>3. Up("venc") /\ native["venc"] = inner["venc"] /\ inner["venc"] \in {"made", "running"}
    BY <1>2, <1>5, <1>6, DropFinds DEF Up
  <2>4. QED
    BY <2>2, <2>3, <1>5, <1>6
<1>7. refused' \in BOOLEAN
  BY <1>1
<1>8. Clean'
  <2> SUFFICES ASSUME faults' = 0
               PROVE  /\ orphans' = 0 /\ refused' = FALSE
                      /\ \A o \in Object : native'[o] = inner'[o] \/
                           (o = "vchn" /\ inner'[o] = "none" /\ native'[o] = "made")
    BY DEF Clean
  <2>1. faults = 0 /\ ~busy /\ ~destroyFails
    BY <1>5, <1>6
  <2>2. orphans' = 0 /\ refused' = FALSE
    BY <1>1, <1>2, <2>1 DEF OInv, Clean
  <2>3. native' = [native EXCEPT !["venc"] = "none"] /\ inner' = [inner EXCEPT !["venc"] = "none"]
    BY <1>1, <1>2, <2>1 DEF Gone
  <2>4. QED
    BY <2>1, <2>2, <2>3 DEF OInv, Clean, OwnedTypeOK
<1>9. \A p \in Object : p # "venc" /\ Referenced(p) => native'[p] = native[p]
  BY <1>1 DEF OInv, OwnedTypeOK
<1>10. orphans' \in Nat
  BY <1>2 DEF OInv, OwnedTypeOK
<1>11. QED
  BY <1>2, <1>3, <1>5, <1>7, <1>8, <1>9, <1>10, GoneKeeps

LEMMA DropGroupKeeps == ASSUME OInv, DropGroup PROVE OInv'
<1>1. PICK stopFails, destroyFails \in BOOLEAN :
        LET stops == inner["grp"] = "running"
            after == IF stops /\ ~stopFails /\ Runs("grp") THEN "made" ELSE native["grp"]
            busy == after = "running" \/ ~Up("grp")
        IN  /\ stopFails => stops
            /\ native' = IF destroyFails \/ busy
                         THEN [native EXCEPT !["grp"] = after]
                         ELSE [native EXCEPT !["grp"] = "none", !["vchn"] = "none"]
            /\ refused' = (refused \/ (busy /\ ~destroyFails))
            /\ Spend(One(stopFails) + One(destroyFails))
  BY DEF DropGroup
<1> DEFINE stops == inner["grp"] = "running"
           after == IF stops /\ ~stopFails /\ Runs("grp") THEN "made" ELSE native["grp"]
           busy == after = "running" \/ ~Up("grp")
<1>2. LastOf("grp") /\ Gone("grp") /\ UNCHANGED orphans /\ "grp" \in Object
  BY DEF DropGroup, Object
<1>3. native' \in [Object -> Life]
  BY <1>1, <1>2 DEF OInv, OwnedTypeOK, Life
<1>4. /\ One(stopFails) + One(destroyFails) \in Nat
      /\ One(stopFails) + One(destroyFails) = 0 => ~stopFails /\ ~destroyFails
  BY DEF One
<1>5. faults' \in 0 .. MaxFaults /\ (faults' = 0 => faults = 0 /\ ~stopFails /\ ~destroyFails)
  BY <1>1, <1>4, SpendCounts DEF OInv
<1>6. ASSUME faults' = 0 PROVE ~busy
  <2>1. /\ Up("grp") /\ native["grp"] = inner["grp"] /\ inner["grp"] \in {"made", "running"}
    BY <1>2, <1>5, <1>6, DropFinds DEF Up
  <2>2. QED
    BY <2>1, <1>5, <1>6 DEF Runs
<1>7. refused' \in BOOLEAN
  BY <1>1
<1>8. ~Referenced("vchn") /\ "vchn" \in Object
  BY <1>2, LastGroup DEF OInv, Object
<1>9. Clean'
  <2> SUFFICES ASSUME faults' = 0
               PROVE  /\ orphans' = 0 /\ refused' = FALSE
                      /\ \A o \in Object : native'[o] = inner'[o] \/
                           (o = "vchn" /\ inner'[o] = "none" /\ native'[o] = "made")
    BY DEF Clean
  <2>1. faults = 0 /\ ~busy /\ ~destroyFails
    BY <1>5, <1>6
  <2>2. orphans' = 0 /\ refused' = FALSE
    BY <1>1, <1>2, <2>1 DEF OInv, Clean
  <2>3. /\ native' = [native EXCEPT !["grp"] = "none", !["vchn"] = "none"]
        /\ inner' = [inner EXCEPT !["grp"] = "none"]
    BY <1>1, <1>2, <2>1 DEF Gone
  <2>4. inner["vchn"] = "none"
    BY <1>8 DEF OInv, Linked
  <2>5. QED
    BY <2>1, <2>2, <2>3, <2>4 DEF OInv, Clean, OwnedTypeOK
<1>10. \A p \in Object : p # "grp" /\ Referenced(p) => native'[p] = native[p]
  BY <1>1, <1>8 DEF OInv, OwnedTypeOK
<1>11. orphans' \in Nat
  BY <1>2 DEF OInv, OwnedTypeOK
<1>12. QED
  BY <1>2, <1>3, <1>5, <1>7, <1>9, <1>10, <1>11, GoneKeeps

(* A Drop whose native call works, is refused, or fails: what the call may   *)
(* do to the object itself, and to the blocks.                               *)
LEMMA OneCallKeeps ==
  ASSUME OInv, NEW o \in Object, LastOf(o), Gone(o),
         NEW life \in Life, native' = [native EXCEPT ![o] = life],
         refused' \in BOOLEAN, orphans' \in Nat, faults' \in 0 .. MaxFaults,
         faults' = 0 => /\ faults = 0 /\ orphans' = orphans /\ refused' = refused
                        /\ life = "none" \/ (o = "vchn" /\ life = "made")
  PROVE  OInv'
<1>1. native' \in [Object -> Life]
  BY DEF OInv, OwnedTypeOK
<1>2. \A p \in Object : p # o /\ Referenced(p) => native'[p] = native[p]
  BY DEF OInv, OwnedTypeOK
<1>3. Clean'
  <2>1. inner' = [inner EXCEPT ![o] = "none"]
    BY DEF Gone
  <2>2. QED
    BY <2>1 DEF OInv, OwnedTypeOK, Clean
<1>4. QED
  BY <1>1, <1>2, <1>3, GoneKeeps

LEMMA DropVpssChannelKeeps == ASSUME OInv, DropVpssChannel PROVE OInv'
<1> DEFINE disables == inner["vchn"] = "running"
           enabled == Runs("vchn") /\ Up("grp")
<1>1. PICK fails \in BOOLEAN :
        /\ fails => disables
        /\ native' = [native EXCEPT !["vchn"] =
                        IF disables /\ enabled /\ ~fails THEN "made" ELSE @]
        /\ refused' = (refused \/ (disables /\ ~enabled /\ ~fails))
        /\ Spend(One(fails))
  BY DEF DropVpssChannel
<1>2. LastOf("vchn") /\ Gone("vchn") /\ UNCHANGED orphans /\ "vchn" \in Object
  BY DEF DropVpssChannel, Object
<1>3. orphans' \in Nat /\ native["vchn"] \in Life /\ "made" \in Life
  BY <1>2 DEF OInv, OwnedTypeOK, Life
<1>4. /\ disables => enabled
      /\ faults = 0 => native["vchn"] = inner["vchn"]
      /\ inner["vchn"] \in {"made", "running"}
  <2>1. Referenced("grp") /\ "grp" \in Object
    BY <1>2, FieldReferences DEF LastOf, OInv, Object
  <2>2. native["grp"] # "none"
    BY <2>1 DEF OInv, Linked, Backed
  <2>3. QED
    BY <1>2, <2>2, DropFinds DEF Runs, Up
<1>5. refused' \in BOOLEAN
  BY <1>1
<1>6. /\ faults' \in 0 .. MaxFaults
      /\ faults' = 0 => faults = 0 /\ ~fails
  BY SpendCounts, <1>1 DEF One, OInv
<1>7. faults' = 0 => refused' = refused
  <2>1. ~(disables /\ ~enabled /\ ~fails)
    BY <1>4
  <2>2. refused \in BOOLEAN
    BY DEF OInv, OwnedTypeOK
  <2>3. QED
    BY <1>1, <2>1, <2>2
<1>8. PICK life \in Life :
        /\ native' = [native EXCEPT !["vchn"] = life]
        /\ life = IF disables /\ enabled /\ ~fails THEN "made" ELSE native["vchn"]
  BY <1>1, <1>3
<1>9. faults' = 0 => life = "made"
  BY <1>4, <1>6, <1>8
<1>10. QED
  BY <1>2, <1>3, <1>5, <1>6, <1>7, <1>8, <1>9, OneCallKeeps

LEMMA DropSimpleKeeps == ASSUME OInv, NEW o \in Simple, DropSimple(o) PROVE OInv'
<1>1. PICK fails \in BOOLEAN :
        LET undone == Undoable(o) /\ ~fails
        IN  /\ native' = [native EXCEPT ![o] = IF undone \/ o \in Frame THEN "none" ELSE @]
            /\ orphans' = orphans + One(o \in Frame /\ ~undone)
            /\ refused' = (refused \/ (~Undoable(o) /\ ~fails))
            /\ Spend(One(fails))
  BY DEF DropSimple
<1>2. LastOf(o) /\ Gone(o) /\ o \in Object /\ o # "vchn"
  BY DEF DropSimple, Simple, Object, Bind, Frame
<1>3. Undoable(o)
  <2>1. native[o] # "none" /\ native["mpi"] # "none"
    BY <1>2, DropFinds
  <2>2. o = "stream" => native["venc"] # "none"
    <3>1. o = "stream" => Referenced("venc") /\ "venc" \in Object
      BY <1>2, FieldReferences DEF LastOf, OInv, Object
    <3>2. QED
      BY <3>1 DEF OInv, Linked, Backed
  <2>3. QED
    BY <2>1, <2>2 DEF Undoable, Up
<1>4. refused' \in BOOLEAN
  BY <1>1
<1>5. /\ faults' \in 0 .. MaxFaults
      /\ faults' = 0 => faults = 0 /\ ~fails
  BY SpendCounts, <1>1 DEF One, OInv
<1>6. faults' = 0 => refused' = refused
  <2>1. refused \in BOOLEAN
    BY DEF OInv, OwnedTypeOK
  <2>2. QED
    BY <1>1, <1>3, <2>1
<1>7. orphans' \in Nat /\ (faults' = 0 => orphans' = orphans)
  BY <1>1, <1>3, <1>5 DEF One, OInv, OwnedTypeOK
<1>8. "none" \in Life /\ native[o] \in Life
  BY <1>2 DEF OInv, OwnedTypeOK, Life
<1>9. PICK life \in Life :
        native' = [native EXCEPT ![o] = life] /\ (~fails => life = "none")
  <2>1. CASE ~fails \/ o \in Frame
    <3>1. native' = [native EXCEPT ![o] = "none"]
      BY <1>1, <1>3, <2>1
    <3>2. QED
      BY <3>1, <1>8
  <2>2. CASE fails /\ o \notin Frame
    <3>1. native' = [native EXCEPT ![o] = native[o]]
      BY <1>1, <2>2
    <3>2. QED
      BY <3>1, <1>8, <2>2
  <2>3. QED
    BY <2>1, <2>2
<1>10. faults' = 0 => /\ faults = 0 /\ orphans' = orphans /\ refused' = refused
                      /\ life = "none" \/ (o = "vchn" /\ life = "made")
  BY <1>5, <1>6, <1>7, <1>9, Zenon
<1>11. orphans' \in Nat /\ faults' \in 0 .. MaxFaults
  BY <1>5, <1>7
<1>12. QED
  BY <1>2, <1>4, <1>9, <1>10, <1>11, OneCallKeeps

LEMMA DropPoolKeeps == ASSUME OInv, DropPool PROVE OInv'
<1>1. /\ LastOf("pool") /\ Gone("pool") /\ "pool" \in Object /\ "buf" \in Object
      /\ native' = [native EXCEPT !["pool"] = "none", !["buf"] = "none"]
      /\ orphans' = orphans + BlockInPool
  BY DEF DropPool, Object
<1>2. ~Referenced("buf")
  BY <1>1, LastPool DEF OInv
<1>3. orphans' \in Nat
  BY <1>1, BlockCounts DEF OInv, OwnedTypeOK
<1>4. native' \in [Object -> Life]
  BY <1>1 DEF OInv, OwnedTypeOK, Life
<1>5. \A p \in Object : p # "pool" /\ Referenced(p) => native'[p] = native[p]
  BY <1>1, <1>2 DEF OInv, OwnedTypeOK
<1>6. faults = 0 => native["pool"] # "none" /\ native["buf"] = "none"
  BY <1>1, <1>2, DropFinds, UnreferencedIsGone
<1>7. CASE /\ UNCHANGED faults
           /\ refused' = (refused \/ native["pool"] = "none" \/ native["buf"] # "none")
  <2>1. refused' \in BOOLEAN
    BY <1>7
  <2>2. faults' \in 0 .. MaxFaults
    BY <1>7 DEF OInv, OwnedTypeOK
  <2>3. Clean'
    <3>1. faults' = 0 => orphans' = 0
      BY <1>1, <1>6, <1>7, BlockCounts DEF OInv, Clean
    <3> HIDE DEF Clean
    <3>4. faults' = 0 => refused' = FALSE
      <4>1. faults' = 0 => faults = 0 /\ refused = FALSE
        BY <1>7 DEF OInv, Clean
      <4>2. QED
        BY <1>6, <1>7, <4>1
    <3>2. ASSUME NEW p \in Object, faults' = 0
          PROVE  \/ native'[p] = inner'[p]
                 \/ p = "vchn" /\ inner'[p] = "none" /\ native'[p] = "made"
      <4>1. faults = 0 /\ inner["buf"] = "none"
        BY <1>2, <1>7, <3>2, <1>1 DEF OInv, Linked
      <4>2. CASE p \in {"pool", "buf"}
        BY <1>1, <4>1, <4>2 DEF Gone, OInv, OwnedTypeOK
      <4>3. CASE p \notin {"pool", "buf"}
        BY <1>1, <4>1, <4>3 DEF Gone, OInv, OwnedTypeOK, Clean
      <4>4. QED
        BY <4>2, <4>3
    <3>3. QED
      BY <3>1, <3>2, <3>4 DEF Clean
  <2>4. QED
    BY <1>1, <1>3, <1>4, <1>5, <2>1, <2>2, <2>3, GoneKeeps
<1>8. CASE Spend(1) /\ UNCHANGED refused
  <2>1. faults' \in 0 .. MaxFaults /\ faults' # 0
    BY <1>8, SpendCounts DEF OInv
  <2>2. refused' \in BOOLEAN
    BY <1>8 DEF OInv, OwnedTypeOK
  <2>3. Clean'
    BY <2>1 DEF Clean
  <2>4. QED
    BY <1>1, <1>3, <1>4, <1>5, <2>1, <2>2, <2>3, GoneKeeps
<1>9. QED
  BY <1>7, <1>8 DEF DropPool

LEMMA DropMpiKeeps == ASSUME OInv, DropMpi PROVE OInv'
<1>1. LastOf("mpi") /\ Gone("mpi") /\ UNCHANGED refused /\ "mpi" \in Object /\ "buf" \in Object
  BY DEF DropMpi, Object
<1>2. \A p \in Object : p # "mpi" => ~Referenced(p)
  BY <1>1, LastMpi DEF OInv
<1>3. refused' \in BOOLEAN
  BY <1>1 DEF OInv, OwnedTypeOK
<1>4. CASE /\ native' = [o \in Object |-> IF o \in Frame THEN native[o] ELSE "none"]
           /\ orphans' = orphans + BlockInPool
           /\ UNCHANGED faults
  <2>1. native' \in [Object -> Life] /\ orphans' \in Nat /\ faults' \in 0 .. MaxFaults
    BY <1>4, BlockCounts DEF OInv, OwnedTypeOK, Life
  <2>2. faults = 0 => native["buf"] = "none"
    BY <1>1, <1>2, UnreferencedIsGone
  <2>3. faults' = 0 => orphans' = 0 /\ refused' = FALSE
    BY <1>1, <1>4, <2>2, BlockCounts DEF OInv, Clean
  <2>4. ASSUME NEW p \in Object, faults' = 0 PROVE native'[p] = inner'[p]
    <3>1. faults = 0 => native'[p] = "none"
      BY <1>2, <1>4, UnreferencedIsGone DEF Frame
    <3>2. inner'[p] = "none"
      BY <1>1, <1>2 DEF Gone, OInv, OwnedTypeOK, Linked
    <3>3. QED
      BY <1>4, <2>4, <3>1, <3>2
  <2>5. Clean'
    BY <2>3, <2>4 DEF Clean
  <2>6. QED
    BY <1>1, <1>2, <1>3, <2>1, <2>5, GoneKeeps
<1>5. CASE Spend(1) /\ UNCHANGED <<native, orphans>>
  <2>1. faults' \in 0 .. MaxFaults /\ faults' # 0
    BY <1>5, SpendCounts DEF OInv
  <2>2. native' \in [Object -> Life] /\ orphans' \in Nat
    BY <1>5 DEF OInv, OwnedTypeOK
  <2>3. Clean'
    BY <2>1 DEF Clean
  <2>4. QED
    BY <1>1, <1>2, <1>3, <2>1, <2>2, <2>3, GoneKeeps
<1>6. QED
  BY <1>4, <1>5 DEF DropMpi

LEMMA DropFieldKeeps == ASSUME OInv, DropField PROVE OInv'
BY DropSharedKeeps, DropVencKeeps, DropGroupKeeps, DropVpssChannelKeeps,
   DropSimpleKeeps, DropPoolKeeps, DropMpiKeeps DEF DropField
-----------------------------------------------------------------------------
(* encode_frame, as the handles see it.                                     *)

LEMMA ReleaseCounts ==
  ASSUME OInv, native["buf"] = "none", NEW life \in Life, ReleaseBuffer(life)
  PROVE  \E buf \in Life :
           /\ native' = [native EXCEPT !["buf"] = buf, !["stream"] = life]
           /\ faults' \in 0 .. MaxFaults
           /\ faults' = 0 => faults = 0 /\ buf = "none"
<1>1. PICK fails \in BOOLEAN :
        /\ Spend(One(fails))
        /\ native' = [native EXCEPT !["buf"] = IF fails THEN "made" ELSE "none",
                                    !["stream"] = life]
  BY DEF ReleaseBuffer
<1>2. faults' \in 0 .. MaxFaults /\ (faults' = 0 => faults = 0 /\ ~fails)
  BY <1>1, SpendCounts DEF One, OInv
<1>3. QED
  BY <1>1, <1>2 DEF Life

(* A call that ends without a stream.                                        *)
LEMMA NoStreamKeeps ==
  ASSUME OInv, native["buf"] = "none", ReleaseBuffer(native["stream"]),
         UNCHANGED <<held, dropping, field, inner, orphans, refused>>
  PROVE  OInv'
<1>1. "buf" \in Object /\ "stream" \in Object /\ native["stream"] \in Life
  BY DEF OInv, OwnedTypeOK, Object, Frame
<1>2. PICK buf \in Life :
        /\ native' = [native EXCEPT !["buf"] = buf, !["stream"] = native["stream"]]
        /\ faults' \in 0 .. MaxFaults
        /\ faults' = 0 => faults = 0 /\ buf = "none"
  BY <1>1, ReleaseCounts
<1>3. \A p \in Object : native'[p] = IF p = "buf" THEN buf ELSE native[p]
  BY <1>2 DEF OInv, OwnedTypeOK
<1>4. inner["buf"] = "none"
  BY <1>1 DEF OInv, Backed
<1>5. OwnedTypeOK'
  BY <1>2 DEF OInv, OwnedTypeOK
<1>6. \A p \in Object : Referenced(p)' <=> Referenced(p)
  BY DEF Referenced, HeldElsewhere, LeftFrom
<1>7. Linked' /\ Backed'
  BY <1>3, <1>4, <1>6 DEF OInv, Linked, Backed
<1>8. Clean'
  BY <1>2, <1>3, <1>4 DEF OInv, Clean
<1>9. QED
  BY <1>5, <1>7, <1>8 DEF OInv

(* A call that returns a stream of the encoder e.                            *)
LEMMA StreamKeeps ==
  ASSUME OInv, NEW e \in Encoder, MayEncode(e), ReleaseBuffer("made"),
         held' = held \cup {"VencStreamOwned"},
         inner' = [inner EXCEPT !["stream"] = "made"],
         UNCHANGED <<dropping, field, orphans, refused>>
  PROVE  OInv'
<1>1. /\ "buf" \in Object /\ "stream" \in Object /\ "made" \in Life
      /\ "VencStreamOwned" \in Kind /\ e \in held /\ native["buf"] = "none"
  BY Kinds DEF Object, Frame, Life, MayEncode
<1>2. PICK buf \in Life :
        /\ native' = [native EXCEPT !["buf"] = buf, !["stream"] = "made"]
        /\ faults' \in 0 .. MaxFaults
        /\ faults' = 0 => faults = 0 /\ buf = "none"
  BY <1>1, ReleaseCounts
<1>3. \A p \in Object :
        /\ native'[p] = IF p = "stream" THEN "made" ELSE IF p = "buf" THEN buf ELSE native[p]
        /\ inner'[p] = IF p = "stream" THEN "made" ELSE inner[p]
  BY <1>1, <1>2 DEF OInv, OwnedTypeOK
<1>4. inner["buf"] = "none"
  BY <1>1 DEF OInv, Backed
<1>5. OwnedTypeOK'
  BY <1>1, <1>2 DEF OInv, OwnedTypeOK
<1>6. "venc" \in Holds(e) /\ "mpi" \in Holds(e)
  BY HeldObjects DEF Encoder
<1>7. ASSUME NEW p \in Object PROVE Referenced(p)' <=> Referenced(p) \/ p = "stream"
  <2>1. Referenced(p)' <=> Referenced(p) \/ p \in Holds("VencStreamOwned")
    BY DEF Referenced, HeldElsewhere, LeftFrom
  <2>2. Referenced("venc") /\ Referenced("mpi")
    BY <1>1, <1>6 DEF Referenced, HeldElsewhere
  <2>3. QED
    BY <2>1, <2>2, HeldObjects
<1>8. Linked' /\ Backed'
  BY <1>3, <1>4, <1>7 DEF OInv, Linked, Backed
<1>9. Clean'
  <2>1. faults' = 0 => orphans' = 0 /\ refused' = FALSE
    BY <1>2 DEF OInv, Clean
  <2>2. ASSUME NEW p \in Object, faults' = 0
        PROVE  \/ native'[p] = inner'[p]
               \/ p = "vchn" /\ inner'[p] = "none" /\ native'[p] = "made"
    <3>1. faults = 0 /\ buf = "none"
      BY <1>2, <2>2
    <3>2. native[p] = inner[p] \/ (p = "vchn" /\ inner[p] = "none" /\ native[p] = "made")
      BY <3>1 DEF OInv, Clean
    <3>3. CASE p = "stream"
      BY <1>3, <3>3
    <3>4. CASE p = "buf"
      BY <1>3, <1>4, <3>1, <3>4
    <3>5. CASE p \notin {"stream", "buf"}
      BY <1>3, <3>2, <3>5
    <3>6. QED
      BY <3>3, <3>4, <3>5
  <2>3. QED
    BY <2>1, <2>2 DEF Clean
<1>10. QED
  BY <1>5, <1>8, <1>9 DEF OInv

LEMMA EncodeKeeps == ASSUME OInv, NEW e \in Encoder, Encode(e) PROVE OInv'
<1>1. CASE EncodeFrame(e)
  BY <1>1, StreamKeeps DEF EncodeFrame
<1>2. CASE EncodeFrameLate(e)
  BY <1>2, NoStreamKeeps DEF EncodeFrameLate, MayEncode
<1>3. CASE EncodeFrameRefused(e)
  BY <1>3, NoStreamKeeps DEF EncodeFrameRefused, MayEncode
<1>4. QED
  BY <1>1, <1>2, <1>3 DEF Encode

LEMMA NextKeeps == ASSUME OInv, [Next]_vars PROVE OInv'
<1>1. CASE Other
  BY <1>1, NewObjectKeeps, ChangeStateKeeps, DropFieldKeeps DEF Other
<1>2. CASE Build
  BY <1>2, BuildEncoderKeeps, BuildEncoderNv12Keeps DEF Build
<1>3. CASE DropHandle
  BY <1>3, DropKeeps DEF DropHandle
<1>4. CASE \E e \in Encoder : Encode(e)
  BY <1>4, EncodeKeeps
<1>5. CASE UNCHANGED vars
  BY <1>5, OwnedStutter DEF vars
<1>6. QED
  BY <1>1, <1>2, <1>3, <1>4, <1>5 DEF Next
-----------------------------------------------------------------------------
(* The encoder keeps its parts to itself: while it lives the program has no  *)
(* handle to its channels and its pool, and cannot make one.  So nothing     *)
(* stops them, and the buffers of the pool are its own.                      *)
FrameTypeOK ==
  /\ sent \in 0 .. MaxFrames
  /\ encQueue \in Seq(Frames)
  /\ chnQueue \in Seq(Frames)
  /\ result \in 0 .. MaxFrames
  /\ failedWaits \in 0 .. MaxWaits

Parts(e) ==
  {"VencChannelOwned", "ViVencBindOwned", "VpssVencBindOwned", "MemBufferPoolOwned",
   "MemBufferOwned"}
  \cup (IF e = "SimpleEncoder" THEN {"VpssGroupOwned", "VpssChannelOwned"} ELSE {})

Alone(e) ==
  /\ \A other \in Encoder : other \in held => other = e
  /\ held \cap Parts(e) = {}
  /\ dropping # "MemBufferOwned"

Running(e) ==
  /\ inner["venc"] = "running"
  /\ e = "SimpleEncoder" => inner["vchn"] = "running" /\ inner["grp"] = "running"

(* The input queue holds the frames whose wait failed, the last ones sent.   *)
Waiting(e) ==
  IF e = "SimpleEncoder" THEN encQueue = <<>>
  ELSE /\ Len(encQueue) = failedWaits
       /\ \A i \in 1 .. Len(encQueue) : encQueue[i] = sent - Len(encQueue) + i

Answered(e) ==
  "VencStreamOwned" \in held /\ result # 0 =>
    result = sent - (IF e = "SimpleEncoderNv12" THEN failedWaits ELSE 0)

EncInv ==
  \A e \in Encoder : e \in held =>
    Alone(e) /\ Running(e) /\ Waiting(e) /\ Answered(e)

LEMMA EncoderHolds ==
  ASSUME NEW e \in Encoder
  PROVE  /\ e \in Kind /\ "venc" \in Holds(e) /\ "pool" \in Holds(e) /\ "mpi" \in Holds(e)
         /\ e = "SimpleEncoder" =>
              "grp" \in Holds(e) /\ "vchn" \in Holds(e) /\ "vbind" \in Holds(e)
         /\ e = "SimpleEncoder" \/ e = "SimpleEncoderNv12"
BY HeldObjects, Kinds DEF Encoder

(* A step that leaves the frames, the encoder's handle and its objects.      *)
LEMMA ElsewhereKeeps ==
  ASSUME EncInv, UNCHANGED frameVars,
         \A e \in Encoder : e \in held' =>
           /\ e \in held
           /\ held' \cap (Parts(e) \cup {"VencStreamOwned"} \cup Encoder) \subseteq held
           /\ dropping' # "MemBufferOwned"
           /\ \A o \in Holds(e) : inner'[o] = inner[o]
  PROVE  EncInv'
<1> SUFFICES ASSUME NEW e \in Encoder, e \in held'
             PROVE  Alone(e)' /\ Running(e)' /\ Waiting(e)' /\ Answered(e)'
  BY DEF EncInv
<1>1. e \in held /\ Alone(e) /\ Running(e) /\ Waiting(e) /\ Answered(e)
  BY DEF EncInv
<1>2. Alone(e)'
  BY <1>1 DEF Alone
<1>3. Running(e)'
  BY <1>1, EncoderHolds DEF Running
<1>4. Waiting(e)' /\ Answered(e)'
  BY <1>1 DEF Waiting, Answered, frameVars
<1>5. QED
  BY <1>2, <1>3, <1>4

(* What is made while there is an encoder is not a part of it.               *)
LEMMA NewIsElsewhere ==
  ASSUME OInv, EncInv, NewObject, NEW e \in Encoder, e \in held
  PROVE  /\ held' \cap (Parts(e) \cup {"VencStreamOwned"} \cup Encoder) \subseteq held
         /\ \A o \in Holds(e) : inner'[o] = inner[o]
<1>1. Alone(e)
  BY DEF EncInv
<1>2. \A o \in Holds(e) : Referenced(o)
  BY HeldReferences
<1>3. Holds(e) \subseteq Object
  BY EncoderHolds, HoldsClosed
<1>4. ASSUME NEW h, NEW o, NEW life, Make(h, o, life),
             h \notin Parts(e) \cup {"VencStreamOwned"} \cup Encoder
      PROVE  /\ held' \cap (Parts(e) \cup {"VencStreamOwned"} \cup Encoder) \subseteq held
             /\ \A p \in Holds(e) : inner'[p] = inner[p]
  BY <1>2, <1>3, <1>4 DEF Make, OInv, OwnedTypeOK
<1>5. CASE OpenMpi
  BY <1>4, <1>5 DEF OpenMpi, Parts, Encoder
<1>6. CASE NewVenc
  BY <1>2, <1>6, EncoderHolds DEF NewVenc, Make
<1>7. CASE NewGroup
  <2>1. CASE e = "SimpleEncoder"
    BY <1>2, <1>7, <2>1, EncoderHolds DEF NewGroup, Make
  <2>2. CASE e # "SimpleEncoder"
    BY <1>4, <1>7, <2>2 DEF NewGroup, Parts, Encoder
  <2>3. QED
    BY <2>1, <2>2
<1>8. CASE NewVpssChannel
  <2>1. CASE e = "SimpleEncoder"
    BY <1>1, <1>8, <2>1 DEF NewVpssChannel, Alone, Parts
  <2>2. CASE e # "SimpleEncoder"
    BY <1>4, <1>8, <2>2 DEF NewVpssChannel, Parts, Encoder
  <2>3. QED
    BY <2>1, <2>2
<1>9. CASE NewCamera
  BY <1>4, <1>9 DEF NewCamera, Parts, Encoder
<1>10. CASE NewViChannel
  BY <1>4, <1>10 DEF NewViChannel, Parts, Encoder
<1>11. CASE NewPool
  BY <1>2, <1>11, EncoderHolds DEF NewPool, Make
<1>12. CASE GetBuffer
  BY <1>1, <1>12 DEF GetBuffer, Alone, Parts
<1>13. CASE BindVi
  BY <1>1, <1>13 DEF BindVi, Alone, Parts
<1>14. CASE BindVpss
  BY <1>1, <1>14 DEF BindVpss, Alone, Parts
<1>15. CASE BindGroupToVi
  BY <1>4, <1>15 DEF BindGroupToVi, Parts, Encoder
<1>16. CASE GetStream
  BY <1>1, <1>16 DEF GetStream, Alone, Parts
<1>17. CASE GetViFrame
  BY <1>4, <1>17 DEF GetViFrame, Parts, Encoder
<1>18. CASE GetVpssFrame
  BY <1>4, <1>18 DEF GetVpssFrame, Parts, Encoder
<1>19. CASE OpenPipe
  BY <1>19 DEF OpenPipe, Parts, Encoder
<1>20. QED
  BY <1>5, <1>6, <1>7, <1>8, <1>9, <1>10, <1>11, <1>12, <1>13, <1>14, <1>15, <1>16, <1>17, <1>18, <1>19 DEF NewObject

LEMMA OtherKeepsEncoder == ASSUME OInv, EncInv, Other PROVE EncInv'
<1>1. UNCHANGED frameVars
  BY DEF Other
<1>2. \A e \in Encoder : e \in held => Alone(e) /\ Holds(e) \subseteq Object
  BY EncoderHolds, HoldsClosed DEF EncInv
<1>3. CASE NewObject
  <2>1. dropping' = dropping /\ \A e \in Encoder : e \in held' => e \in held
    <3>1. ASSUME NEW h \in Kind \ Encoder, NEW o, NEW life, Make(h, o, life)
          PROVE  dropping' = dropping /\ \A e \in Encoder : e \in held' => e \in held
      BY <3>1 DEF Make
    <3>2. Kind \ Encoder = {"RockitMpi", "VencChannelOwned", "VpssGroupOwned",
            "VpssChannelOwned", "CameraOwned", "ViPipeOwned", "ViChannelOwned",
            "ViVencBindOwned", "VpssVencBindOwned", "VpssViBindOwned", "MemBufferPoolOwned",
            "MemBufferOwned", "VencStreamOwned", "ViFrameOwned", "VpssFrameOwned"}
      BY Kinds DEF Encoder
    <3>3. CASE OpenPipe
      BY <3>2, <3>3 DEF OpenPipe
    <3>4. CASE OpenMpi \/ NewVenc \/ NewGroup \/ NewVpssChannel \/ NewCamera
      BY <3>1, <3>2, <3>4 DEF OpenMpi, NewVenc, NewGroup, NewVpssChannel, NewCamera
    <3>5. CASE NewViChannel \/ NewPool \/ GetBuffer \/ BindVi \/ BindVpss
      BY <3>1, <3>2, <3>5 DEF NewViChannel, NewPool, GetBuffer, BindVi, BindVpss
    <3>6. CASE BindGroupToVi \/ GetStream \/ GetViFrame \/ GetVpssFrame
      BY <3>1, <3>2, <3>6 DEF BindGroupToVi, GetStream, GetViFrame, GetVpssFrame
    <3>7. QED
      BY <1>3, <3>3, <3>4, <3>5, <3>6 DEF NewObject
  <2>2. QED
    BY <1>1, <1>2, <1>3, <2>1, NewIsElsewhere, ElsewhereKeeps DEF Alone
<1>4. CASE ChangeState
  <2>1. UNCHANGED <<held, dropping>>
    BY <1>4 DEF ChangeState, StartVenc, StartGroup, EnableChannel, DisableChannel, SetLife
  <2>2. ASSUME NEW e \in Encoder, e \in held, NEW o \in Holds(e) PROVE inner'[o] = inner[o]
    <3>1. o \in Object /\ inner \in [Object -> Life] /\ Alone(e)
      BY <1>2, <2>2 DEF OInv, OwnedTypeOK
    <3>2. CASE StartVenc
      BY <2>2, <3>1, <3>2 DEF StartVenc, SetLife, Alone, Parts
    <3>3. CASE StartGroup
      <4>1. CASE e = "SimpleEncoder"
        BY <2>2, <3>1, <3>3, <4>1 DEF StartGroup, SetLife, Alone, Parts
      <4>2. CASE e # "SimpleEncoder"
        BY <2>2, <3>1, <3>3, <4>2, HeldObjects DEF StartGroup, SetLife, Encoder
      <4>3. QED
        BY <4>1, <4>2
    <3>4. CASE EnableChannel \/ DisableChannel
      <4>1. CASE e = "SimpleEncoder"
        BY <2>2, <3>1, <3>4, <4>1 DEF EnableChannel, DisableChannel, SetLife, Alone, Parts
      <4>2. CASE e # "SimpleEncoder"
        BY <2>2, <3>1, <3>4, <4>2, HeldObjects DEF EnableChannel, DisableChannel, SetLife, Encoder
      <4>3. QED
        BY <4>1, <4>2
    <3>5. QED
      BY <1>4, <3>2, <3>3, <3>4 DEF ChangeState
  <2>3. QED
    BY <1>1, <1>2, <2>1, <2>2, ElsewhereKeeps DEF Alone
<1>5. CASE DropField
  <2>1. UNCHANGED held
    BY <1>5 DEF DropField, DropShared, DropVenc, DropGroup, DropVpssChannel, DropSimple,
               DropPool, DropMpi, Gone
  <2>2. dropping' = dropping \/ dropping' = NoHandle
    BY <1>5 DEF DropField, DropShared, DropVenc, DropGroup, DropVpssChannel, DropSimple,
               DropPool, DropMpi, Gone, NextField
  <2>3. ASSUME NEW e \in Encoder, e \in held, NEW o \in Holds(e) PROVE inner'[o] = inner[o]
    <3>1. o \in Object /\ inner \in [Object -> Life] /\ HeldElsewhere(o)
      BY <1>2, <2>3 DEF OInv, OwnedTypeOK, HeldElsewhere
    <3>2. \/ inner' = inner
          \/ \E p : LastOf(p) /\ inner' = [inner EXCEPT ![p] = "none"]
      BY <1>5 DEF DropField, DropShared, DropVenc, DropGroup, DropVpssChannel, DropSimple,
                 DropPool, DropMpi, Gone
    <3>3. QED
      BY <3>1, <3>2 DEF LastOf
  <2>4. NoHandle # "MemBufferOwned"
    BY DEF NoHandle
  <2>5. QED
    BY <1>1, <1>2, <2>1, <2>2, <2>3, <2>4, ElsewhereKeeps DEF Alone
<1>6. QED
  BY <1>3, <1>4, <1>5 DEF Other

LEMMA BuildKeepsEncoder == ASSUME OInv, EncInv, Build PROVE EncInv'
<1> SUFFICES ASSUME NEW e \in Encoder, e \in held'
             PROVE  Alone(e)' /\ Running(e)' /\ Waiting(e)' /\ Answered(e)'
  BY DEF EncInv
<1>1. \A old \in Encoder : old \notin held
  BY DEF Build, BuildEncoder, BuildEncoderNv12, BuildFrom, EncInv, Alone, Parts
<1>2. UNCHANGED <<dropping, inner>> /\ dropping = NoHandle /\ inner["venc"] = "running"
  BY DEF Build, BuildEncoder, BuildEncoderNv12, BuildFrom, Idle
<1>3. ForgetFrames
  BY DEF Build
<1>4. Waiting(e)' /\ Answered(e)'
  BY <1>3 DEF ForgetFrames, Waiting, Answered
<1>5. CASE BuildEncoder
  <2>1. e = "SimpleEncoder" /\ \A other \in Encoder : other \in held' => other = e
    BY <1>1, <1>5 DEF BuildEncoder, BuildFrom
  <2>2. held' \cap Parts(e) = {}
    BY <1>5, <2>1 DEF BuildEncoder, BuildFrom, Parts
  <2>3. inner["vchn"] = "running" /\ inner["grp"] = "running"
    BY <1>5 DEF BuildEncoder
  <2>4. QED
    BY <1>2, <1>4, <2>1, <2>2, <2>3 DEF Alone, Running, NoHandle
<1>6. CASE BuildEncoderNv12
  <2>1. e = "SimpleEncoderNv12" /\ \A other \in Encoder : other \in held' => other = e
    BY <1>1, <1>6 DEF BuildEncoderNv12, BuildFrom
  <2>2. held' \cap Parts(e) = {}
    BY <1>6, <2>1 DEF BuildEncoderNv12, BuildFrom, Parts
  <2>3. QED
    BY <1>2, <1>4, <2>1, <2>2 DEF Alone, Running, NoHandle
<1>7. QED
  BY <1>5, <1>6 DEF Build

LEMMA DropKeepsEncoder == ASSUME OInv, EncInv, DropHandle PROVE EncInv'
<1>1. PICK h \in held : /\ Drop(h)
                        /\ IF h \in Encoder THEN ForgetFrames ELSE UNCHANGED frameVars
  BY DEF DropHandle
<1>2. held' = held \ {h} /\ dropping' = h /\ UNCHANGED inner
  BY <1>1 DEF Drop
<1>3. CASE h \in Encoder
  BY <1>1, <1>2, <1>3 DEF EncInv, Alone
<1>4. CASE h \notin Encoder
  <2>1. UNCHANGED frameVars
    BY <1>1, <1>4
  <2>2. \A e \in Encoder : e \in held' => e \in held /\ h # "MemBufferOwned"
    BY <1>1, <1>2 DEF EncInv, Alone, Parts
  <2>3. QED
    BY <1>2, <2>1, <2>2, ElsewhereKeeps
<1>5. QED
  BY <1>3, <1>4

(* What the queues hold after a frame was sent.                              *)
LEMMA SendQueues ==
  ASSUME FrameTypeOK, sent < MaxFrames, NEW e \in Encoder
  PROVE  /\ sent + 1 \in Frames
         /\ QueuesAfterSend(e).enc \in Seq(Frames) /\ QueuesAfterSend(e).chn \in Seq(Frames)
         /\ e = "SimpleEncoder" =>
              /\ QueuesAfterSend(e).enc = encQueue
              /\ Runs("vchn") => QueuesAfterSend(e).chn = <<sent + 1>>
         /\ e = "SimpleEncoderNv12" =>
              QueuesAfterSend(e).enc = Append(encQueue, sent + 1)
<1>1. sent + 1 \in Frames
  BY EncoderBoundsAssumption DEF FrameTypeOK, Frames
<1>2. QED
  BY <1>1 DEF QueuesAfterSend, FrameTypeOK

LEMMA PullQueues ==
  ASSUME FrameTypeOK, sent < MaxFrames, NEW e \in Encoder, Ready(QueuesAfterSend(e)) # <<>>
  PROVE  LET q == QueuesAfterSend(e) IN
           /\ Head(Ready(q)) \in Frames
           /\ AfterPull(q).enc \in Seq(Frames) /\ AfterPull(q).chn \in Seq(Frames)
           /\ AfterPull(q).enc = IF q.enc # <<>> THEN Tail(q.enc) ELSE q.enc
           /\ q.enc = <<>> => Runs("vchn") /\ Head(Ready(q)) = Head(q.chn)
           /\ q.enc # <<>> => Head(Ready(q)) = Head(q.enc)
<1> DEFINE q == QueuesAfterSend(e)
<1>1. q.enc \in Seq(Frames) /\ q.chn \in Seq(Frames)
  BY SendQueues
<1>2. q = [enc |-> q.enc, chn |-> q.chn]
  BY DEF QueuesAfterSend
<1>3. CASE q.enc # <<>>
  <2>1. Ready(q) = q.enc
    BY <1>3 DEF Ready
  <2>2. AfterPull(q).enc = Tail(q.enc) /\ AfterPull(q).chn = q.chn
    BY <1>2, <1>3 DEF AfterPull
  <2>3. QED
    BY <1>1, <1>3, <2>1, <2>2
<1>4. CASE q.enc = <<>>
  <2>1. Ready(q) = q.chn /\ q.chn # <<>> /\ Runs("vchn")
    BY <1>4 DEF Ready
  <2>2. AfterPull(q).enc = q.enc /\ AfterPull(q).chn = Tail(q.chn)
    BY <1>2, <1>4 DEF AfterPull
  <2>3. QED
    BY <1>1, <1>4, <2>1, <2>2
<1>5. QED
  BY <1>3, <1>4

LEMMA EncodeKeepsEncoder ==
  ASSUME OInv, FrameTypeOK, EncInv, NEW e \in Encoder, Encode(e)
  PROVE  EncInv' /\ FrameTypeOK'
<1> DEFINE q == QueuesAfterSend(e)
<1>1. /\ e \in held /\ sent < MaxFrames /\ "VencStreamOwned" \notin held
      /\ Alone(e) /\ Running(e) /\ Waiting(e)
  BY DEF Encode, EncodeFrame, EncodeFrameLate, EncodeFrameRefused, MayEncode, EncInv
<1>2. /\ UNCHANGED dropping
      /\ held' = held \/ held' = held \cup {"VencStreamOwned"}
      /\ inner' = inner \/ inner' = [inner EXCEPT !["stream"] = "made"]
  BY DEF Encode, EncodeFrame, EncodeFrameLate, EncodeFrameRefused
<1>3. \A other \in Encoder : other \in held' => other = e
  BY <1>1, <1>2 DEF Alone, Encoder
<1>4. Alone(e)' /\ Running(e)'
  <2>1. "VencStreamOwned" \notin Parts(e)
    BY DEF Parts
  <2>2. Alone(e)'
    BY <1>1, <1>2, <1>3, <2>1 DEF Alone
  <2>3. \A o \in {"venc", "vchn", "grp"} : inner'[o] = inner[o]
    BY <1>2 DEF OInv, OwnedTypeOK, Object
  <2>4. Running(e)'
    BY <1>1, <2>3 DEF Running
  <2>5. QED
    BY <2>2, <2>4
<1>5. SUFFICES Waiting(e)' /\ Answered(e)' /\ FrameTypeOK'
  BY <1>3, <1>4 DEF EncInv
<1>6. CASE EncodeFrame(e)
  <2>1. /\ Ready(q) # <<>> /\ result' = Head(Ready(q)) /\ sent' = sent + 1
        /\ encQueue' = AfterPull(q).enc /\ chnQueue' = AfterPull(q).chn
        /\ UNCHANGED failedWaits
    BY <1>6 DEF EncodeFrame
  <2>2. FrameTypeOK'
    BY <1>1, <2>1, SendQueues, PullQueues DEF FrameTypeOK, Frames
  <2>3. CASE e = "SimpleEncoder"
    <3>1. q.enc = <<>>
      BY <1>1, <2>3, SendQueues DEF Waiting
    <3>2. encQueue' = <<>> /\ result' = sent + 1
      BY <1>1, <2>1, <2>3, <3>1, SendQueues, PullQueues
    <3>3. QED
      BY <2>1, <2>2, <2>3, <3>2 DEF Waiting, Answered, FrameTypeOK
  <2>4. CASE e # "SimpleEncoder"
    <3>1. e = "SimpleEncoderNv12" /\ q.enc = Append(encQueue, sent + 1)
      BY <1>1, <2>4, SendQueues DEF Encoder
    <3>2. /\ Len(encQueue) = failedWaits /\ encQueue \in Seq(Frames)
          /\ \A i \in 1 .. Len(encQueue) : encQueue[i] = sent - Len(encQueue) + i
          /\ sent \in Nat /\ failedWaits \in Nat
      BY <1>1, <2>4 DEF Waiting, FrameTypeOK
    <3>3. sent + 1 \in Frames
      BY <1>1, SendQueues
    <3>4. /\ q.enc \in Seq(Frames) /\ Len(q.enc) = failedWaits + 1
          /\ \A i \in 1 .. Len(q.enc) : q.enc[i] = sent - failedWaits + i
      <4>1. /\ Append(encQueue, sent + 1) \in Seq(Frames)
            /\ Len(Append(encQueue, sent + 1)) = failedWaits + 1
        BY <3>2, <3>3
      <4>2. ASSUME NEW i \in 1 .. failedWaits + 1
            PROVE  Append(encQueue, sent + 1)[i] = sent - failedWaits + i
        BY <3>2, <3>3
      <4>3. QED
        BY <3>1, <4>1, <4>2
    <3>11. q.enc # <<>>
      BY <3>2, <3>4
    <3>5. encQueue' = Tail(q.enc) /\ result' = Head(q.enc)
      <4>1. AfterPull(q).enc = Tail(q.enc) /\ Head(Ready(q)) = Head(q.enc)
        BY <1>1, <2>1, <3>11, PullQueues
      <4>2. QED
        BY <2>1, <4>1
    <3>6. result' = sent - failedWaits + 1
      BY <3>2, <3>4, <3>5
    <3>7. /\ Len(encQueue') = failedWaits
          /\ \A i \in 1 .. Len(encQueue') : encQueue'[i] = sent - failedWaits + (i + 1)
      BY <3>2, <3>4, <3>5
    <3>8. Waiting(e)'
      BY <2>1, <2>4, <3>2, <3>7 DEF Waiting
    <3>9. Answered(e)'
      BY <2>1, <3>1, <3>2, <3>6 DEF Answered
    <3>10. QED
      BY <2>2, <3>8, <3>9
  <2>5. QED
    BY <2>3, <2>4
<1>7. CASE EncodeFrameLate(e)
  <2>1. /\ encQueue' = q.enc /\ chnQueue' = q.chn /\ sent' = sent + 1
        /\ failedWaits < MaxWaits /\ failedWaits' = failedWaits + 1
        /\ UNCHANGED <<held, result>>
    BY <1>7 DEF EncodeFrameLate
  <2>2. FrameTypeOK'
    BY <1>1, <2>1, SendQueues, EncoderBoundsAssumption DEF FrameTypeOK, Frames
  <2>3. Answered(e)'
    BY <1>1, <2>1 DEF Answered
  <2>4. CASE e = "SimpleEncoder"
    BY <1>1, <2>1, <2>2, <2>3, <2>4, SendQueues DEF Waiting
  <2>5. CASE e # "SimpleEncoder"
    <3>1. e = "SimpleEncoderNv12" /\ q.enc = Append(encQueue, sent + 1)
      BY <1>1, <2>5, SendQueues DEF Encoder
    <3>2. /\ Len(encQueue) = failedWaits /\ encQueue \in Seq(Frames)
          /\ \A i \in 1 .. Len(encQueue) : encQueue[i] = sent - Len(encQueue) + i
          /\ sent \in Nat /\ failedWaits \in Nat /\ sent + 1 \in Frames
      BY <1>1, <2>5, SendQueues DEF Waiting, FrameTypeOK
    <3>3. /\ Len(encQueue') = failedWaits + 1
          /\ \A i \in 1 .. Len(encQueue') : encQueue'[i] = sent - failedWaits + i
      <4> DEFINE after == encQueue'
      <4>1. after = Append(encQueue, sent + 1)
        BY <2>1, <3>1
      <4>2. Len(after) = failedWaits + 1 /\ after[failedWaits + 1] = sent + 1
            /\ \A i \in 1 .. failedWaits : after[i] = encQueue[i]
        BY <3>2, <4>1, AppendProperties
      <4> HIDE DEF after
      <4>3. failedWaits \in Nat
        BY <3>2
      <4>4. ASSUME NEW i \in 1 .. failedWaits + 1
            PROVE  after[i] = sent - failedWaits + i
        <5>1. CASE i = failedWaits + 1
          BY <3>2, <4>2, <5>1
        <5>2. CASE i # failedWaits + 1
          BY <3>2, <4>2, <4>3, <5>2
        <5>3. QED
          BY <5>1, <5>2
      <4>5. QED
        BY <4>2, <4>4 DEF after
    <3>4. /\ Len(encQueue') = failedWaits'
          /\ \A i \in 1 .. Len(encQueue') : encQueue'[i] = sent' - Len(encQueue') + i
      <4> DEFINE after == encQueue'
                 late == failedWaits'
                 now == sent'
      <4>1. now = sent + 1 /\ late = failedWaits + 1
        BY <2>1
      <4>2. Len(after) = failedWaits + 1
            /\ \A i \in 1 .. Len(after) : after[i] = sent - failedWaits + i
        BY <3>3
      <4> HIDE DEF after, late, now
      <4>3. ASSUME NEW i \in 1 .. Len(after)
            PROVE  after[i] = now - Len(after) + i
        <5>1. i \in Int /\ after[i] = sent - failedWaits + i
          BY <3>2, <4>2
        <5>2. QED
          BY <3>2, <4>1, <4>2, <5>1
      <4>4. QED
        BY <4>1, <4>2, <4>3 DEF after, late, now
    <3>5. Waiting(e)'
      BY <2>5, <3>4 DEF Waiting
    <3>6. QED
      BY <2>2, <2>3, <3>5
  <2>6. QED
    BY <2>4, <2>5
<1>8. CASE EncodeFrameRefused(e)
  <2>1. UNCHANGED held /\ UNCHANGED frameVars
    BY <1>8 DEF EncodeFrameRefused
  <2>2. QED
    BY <1>1, <2>1 DEF frameVars, Waiting, Answered, FrameTypeOK
<1>9. QED
  BY <1>6, <1>7, <1>8 DEF Encode
-----------------------------------------------------------------------------
(* The theorems.                                                            *)

Inv == OInv /\ FrameTypeOK /\ EncInv

LEMMA InvInitial == Init => Inv
<1> SUFFICES ASSUME Init PROVE Inv
  OBVIOUS
<1>1. OInv
  BY OwnedInitial DEF Init
<1>2. FrameTypeOK
  BY EncoderBoundsAssumption DEF Init, NoFrames, FrameTypeOK
<1>3. EncInv
  BY DEF Init, OwnedInit, EncInv
<1>4. QED
  BY <1>1, <1>2, <1>3 DEF Inv

LEMMA InvInductive == Inv /\ [Next]_vars => Inv'
<1> SUFFICES ASSUME OInv, FrameTypeOK, EncInv, [Next]_vars PROVE Inv'
  BY DEF Inv
<1>1. OInv'
  BY NextKeeps
<1>2. CASE Other
  <2>1. FrameTypeOK'
    BY <1>2 DEF Other, frameVars, FrameTypeOK
  <2>2. QED
    BY <1>1, <1>2, <2>1, OtherKeepsEncoder DEF Inv
<1>3. CASE Build \/ DropHandle
  <2>1. ForgetFrames \/ UNCHANGED frameVars
    BY <1>3 DEF Build, DropHandle
  <2>2. FrameTypeOK'
    <3>1. CASE ForgetFrames
      BY <3>1, EncoderBoundsAssumption DEF ForgetFrames, FrameTypeOK
    <3>2. CASE UNCHANGED frameVars
      BY <3>2 DEF frameVars, FrameTypeOK
    <3>3. QED
      BY <2>1, <3>1, <3>2
  <2>3. QED
    BY <1>1, <1>3, <2>2, BuildKeepsEncoder, DropKeepsEncoder DEF Inv
<1>4. CASE \E e \in Encoder : Encode(e)
  BY <1>1, <1>4, EncodeKeepsEncoder DEF Inv
<1>5. CASE UNCHANGED vars
  <2>1. UNCHANGED frameVars /\ UNCHANGED ownedVars
    BY <1>5 DEF vars
  <2>2. FrameTypeOK' /\ EncInv'
    BY <2>1 DEF FrameTypeOK, frameVars, ownedVars, EncInv, Alone, Running, Waiting, Answered
  <2>3. QED
    BY <1>1, <2>2 DEF Inv
<1>6. QED
  BY <1>2, <1>3, <1>4, <1>5 DEF Next

LEMMA InvHolds == Spec => []Inv
BY InvInitial, InvInductive, PTL DEF Spec

(* The variables of the handles and of the encoder keep their types: a       *)
(* handle is dropped field by field, within its list, and the queues hold    *)
(* frames that were sent.                                                    *)
THEOREM TypeCorrect == Spec => []TypeOK
<1>1. Inv => TypeOK
  BY DEF Inv, OInv, FrameTypeOK, TypeOK
<1>2. QED
  BY <1>1, InvHolds, PTL

(* What a handle refers to exists in the library, and runs if its object     *)
(* says so, however many handles there are, whatever order they go in and    *)
(* whichever teardowns fail (the Drops of the Owned types).                  *)
THEOREM ObjectsExist == Spec => []HeldObjectsExist
<1>1. Inv => HeldObjectsExist
  BY DEF Inv, OInv, Linked, Backed, HeldObjectsExist
<1>2. QED
  BY <1>1, InvHolds, PTL

(* While no call failed, the library has the objects of the handles, in the  *)
(* states the Rust side believes, and no block is lost.                      *)
THEOREM ObjectsFollow == Spec => []ObjectsFollowHandles
<1>1. Inv => ObjectsFollowHandles
  BY DEF Inv, OInv, Linked, Clean, ObjectsFollowHandles
<1>2. QED
  BY <1>1, InvHolds, PTL

(* The library refuses a teardown only after a call failed: every order of   *)
(* drops tears down what uses an object before the object.                   *)
THEOREM ErrorsNeedFaults == Spec => []NoErrorWithoutFault
<1>1. Inv => NoErrorWithoutFault
  BY DEF Inv, OInv, OwnedTypeOK, Clean, NoErrorWithoutFault
<1>2. QED
  BY <1>1, InvHolds, PTL

(* While no call failed an encoder can encode: its channel, its group and    *)
(* its bind are up, and its buffer is free (SimpleEncoder).                  *)
THEOREM EncoderReady == Spec => []EncoderStaysReady
<1>1. Inv => EncoderStaysReady
  <2> SUFFICES ASSUME Inv, NEW e \in Encoder, e \in held, faults = 0
               PROVE  /\ Runs("venc") /\ Up("pool") /\ native["buf"] = "none"
                      /\ Len(encQueue) = (IF e = "SimpleEncoderNv12" THEN failedWaits ELSE 0)
                      /\ e = "SimpleEncoder" =>
                           Runs("grp") /\ Runs("vchn") /\ native["vbind"] # "none"
    BY DEF EncoderStaysReady
  <2>1. OInv /\ Alone(e) /\ Running(e) /\ Waiting(e)
    BY DEF Inv, EncInv
  <2>2. Holds(e) \subseteq Object /\ \A o \in Holds(e) : Referenced(o)
    BY EncoderHolds, HoldsClosed, HeldReferences
  <2>3. \A o \in Holds(e) : native[o] # "none" /\ (inner[o] = "running" => native[o] = "running")
    BY <2>1, <2>2 DEF OInv, Linked, Backed
  <2>4. Runs("venc") /\ Up("pool")
    BY <2>1, <2>3, EncoderHolds DEF Running, Runs, Up
  <2>5. e = "SimpleEncoder" => Runs("grp") /\ Runs("vchn") /\ native["vbind"] # "none"
    BY <2>1, <2>3, EncoderHolds DEF Running, Runs, Up
  <2>6. Len(encQueue) = (IF e = "SimpleEncoderNv12" THEN failedWaits ELSE 0)
    <3>1. Len(<<>>) = 0
      OBVIOUS
    <3>2. QED
      BY <2>1, <3>1 DEF Waiting, Encoder
  <2>7. native["buf"] = "none"
    <3>1. "buf" \in Object /\ "buf" # "vchn"
      BY DEF Object
    <3>2. ~Referenced("buf")
      <4>1. "MemBufferOwned" \notin held /\ dropping # "MemBufferOwned"
        BY <2>1 DEF Alone, Parts
      <4>2. \A h \in Kind : "buf" \in Holds(h) => h = "MemBufferOwned"
        BY Kinds, HeldObjects
      <4>3. held \subseteq Kind /\ (dropping # NoHandle => dropping \in Kind)
        BY <2>1 DEF OInv, OwnedTypeOK
      <4>4. ~HeldElsewhere("buf")
        BY <4>1, <4>2, <4>3 DEF HeldElsewhere
      <4>5. "buf" \notin LeftFrom(field)
        <5>1. CASE dropping = NoHandle
          BY <5>1 DEF LeftFrom
        <5>2. CASE dropping # NoHandle
          <6>1. LeftFrom(field) \subseteq Holds(dropping)
            BY <2>1, <4>3, <5>2, FieldsClosed
               DEF OInv, OwnedTypeOK, LeftFrom, FieldAt, Holds, Range, Closed
          <6>2. QED
            BY <4>1, <4>2, <4>3, <5>2, <6>1
        <5>3. QED
          BY <5>1, <5>2
      <4>6. QED
        BY <4>4, <4>5 DEF Referenced
    <3>3. QED
      BY <2>1, <3>1, <3>2, UnreferencedIsGone
  <2>8. QED
    BY <2>4, <2>5, <2>6, <2>7
<1>2. QED
  BY <1>1, InvHolds, PTL

(* encode_frame returns the stream of its frame, or over NV12 an older one   *)
(* by as many frames as get_stream failed, for any depth of the input queue  *)
(* and any number of frames.                                                 *)
THEOREM StreamIsOf == Spec => []StreamIsOfItsFrame
<1>1. Inv => StreamIsOfItsFrame
  <2> SUFFICES ASSUME Inv, NEW e \in Encoder, e \in held,
                      "VencStreamOwned" \in held, result # 0
               PROVE  result = sent - (IF "SimpleEncoderNv12" \in held
                                       THEN failedWaits ELSE 0)
    BY DEF StreamIsOfItsFrame
  <2>1. Alone(e) /\ Answered(e)
    BY DEF Inv, EncInv
  <2>2. "SimpleEncoderNv12" \in held <=> e = "SimpleEncoderNv12"
    BY <2>1 DEF Alone, Encoder
  <2>3. QED
    BY <2>1, <2>2 DEF Answered
<1>2. QED
  BY <1>1, InvHolds, PTL

-----------------------------------------------------------------------------
(* Euclid's algorithm.                                                      *)

CommonDivisors(x, y) ==
  {d \in Nat \ {0} : (\E a \in Nat : x = d * a) /\ (\E b \in Nat : y = d * b)}

Greatest(S) == CHOOSE d \in S : \A e \in S : e =< d

GreatestCommon ==
  [xy \in Nat \X Nat |->
     IF xy[2] = 0 THEN xy[1] ELSE Greatest(CommonDivisors(xy[1], xy[2]))]

(* A turn of the loop of gcd keeps the common divisors.                     *)
LEMMA TurnKeepsDivisors ==
  ASSUME NEW x \in Nat, NEW y \in Nat \ {0}
  PROVE  CommonDivisors(x, y) = CommonDivisors(y, x % y)
<1> DEFINE q == x \div y
           r == x % y
<1>1. q \in Nat /\ r \in Nat /\ x = y * q + r
  OBVIOUS
<1> HIDE DEF q, r
<1>2. ASSUME NEW d \in Nat \ {0}, NEW a \in Nat, NEW b \in Nat, x = d * a, y = d * b
      PROVE  \E c \in Nat : r = d * c
  <2>1. r = d * (a - b * q)
    BY <1>1, <1>2
  <2>2. a - b * q \in Nat
    BY <1>1, <1>2, <2>1
  <2>3. QED
    BY <2>1, <2>2
<1>3. ASSUME NEW d \in Nat \ {0}, NEW b \in Nat, NEW c \in Nat, y = d * b, r = d * c
      PROVE  \E a \in Nat : x = d * a
  <2>1. x = d * (b * q + c)
    BY <1>1, <1>3
  <2>2. b * q + c \in Nat
    BY <1>1, <1>3
  <2>3. QED
    BY <2>1, <2>2
<1>4. CommonDivisors(x, y) = CommonDivisors(y, r)
  BY <1>1, <1>2, <1>3 DEF CommonDivisors
<1>5. QED
  BY <1>4 DEF r

(* If y divides x, it is their greatest common divisor.                     *)
LEMMA DivisorIsGreatest ==
  ASSUME NEW x \in Nat, NEW y \in Nat \ {0}, x % y = 0
  PROVE  Greatest(CommonDivisors(x, y)) = y
<1>1. y \in CommonDivisors(x, y)
  <2>1. x = y * (x \div y) /\ x \div y \in Nat
    OBVIOUS
  <2>2. y = y * 1
    OBVIOUS
  <2>3. QED
    BY <2>1, <2>2 DEF CommonDivisors
<1>2. ASSUME NEW e \in CommonDivisors(x, y)
      PROVE  e =< y
  <2>1. PICK b \in Nat : y = e * b
    BY DEF CommonDivisors
  <2>2. e \in Nat /\ b # 0
    BY <2>1 DEF CommonDivisors
  <2>3. QED
    BY <2>1, <2>2
<1>3. CommonDivisors(x, y) \subseteq Nat
  BY DEF CommonDivisors
<1>4. QED
  BY <1>1, <1>2, <1>3 DEF Greatest

(* The greatest common divisor satisfies the equation of gcd.               *)
LEMMA GreatestCommonTurns ==
  GreatestCommon = [xy \in Nat \X Nat |->
     IF xy[2] = 0 THEN xy[1] ELSE GreatestCommon[<<xy[2], xy[1] % xy[2]>>]]
<1>1. ASSUME NEW xy \in Nat \X Nat, xy[2] # 0
      PROVE  Greatest(CommonDivisors(xy[1], xy[2])) = GreatestCommon[<<xy[2], xy[1] % xy[2]>>]
  <2> DEFINE x == xy[1]
             y == xy[2]
             r == xy[1] % xy[2]
             next == <<y, r>>
  <2>1. x \in Nat /\ y \in Nat \ {0} /\ r \in Nat
    BY <1>1
  <2>2. next \in Nat \X Nat /\ next[1] = y /\ next[2] = r
    BY <2>1
  <2>3. GreatestCommon[next] = IF r = 0 THEN y ELSE Greatest(CommonDivisors(y, r))
    BY <2>2 DEF GreatestCommon
  <2>4. CASE r = 0
    BY <2>1, <2>3, <2>4, DivisorIsGreatest
  <2>5. CASE r # 0
    BY <2>1, <2>3, <2>5, TurnKeepsDivisors
  <2>6. QED
    BY <2>4, <2>5
<1>2. QED
  BY <1>1, Zenon DEF GreatestCommon

(* gcd computes what its loop says.                                         *)
LEMMA GcdTurns ==
  ASSUME NEW x \in Nat, NEW y \in Nat
  PROVE  Gcd[<<x, y>>] = IF y = 0 THEN x ELSE Gcd[<<y, x % y>>]
<1>1. Gcd = [xy \in Nat \X Nat |->
               IF xy[2] = 0 THEN xy[1] ELSE Gcd[<<xy[2], xy[1] % xy[2]>>]]
  BY GreatestCommonTurns, Zenon DEF Gcd
<1> DEFINE p == <<x, y>>
<1>2. p \in Nat \X Nat /\ p[1] = x /\ p[2] = y
  OBVIOUS
<1> HIDE DEF p
<1>3. Gcd[p] = IF p[2] = 0 THEN p[1] ELSE Gcd[<<p[2], p[1] % p[2]>>]
  BY <1>1, <1>2, Zenon
<1>4. QED
  BY <1>2, <1>3 DEF p

(* A set of natural numbers that is not empty has a least element.          *)
LEMMA LeastOf ==
  ASSUME NEW S \in SUBSET Nat, S # {}
  PROVE  \E m \in S : \A k \in S : m =< k
<1> DEFINE Below == {p \in Nat \X Nat : p[1] < p[2]}
<1>1. S \subseteq Nat
  OBVIOUS
<1>2. IsWellFoundedOn(Below, Nat)
  BY NatLessThanWellFounded DEF OpToRel
<1>3. PICK m \in S : \A k \in S : <<k, m>> \notin Below
  BY <1>1, <1>2, WFMin
<1>4. ASSUME NEW k \in S
      PROVE  m =< k
  <2> DEFINE p == <<k, m>>
  <2>1. p \in Nat \X Nat /\ p[1] = k /\ p[2] = m
    BY <1>1
  <2>2. p \notin Below
    BY <1>3
  <2> HIDE DEF p
  <2>3. ~(p[1] < p[2])
    BY <2>1, <2>2
  <2>4. QED
    BY <1>1, <2>1, <2>3
<1>5. QED
  BY <1>4

(* A number and one that is not zero have a greatest common divisor.        *)
LEMMA GreatestDivides ==
  ASSUME NEW x \in Nat, NEW y \in Nat \ {0}
  PROVE  Greatest(CommonDivisors(x, y)) \in CommonDivisors(x, y)
<1> DEFINE D == CommonDivisors(x, y)
           Gaps == {y - d : d \in D}
<1>1. ASSUME NEW d \in D
      PROVE  d \in 1 .. y
  <2>1. PICK b \in Nat : y = d * b
    BY DEF CommonDivisors
  <2>2. d \in Nat \ {0} /\ b # 0
    BY <2>1 DEF CommonDivisors
  <2>3. QED
    BY <2>1, <2>2
<1>2. 1 \in D
  BY DEF CommonDivisors
<1> HIDE DEF D
<1>3. Gaps \in SUBSET Nat /\ Gaps # {}
  BY <1>1, <1>2
<1>4. PICK m \in Gaps : \A k \in Gaps : m =< k
  BY <1>3, LeastOf
<1>5. PICK d \in D : m = y - d
  BY <1>4
<1>6. ASSUME NEW e \in D
      PROVE  e =< d
  <2>1. y - e \in Gaps
    OBVIOUS
  <2>2. y - d =< y - e
    BY <1>4, <1>5, <2>1
  <2>3. QED
    BY <1>1, <2>2
<1>7. Greatest(D) \in D
  BY <1>5, <1>6 DEF Greatest
<1>8. QED
  BY <1>7 DEF D

(* gcd ends, and with the greatest common divisor.                          *)
THEOREM GcdIsGreatest ==
  \A x, y \in Nat :
    Gcd[<<x, y>>] = IF y = 0 THEN x ELSE Greatest(CommonDivisors(x, y))
<1> DEFINE Meant(x, y) == IF y = 0 THEN x ELSE Greatest(CommonDivisors(x, y))
           Bad == {y \in Nat : \E x \in Nat : Gcd[<<x, y>>] # Meant(x, y)}
<1>1. SUFFICES ASSUME Bad # {}
               PROVE  FALSE
  OBVIOUS
<1>2. PICK y \in Bad : \A k \in Bad : y =< k
  <2>1. Bad \in SUBSET Nat
    OBVIOUS
  <2>2. QED
    BY <1>1, <2>1, LeastOf
<1>3. PICK x \in Nat : Gcd[<<x, y>>] # Meant(x, y)
  OBVIOUS
<1>4. y \in Nat /\ y # 0
  BY <1>3, GcdTurns
<1> DEFINE r == x % y
<1>5. r \in Nat /\ r < y
  BY <1>4
<1>6. Gcd[<<x, y>>] = Gcd[<<y, r>>]
  BY <1>4, GcdTurns
<1>7. Meant(x, y) = Meant(y, r)
  BY <1>4, <1>5, DivisorIsGreatest, TurnKeepsDivisors
<1>8. r \in Bad
  BY <1>3, <1>4, <1>5, <1>6, <1>7
<1>9. y =< r
  BY <1>2, <1>8
<1> HIDE DEF r
<1>10. QED
  BY <1>4, <1>5, <1>9

(* A quotient by a divisor.                                                 *)
LEMMA Quotient ==
  ASSUME NEW d \in Nat \ {0}, NEW a \in Nat
  PROVE  (d * a) \div d = a
OBVIOUS

(* RatioU32 * n is exact, unless it exceeds u32, and has a denominator.     *)
THEOREM TimesIsExact ==
  \A numer, n \in Nat, denom \in Nat \ {0} :
    LET product == Times(NewRatio(numer, denom), n)
    IN  /\ product.denom \in Nat \ {0}
        /\ numer * (n \div Gcd[<<n, denom>>]) =< U32Max =>
             product.numer * denom = numer * n * product.denom
<1> SUFFICES ASSUME NEW numer \in Nat, NEW n \in Nat, NEW denom \in Nat \ {0}
             PROVE  LET product == Times(NewRatio(numer, denom), n)
                    IN  /\ product.denom \in Nat \ {0}
                        /\ numer * (n \div Gcd[<<n, denom>>]) =< U32Max =>
                             product.numer * denom = numer * n * product.denom
  OBVIOUS
<1> DEFINE g == Gcd[<<n, denom>>]
<1>1. g \in CommonDivisors(n, denom)
  BY GcdIsGreatest, GreatestDivides
<1>2. PICK a \in Nat, b \in Nat : n = g * a /\ denom = g * b
  BY <1>1 DEF CommonDivisors
<1>3. g \in Nat \ {0} /\ b # 0
  BY <1>1, <1>2 DEF CommonDivisors
<1>4. Times(NewRatio(numer, denom), n) = NewRatio(Wrap(numer * (n \div g)), denom \div g)
  BY DEF Times, NewRatio
<1> HIDE DEF g
<1>5. n \div g = a /\ denom \div g = b
  BY <1>2, <1>3, Quotient
<1>6. Times(NewRatio(numer, denom), n) = [numer |-> Wrap(numer * a), denom |-> b]
  BY <1>4, <1>5 DEF NewRatio
<1>7. ASSUME numer * a =< U32Max
      PROVE  Wrap(numer * a) * denom = numer * n * b
  <2>1. numer * a \in Nat
    OBVIOUS
  <2>2. Wrap(numer * a) = numer * a
    BY <1>7, <2>1, WidthsAssumption DEF Wrap, U32Max
  <2>3. QED
    BY <1>2, <1>3, <2>2
<1>8. QED
  BY <1>3, <1>5, <1>6, <1>7 DEF g

-----------------------------------------------------------------------------
(* The buffer of an encoder.                                                *)

(* What u32 holds is not cut, and what is cut is in u32.                    *)
LEMMA WrapsNot == \A n \in 0 .. U32Max : Wrap(n) = n
BY WidthsAssumption DEF Wrap, U32Max

LEMMA WrapIsNat == \A n \in Nat : Wrap(n) \in Nat
BY WidthsAssumption DEF Wrap

LEMMA WrapIsLess ==
  ASSUME NEW n \in Nat
  PROVE  Wrap(n) \in 0 .. U32Max /\ Wrap(n) =< n
<1>1. U32Size \in Nat \ {0}
  BY WidthsAssumption
<1>2. n % U32Size \in 0 .. U32Size - 1
  BY <1>1
<1>3. CASE n =< U32Max
  BY <1>1, <1>2, <1>3, WrapsNot DEF Wrap, U32Max
<1>4. CASE n > U32Max
  BY <1>1, <1>2, <1>4 DEF Wrap, U32Max
<1>5. QED
  BY <1>1, <1>3, <1>4 DEF U32Max

(* Twice a number, and its half.                                            *)
LEMMA Halves ==
  ASSUME NEW n \in Nat
  PROVE  /\ (2 * n) % 2 = 0 /\ (2 * n) \div 2 = n
         /\ \E a \in Nat : Align2(n) = 2 * a /\ (n = 2 * a \/ n = 2 * a - 1)
         /\ Half(n) \in Nat /\ 2 * Half(n) = Align2(n)
<1>1. n = 2 * (n \div 2) + (n % 2) /\ n \div 2 \in Nat /\ n % 2 \in 0 .. 1
  OBVIOUS
<1>2. (2 * n) % 2 = 0 /\ (2 * n) \div 2 = n
  OBVIOUS
<1>3. CASE n % 2 = 0
  BY <1>1, <1>2, <1>3 DEF Align2, Half
<1>4. CASE n % 2 = 1
  <2>1. n = 2 * (n \div 2 + 1) - 1 /\ n \div 2 + 1 \in Nat
    BY <1>1, <1>4
  <2>2. Half(n) = n \div 2 + 1
    BY <1>1, <1>4 DEF Half
  <2>3. QED
    BY <1>1, <1>2, <1>4, <2>1, <2>2 DEF Align2
<1>5. QED
  BY <1>1, <1>3, <1>4

(* A whole number, and a number of halves, times a number.                  *)
LEMMA TimesWhole ==
  ASSUME NEW k \in Nat, NEW n \in Nat
  PROVE  Times(NewRatio(k, 1), n) = NewRatio(Wrap(k * n), 1)
<1>1. Gcd[<<n, 1>>] = 1
  <2>1. Gcd[<<1, 0>>] = 1
    BY GcdTurns
  <2>2. n % 1 = 0
    OBVIOUS
  <2>3. Gcd[<<n, 1>>] = Gcd[<<1, n % 1>>]
    BY GcdTurns
  <2>4. QED
    BY <2>1, <2>2, <2>3
<1>2. n \div 1 = n /\ 1 \div 1 = 1
  OBVIOUS
<1>3. QED
  BY <1>1, <1>2 DEF Times, NewRatio

LEMMA TimesHalf ==
  ASSUME NEW k \in Nat, NEW a \in Nat
  PROVE  Times(NewRatio(k, 2), 2 * a) = NewRatio(Wrap(k * a), 1)
<1>1. Gcd[<<2 * a, 2>>] = 2
  <2>1. Gcd[<<2, 0>>] = 2
    BY GcdTurns
  <2>2. Gcd[<<2 * a, 2>>] = Gcd[<<2, (2 * a) % 2>>]
    BY GcdTurns
  <2>3. QED
    BY <2>1, <2>2, Halves
<1>2. (2 * a) \div 2 = a /\ 2 \div 2 = 1
  BY Halves
<1>3. QED
  BY <1>1, <1>2 DEF Times, NewRatio

(* The size of rows is a whole number.                                      *)
LEMMA RowsSize ==
  ASSUME NEW row \in Nat, NEW rows \in Nat
  PROVE  Ceil(Times(NewRatio(Wrap(row), 1), rows)) = Wrap(Wrap(row) * rows)
<1> DEFINE n == Wrap(Wrap(row) * rows)
<1>1. Wrap(row) \in Nat
  BY WrapIsNat
<1>2. Times(NewRatio(Wrap(row), 1), rows) = NewRatio(n, 1)
  BY <1>1, TimesWhole
<1>3. n \in Nat
  BY <1>1, WrapIsNat
<1> HIDE DEF n
<1>4. n \div 1 = n /\ n % 1 = 0
  BY <1>3
<1>5. Ceil(NewRatio(n, 1)) = n
  BY <1>3, <1>4 DEF Ceil, NewRatio
<1>6. QED
  BY <1>2, <1>5 DEF n

(* The bytes of two rows of two pixels, in the pairs of pixels and of rows. *)
LEMMA EvenFrames ==
  ASSUME NEW a \in Nat, NEW b \in Nat
  PROVE  /\ FrameSize("Nv12", 2 * a, 2 * b) = 6 * (a * b)
         /\ FrameSize("Yuyv", 2 * a, 2 * b) = 8 * (a * b)
         /\ FrameSize("Rgb24", 2 * a, 2 * b) = 12 * (a * b)
<1>1. \A n \in Nat : Half(2 * n) = n
  BY DEF Half
<1>2. QED
  BY <1>1 DEF FrameSize

(* A size that fits is the same whether or not the row is cut to u32 first. *)
LEMMA WrapRow ==
  ASSUME NEW row \in Nat, NEW rows \in Nat, row * rows =< U32Max
  PROVE  Wrap(Wrap(row) * rows) = row * rows
<1>1. CASE rows = 0
  <2>1. Wrap(row) * rows = 0 /\ row * rows = 0
    BY <1>1, WrapIsNat
  <2>2. QED
    BY <2>1, WrapsNot
<1>2. CASE rows # 0
  <2>1. row =< row * rows
    BY <1>2
  <2>2. Wrap(row) = row
    BY <2>1, WrapsNot, WidthsAssumption DEF U32Max
  <2>3. row * rows \in 0 .. U32Max
    BY WidthsAssumption DEF U32Max
  <2>4. QED
    BY <2>2, <2>3, WrapsNot
<1>3. QED
  BY <1>1, <1>2

(* The library reads no row behind the size of the frame.                   *)
LEMMA RowsAreInFrame ==
  ASSUME NEW row \in Nat, NEW rows \in Nat, NEW offset \in Nat
  PROVE  RowsEnd(offset, row, row, rows) =< offset + row * rows
<1>1. CASE rows = 0
  BY <1>1 DEF RowsEnd
<1>2. CASE rows # 0
  <2>1. (rows - 1) * row + row = row * rows
    OBVIOUS
  <2>2. QED
    BY <1>2, <2>1 DEF RowsEnd
<1>3. QED
  BY <1>1, <1>2

(* A buffer has the size of its frame, made even, and the library reads no   *)
(* further, for a frame of any size that fits u32; for a larger one the      *)
(* buffer is too small (calc_frame_buffer_size, Image::import).              *)
THEOREM EncoderBuffersHoldFrames ==
  \A format \in Format, width, height \in Nat : BufferHoldsFrame(format, width, height)
<1> SUFFICES ASSUME NEW format \in Format, NEW width \in Nat, NEW height \in Nat
             PROVE  BufferHoldsFrame(format, width, height)
  OBVIOUS
<1> DEFINE w == Align2(width)
           h == Align2(height)
           size == FrameSize(format, w, h)
<1>1. PICK a \in Nat : w = 2 * a /\ (width = 2 * a \/ width = 2 * a - 1)
  BY Halves
<1>2. PICK b \in Nat : h = 2 * b /\ (height = 2 * b \/ height = 2 * b - 1)
  BY Halves
<1>3. Half(width) = a /\ Half(height) = b
  <2> DEFINE p == Half(width)
             q == Half(height)
  <2>1. p \in Nat /\ 2 * p = w /\ q \in Nat /\ 2 * q = h
    BY Halves
  <2> HIDE DEF p, q, w, h
  <2>2. p = a /\ q = b
    BY <1>1, <1>2, <2>1
  <2>3. QED
    BY <2>2 DEF p, q
<1> HIDE DEF w, h
<1>4. a * b \in Nat /\ width * height =< 4 * (a * b)
      /\ a * height =< 2 * (a * b) /\ width * height \in Nat /\ a * height \in Nat
  <2>1. width =< 2 * a /\ height =< 2 * b
    BY <1>1, <1>2
  <2>2. width * height =< (2 * a) * height
    BY <2>1
  <2>3. a * height =< a * (2 * b)
    BY <2>1
  <2>4. a * (2 * b) = 2 * (a * b) /\ (2 * a) * height = 2 * (a * height)
    OBVIOUS
  <2>5. QED
    BY <2>2, <2>3, <2>4
<1>5. /\ FrameBufferSize(format, width, height) \in 0 .. U32Max
      /\ size \in Nat
      /\ size =< U32Max => FrameBufferSize(format, width, height) = size
      /\ Extent(format, width, height) =< size
  <2>1. CASE format = "Nv12"
    <3>1. size = 6 * (a * b)
      BY <1>1, <1>2, <2>1, EvenFrames
    <3>2. FrameBufferSize(format, width, height)
            = Ceil(Times(Times(NewRatio(3, 2), 2 * a), 2 * b))
      BY <1>1, <1>2, <2>1 DEF FrameBufferSize, BytesPerPixel, w, h
    <3>3. (3 * a) * (2 * b) = 6 * (a * b)
      OBVIOUS
    <3>4. FrameBufferSize(format, width, height) = Wrap(Wrap(3 * a) * (2 * b))
      <4>1. Times(NewRatio(3, 2), 2 * a) = NewRatio(Wrap(3 * a), 1)
        BY TimesHalf
      <4>2. 3 * a \in Nat /\ 2 * b \in Nat
        OBVIOUS
      <4>3. QED
        BY <3>2, <4>1, <4>2, RowsSize
    <3>5. /\ FrameBufferSize(format, width, height) \in 0 .. U32Max /\ size \in Nat
          /\ size =< U32Max => FrameBufferSize(format, width, height) = size
      <4>1. Wrap(3 * a) * (2 * b) \in Nat
        BY WrapIsNat
      <4>2. Wrap(Wrap(3 * a) * (2 * b)) \in 0 .. U32Max
        BY <4>1, WrapIsLess
      <4>3. ASSUME size =< U32Max
            PROVE  Wrap(Wrap(3 * a) * (2 * b)) = size
        BY <3>1, <3>3, <4>3, WrapRow
      <4>4. QED
        BY <1>4, <3>1, <3>4, <4>2, <4>3
    <3>6. Extent(format, width, height) = RowsEnd(width * height, a * 2, a * 2, b)
      BY <1>3, <2>1 DEF Extent
    <3>7. RowsEnd(width * height, a * 2, a * 2, b) =< width * height + (a * 2) * b
      BY <1>4, RowsAreInFrame
    <3>8. (a * 2) * b = 2 * (a * b)
      OBVIOUS
    <3>9. RowsEnd(width * height, a * 2, a * 2, b) \in Int
      BY <1>4 DEF RowsEnd
    <3>10. QED
      BY <1>4, <3>1, <3>5, <3>6, <3>7, <3>8, <3>9
  <2>2. CASE format = "Yuyv"
    <3>1. size = 8 * (a * b)
      BY <1>1, <1>2, <2>2, EvenFrames
    <3>2. FrameBufferSize(format, width, height)
            = Ceil(Times(Times(NewRatio(2, 1), 2 * a), 2 * b))
      BY <1>1, <1>2, <2>2 DEF FrameBufferSize, BytesPerPixel, w, h
    <3>3. (2 * (2 * a)) * (2 * b) = 8 * (a * b)
      OBVIOUS
    <3>4. FrameBufferSize(format, width, height) = Wrap(Wrap(2 * (2 * a)) * (2 * b))
      <4>1. Times(NewRatio(2, 1), 2 * a) = NewRatio(Wrap(2 * (2 * a)), 1)
        BY TimesWhole
      <4>2. 2 * (2 * a) \in Nat /\ 2 * b \in Nat
        OBVIOUS
      <4>3. QED
        BY <3>2, <4>1, <4>2, RowsSize
    <3>5. /\ FrameBufferSize(format, width, height) \in 0 .. U32Max /\ size \in Nat
          /\ size =< U32Max => FrameBufferSize(format, width, height) = size
      <4>1. Wrap(2 * (2 * a)) * (2 * b) \in Nat
        BY WrapIsNat
      <4>2. Wrap(Wrap(2 * (2 * a)) * (2 * b)) \in 0 .. U32Max
        BY <4>1, WrapIsLess
      <4>3. ASSUME size =< U32Max
            PROVE  Wrap(Wrap(2 * (2 * a)) * (2 * b)) = size
        BY <3>1, <3>3, <4>3, WrapRow
      <4>4. QED
        BY <1>4, <3>1, <3>4, <4>2, <4>3
    <3>6. Extent(format, width, height) = RowsEnd(0, a * 4, a * 4, height)
      BY <1>3, <2>2 DEF Extent
    <3>7. RowsEnd(0, a * 4, a * 4, height) =< 0 + (a * 4) * height
      BY RowsAreInFrame
    <3>8. (a * 4) * height = 4 * (a * height)
      OBVIOUS
    <3>9. RowsEnd(0, a * 4, a * 4, height) \in Int
      BY <1>4 DEF RowsEnd
    <3>10. QED
      BY <1>4, <3>1, <3>5, <3>6, <3>7, <3>8, <3>9
  <2>3. CASE format = "Rgb24"
    <3>1. size = 12 * (a * b)
      BY <1>1, <1>2, <2>3, EvenFrames
    <3>2. FrameBufferSize(format, width, height)
            = Ceil(Times(Times(NewRatio(3, 1), 2 * a), 2 * b))
      BY <1>1, <1>2, <2>3 DEF FrameBufferSize, BytesPerPixel, w, h
    <3>3. (3 * (2 * a)) * (2 * b) = 12 * (a * b)
      OBVIOUS
    <3>4. FrameBufferSize(format, width, height) = Wrap(Wrap(3 * (2 * a)) * (2 * b))
      <4>1. Times(NewRatio(3, 1), 2 * a) = NewRatio(Wrap(3 * (2 * a)), 1)
        BY TimesWhole
      <4>2. 3 * (2 * a) \in Nat /\ 2 * b \in Nat
        OBVIOUS
      <4>3. QED
        BY <3>2, <4>1, <4>2, RowsSize
    <3>5. /\ FrameBufferSize(format, width, height) \in 0 .. U32Max /\ size \in Nat
          /\ size =< U32Max => FrameBufferSize(format, width, height) = size
      <4>1. Wrap(3 * (2 * a)) * (2 * b) \in Nat
        BY WrapIsNat
      <4>2. Wrap(Wrap(3 * (2 * a)) * (2 * b)) \in 0 .. U32Max
        BY <4>1, WrapIsLess
      <4>3. ASSUME size =< U32Max
            PROVE  Wrap(Wrap(3 * (2 * a)) * (2 * b)) = size
        BY <3>1, <3>3, <4>3, WrapRow
      <4>4. QED
        BY <1>4, <3>1, <3>4, <4>2, <4>3
    <3>6. Extent(format, width, height) = RowsEnd(0, width * 3, width * 3, height)
      BY <2>3 DEF Extent
    <3>7. RowsEnd(0, width * 3, width * 3, height) =< 0 + (width * 3) * height
      BY RowsAreInFrame
    <3>8. (width * 3) * height = 3 * (width * height)
      OBVIOUS
    <3>9. RowsEnd(0, width * 3, width * 3, height) \in Int
      BY DEF RowsEnd
    <3>10. QED
      BY <1>4, <3>1, <3>5, <3>6, <3>7, <3>8, <3>9
  <2>4. QED
    BY <2>1, <2>2, <2>3 DEF Format
<1>6. U32Max \in Nat /\ Extent(format, width, height) =< size
  BY <1>5, WidthsAssumption DEF U32Max
<1> HIDE DEF size
<1>7. IF size =< U32Max
      THEN /\ FrameBufferSize(format, width, height) = size
           /\ Extent(format, width, height) =< FrameBufferSize(format, width, height)
      ELSE FrameBufferSize(format, width, height) < size
  BY <1>5, <1>6
<1>8. QED
  BY <1>7 DEF BufferHoldsFrame, w, h, size

-----------------------------------------------------------------------------
(* The stream buffer.                                                       *)

(* What a division leaves.                                                  *)
LEMMA Division ==
  ASSUME NEW n \in Nat, NEW d \in Nat \ {0}
  PROVE  /\ n \div d \in Nat
         /\ (n \div d) * d =< n
         /\ n < (n \div d + 1) * d
OBVIOUS

(* No larger multiple fits.                                                 *)
LEMMA DivisionIsLargest ==
  ASSUME NEW n \in Nat, NEW d \in Nat \ {0}, NEW q \in Nat, q * d =< n
  PROVE  q =< n \div d
<1> DEFINE m == n \div d
<1>1. m \in Nat /\ n < (m + 1) * d
  BY Division
<1> HIDE DEF m
<1>2. ASSUME m + 1 =< q
      PROVE  FALSE
  <2>1. (m + 1) * d =< q * d
    BY <1>1, <1>2
  <2>2. QED
    BY <1>1, <2>1
<1>3. QED
  BY <1>1, <1>2 DEF m

(* A stream buffer is no larger than a frame or two GOPs, and short of both  *)
(* by less than a byte per frame unless the rate or the GOPs exceed u32;     *)
(* there is none for a frame rate of 0 (calc_buffer_size).                   *)
THEOREM StreamBuffersHoldTwoGops ==
  \A c \in Codec(Nat, Nat, Nat), frameSize \in Nat : StreamBufferHoldsGops(c, frameSize)
<1> SUFFICES ASSUME NEW c \in Codec(Nat, Nat, Nat), NEW frameSize \in Nat, c.framerate # 0
             PROVE  StreamBufferHoldsGops(c, frameSize)
  BY DEF StreamBufferHoldsGops, StreamBufferSize
<1> DEFINE f == c.framerate
           gop == c.gop
           rate == PeakKbps(c) * Kilo
           bits == PeakKbps(c) * Kilo * c.gop * 2
           peak == MaxBitrate(c)
           bytes == peak \div 8
           perFrame == bytes \div f
           gops == perFrame * gop * 2
           wrapped == Wrap(Wrap(perFrame * gop) * 2)
           size == StreamBufferSize(c, frameSize)
<1>1. f \in Nat \ {0} /\ gop \in Nat /\ PeakKbps(c) \in Nat
  BY DEF Codec, PeakKbps
<1>2. rate \in Nat /\ bits = rate * gop * 2
  BY <1>1, WidthsAssumption
<1>3. peak \in Nat /\ peak =< rate /\ (rate =< U32Max => peak = rate)
  <2>1. peak = Wrap(rate)
    BY DEF MaxBitrate
  <2> HIDE DEF rate, peak
  <2>2. Wrap(rate) \in 0 .. U32Max /\ Wrap(rate) =< rate
    BY <1>2, WrapIsLess
  <2>3. rate =< U32Max => Wrap(rate) = rate
    BY <1>2, WrapsNot, WidthsAssumption DEF U32Max
  <2>4. QED
    BY <2>1, <2>2, <2>3
<1>4. size = IF wrapped < frameSize THEN wrapped ELSE frameSize
  BY <1>1 DEF StreamBufferSize
<1> HIDE DEF f, gop, rate, size, bits, peak
<1>5. bytes \in Nat /\ bytes * 8 =< peak /\ peak < (bytes + 1) * 8
  BY <1>3
<1> HIDE DEF bytes
<1>6. perFrame \in Nat /\ perFrame * f =< bytes /\ bytes < (perFrame + 1) * f
  BY <1>1, <1>5, Division
<1> HIDE DEF perFrame
<1>7. perFrame * f * 8 =< peak /\ peak < (perFrame + 1) * f * 8
  <2>1. perFrame * f * 8 =< bytes * 8
    BY <1>1, <1>5, <1>6
  <2>2. (bytes + 1) * 8 =< (perFrame + 1) * f * 8
    <3>1. bytes + 1 =< (perFrame + 1) * f
      BY <1>1, <1>5, <1>6
    <3>2. (perFrame + 1) * f \in Nat
      BY <1>1, <1>6
    <3>3. QED
      BY <1>5, <3>1, <3>2
  <2>3. (perFrame + 1) * f * 8 \in Nat /\ perFrame * f * 8 \in Nat
    BY <1>1, <1>6
  <2>4. QED
    BY <1>3, <1>5, <2>1, <2>2, <2>3
<1>8. gops \in Nat /\ gops * f * 8 =< bits
  <2>1. perFrame * f * 8 \in Nat /\ gop * 2 \in Nat
    BY <1>1, <1>6
  <2>2. perFrame * f * 8 =< rate
    BY <1>2, <1>3, <1>7, <2>1
  <2>3. (perFrame * f * 8) * (gop * 2) =< rate * (gop * 2)
    BY <1>2, <2>1, <2>2
  <2>4. gops * f * 8 = (perFrame * f * 8) * (gop * 2)
    BY <1>1, <1>6
  <2>5. rate * (gop * 2) = bits
    BY <1>1, <1>2
  <2>6. QED
    BY <1>1, <1>6, <2>3, <2>4, <2>5
<1>9. ASSUME rate =< U32Max
      PROVE  bits =< (gops + 2 * gop) * f * 8
  <2>1. (perFrame + 1) * f * 8 \in Nat /\ gop * 2 \in Nat
    BY <1>1, <1>6
  <2>2. rate =< (perFrame + 1) * f * 8
    BY <1>2, <1>3, <1>7, <1>9, <2>1
  <2>3. rate * (gop * 2) =< ((perFrame + 1) * f * 8) * (gop * 2)
    BY <1>2, <2>1, <2>2
  <2>4. (gops + 2 * gop) * f * 8 = ((perFrame + 1) * f * 8) * (gop * 2)
    BY <1>1, <1>6
  <2>5. rate * (gop * 2) = bits
    BY <1>1, <1>2
  <2>6. QED
    BY <2>3, <2>4, <2>5
<1>10. ASSUME (bits \div 8) \div f =< U32Max
       PROVE  gops =< U32Max
  <2>1. bits \in Nat
    BY <1>1, <1>2
  <2>2. gops * f =< bits \div 8
    <3>1. (gops * f) * 8 =< bits /\ gops * f \in Nat
      BY <1>1, <1>8
    <3>2. QED
      BY <2>1, <3>1, DivisionIsLargest
  <2>3. bits \div 8 \in Nat
    BY <2>1
  <2>4. gops =< (bits \div 8) \div f
    BY <1>1, <1>8, <2>2, <2>3, DivisionIsLargest
  <2>5. (bits \div 8) \div f \in Nat
    BY <1>1, <2>3, Division
  <2>6. QED
    BY <1>8, <1>10, <2>4, <2>5, WidthsAssumption DEF U32Max
<1>11. wrapped \in Nat /\ wrapped =< gops /\ (gops =< U32Max => wrapped = gops)
  <2>1. perFrame * gop \in Nat /\ perFrame * gop =< gops /\ gops = (perFrame * gop) * 2
    BY <1>1, <1>6
  <2> DEFINE once == perFrame * gop
  <2> HIDE DEF once
  <2>2. once \in Nat /\ gops = once * 2 /\ U32Max \in Nat
    BY <2>1, WidthsAssumption DEF once, U32Max
  <2>3. Wrap(once) \in Nat /\ Wrap(once) =< once
    BY <2>2, WrapIsLess
  <2>4. Wrap(once) * 2 \in Nat /\ Wrap(once) * 2 =< gops
    BY <2>2, <2>3
  <2>5. Wrap(Wrap(once) * 2) \in 0 .. U32Max /\ Wrap(Wrap(once) * 2) =< Wrap(once) * 2
    BY <2>4, WrapIsLess
  <2>6. ASSUME gops =< U32Max
        PROVE  Wrap(Wrap(once) * 2) = gops
    <3>1. once \in 0 .. U32Max /\ once * 2 \in 0 .. U32Max
      BY <2>2, <2>6
    <3>2. Wrap(once) = once /\ Wrap(once * 2) = once * 2
      BY <3>1, WrapsNot
    <3>3. QED
      BY <2>2, <3>2
  <2>7. wrapped = Wrap(Wrap(once) * 2)
    BY DEF once
  <2>8. QED
    BY <1>8, <2>2, <2>4, <2>5, <2>6, <2>7
<1> HIDE DEF gops, wrapped
<1>12. size \in 0 .. frameSize /\ size =< wrapped /\ (size < frameSize => size = wrapped)
  BY <1>4, <1>11
<1>13. size * 8 * f =< bits
  <2>1. size =< gops /\ size \in Nat
    BY <1>8, <1>11, <1>12
  <2>2. size * (f * 8) =< gops * (f * 8)
    BY <1>1, <1>8, <2>1
  <2>3. size * (f * 8) = size * 8 * f /\ gops * (f * 8) = gops * f * 8
    BY <1>1, <1>8, <2>1
  <2>4. size * 8 * f \in Nat /\ gops * f * 8 \in Nat /\ bits \in Nat
    BY <1>1, <1>2, <1>8, <2>1
  <2>5. QED
    BY <1>8, <2>2, <2>3, <2>4
<1>14. ASSUME rate =< U32Max, (bits \div 8) \div f =< U32Max, size < frameSize
       PROVE  bits =< (size + 2 * gop) * 8 * f
  <2>1. size = gops
    BY <1>10, <1>11, <1>12, <1>14
  <2>2. (gops + 2 * gop) * f * 8 = (gops + 2 * gop) * 8 * f
    BY <1>1, <1>8
  <2>3. QED
    BY <1>9, <1>14, <2>1, <2>2
<1>15. QED
  BY <1>1, <1>12, <1>13, <1>14 DEF StreamBufferHoldsGops, f, gop, rate, bits, size

-----------------------------------------------------------------------------
(* The rate control union.                                                  *)

(* The fields of a codec.                                                   *)
LEMMA Codecs ==
  ASSUME NEW c \in Codec(Nat, Nat, Nat)
  PROVE  /\ c.codec \in {"H264", "Hevc"} /\ c.mode \in {"Cbr", "Vbr", "Avbr"}
         /\ c.gop \in Nat /\ c.framerate \in Nat /\ c.bitrate_kbps \in Nat
         /\ c.mode # "Cbr" => c.max_bitrate_kbps \in Nat /\ c.min_bitrate_kbps \in Nat
BY DEF Codec

(* The tag of a codec is that of a constant rate if its rate is.            *)
LEMMA TagsOfModes ==
  ASSUME NEW c \in Codec(Nat, Nat, Nat)
  PROVE  NativeTag(c) \in {"H264CBR", "H265CBR"} <=> c.mode = "Cbr"
<1>1. CASE c.codec = "H264"
  BY <1>1, Codecs DEF NativeTag
<1>2. CASE c.codec = "Hevc"
  BY <1>2, Codecs DEF NativeTag
<1>3. QED
  BY <1>1, <1>2, Codecs

(* Where a word stands in a layout, the word of the attributes is read.     *)
LEMMA ReadsAt ==
  ASSUME NEW c, NEW word,
         NEW i \in 1 .. Len(Layout(NativeTag(c))), Layout(NativeTag(c))[i] = word,
         \A j \in 1 .. Len(Layout(NativeTag(c))) : Layout(NativeTag(c))[j] = word => j = i,
         i =< Len(NativeAttrs(c))
  PROVE  ReadWord(c, word) = NativeAttrs(c)[i]
<1> DEFINE at == {j \in 1 .. Len(Layout(NativeTag(c))) : Layout(NativeTag(c))[j] = word}
<1>1. at = {i}
  OBVIOUS
<1>2. (CHOOSE j \in at : TRUE) = i
  BY <1>1
<1>3. QED
  BY <1>1, <1>2 DEF ReadWord

(* The words of a constant and of a variable rate.                          *)
LEMMA ConstantRateWords ==
  ASSUME NEW c \in Codec(Nat, Nat, Nat), c.mode = "Cbr"
  PROVE  /\ ReadWord(c, "gop") = c.gop
         /\ ReadWord(c, "srcNum") = c.framerate /\ ReadWord(c, "dstNum") = c.framerate
         /\ ReadWord(c, "srcDen") = 1 /\ ReadWord(c, "dstDen") = 1
         /\ ReadWord(c, "bitRate") = c.bitrate_kbps
         /\ ReadWord(c, "maxBitRate") = Absent
         /\ ReadWord(c, "statTime") = 0
<1> DEFINE layout == Layout(NativeTag(c))
           attrs == NativeAttrs(c)
<1>1. layout = <<"gop", "srcNum", "srcDen", "dstNum", "dstDen", "bitRate", "statTime">>
  BY TagsOfModes DEF Layout
<1>2. attrs = <<c.gop, c.framerate, 1, c.framerate, 1, c.bitrate_kbps, 0>>
  BY DEF NativeAttrs
<1>3. \A i \in 1 .. 7 : ReadWord(c, layout[i]) = attrs[i]
  <2> SUFFICES ASSUME NEW i \in 1 .. 7
               PROVE  ReadWord(c, layout[i]) = attrs[i]
    OBVIOUS
  <2>1. i \in 1 .. Len(layout) /\ i =< Len(attrs)
    BY <1>1, <1>2
  <2>2. \A j \in 1 .. 7 : layout[j] = layout[i] => j = i
    BY <1>1
  <2>3. \A j \in 1 .. Len(layout) : layout[j] = layout[i] => j = i
    BY <1>1, <2>2
  <2> HIDE DEF layout, attrs
  <2>4. QED
    BY <2>1, <2>3, ReadsAt DEF layout, attrs
<1>4. ReadWord(c, "maxBitRate") = Absent
  BY <1>1 DEF ReadWord
<1>5. QED
  BY <1>1, <1>2, <1>3, <1>4

LEMMA VariableRateWords ==
  ASSUME NEW c \in Codec(Nat, Nat, Nat), c.mode # "Cbr"
  PROVE  /\ ReadWord(c, "gop") = c.gop
         /\ ReadWord(c, "srcNum") = c.framerate /\ ReadWord(c, "dstNum") = c.framerate
         /\ ReadWord(c, "srcDen") = 1 /\ ReadWord(c, "dstDen") = 1
         /\ ReadWord(c, "bitRate") = c.bitrate_kbps
         /\ ReadWord(c, "maxBitRate") = c.max_bitrate_kbps
         /\ ReadWord(c, "minBitRate") = c.min_bitrate_kbps
         /\ ReadWord(c, "statTime") = 0
<1> DEFINE layout == Layout(NativeTag(c))
           attrs == NativeAttrs(c)
<1>1. layout = <<"gop", "srcNum", "srcDen", "dstNum", "dstDen", "bitRate", "maxBitRate",
                 "minBitRate", "statTime">>
  BY TagsOfModes DEF Layout
<1>2. attrs = <<c.gop, c.framerate, 1, c.framerate, 1, c.bitrate_kbps, c.max_bitrate_kbps,
                c.min_bitrate_kbps, 0>>
  BY DEF NativeAttrs
<1>3. \A i \in 1 .. 9 : ReadWord(c, layout[i]) = attrs[i]
  <2> SUFFICES ASSUME NEW i \in 1 .. 9
               PROVE  ReadWord(c, layout[i]) = attrs[i]
    OBVIOUS
  <2>1. i \in 1 .. Len(layout) /\ i =< Len(attrs)
    BY <1>1, <1>2
  <2>2. \A j \in 1 .. 9 : layout[j] = layout[i] => j = i
    BY <1>1
  <2>3. \A j \in 1 .. Len(layout) : layout[j] = layout[i] => j = i
    BY <1>1, <2>2
  <2> HIDE DEF layout, attrs
  <2>4. QED
    BY <2>1, <2>3, ReadsAt DEF layout, attrs
<1>4. QED
  BY <1>1, <1>2, <1>3

(* The native union is read as it was written, whatever the codec and its    *)
(* rates (native_rate_control_mode, native_rate_control_attrs).              *)
THEOREM EncoderRatesAreRead == \A c \in Codec(Nat, Nat, Nat) : RateIsRead(c)
<1> SUFFICES ASSUME NEW c \in Codec(Nat, Nat, Nat)
             PROVE  RateIsRead(c)
  OBVIOUS
<1>1. CASE c.mode = "Cbr"
  <2>1. Layout(NativeTag(c))
          = <<"gop", "srcNum", "srcDen", "dstNum", "dstDen", "bitRate", "statTime">>
    BY <1>1, TagsOfModes DEF Layout
  <2>2. \A i \in 1 .. Len(Layout(NativeTag(c))) :
          ReadWord(c, Layout(NativeTag(c))[i]) # Uninitialized
    BY <1>1, <2>1, ConstantRateWords, Codecs DEF Uninitialized
  <2>3. MaxBitrate(c) = Wrap(Kilo * ReadWord(c, "bitRate"))
    BY <1>1, ConstantRateWords, Codecs, WidthsAssumption DEF MaxBitrate, PeakKbps
  <2>4. QED
    BY <1>1, <2>2, <2>3, ConstantRateWords DEF RateIsRead
<1>2. CASE c.mode # "Cbr"
  <2>1. Layout(NativeTag(c))
          = <<"gop", "srcNum", "srcDen", "dstNum", "dstDen", "bitRate", "maxBitRate",
              "minBitRate", "statTime">>
    BY <1>2, TagsOfModes DEF Layout
  <2>2. \A i \in 1 .. Len(Layout(NativeTag(c))) :
          ReadWord(c, Layout(NativeTag(c))[i]) # Uninitialized
    BY <1>2, <2>1, VariableRateWords, Codecs DEF Uninitialized
  <2>3. ReadWord(c, "maxBitRate") # Absent
    BY <1>2, VariableRateWords, Codecs DEF Absent
  <2>4. MaxBitrate(c) = Wrap(Kilo * ReadWord(c, "maxBitRate"))
    BY <1>2, VariableRateWords, Codecs, WidthsAssumption DEF MaxBitrate, PeakKbps
  <2>5. QED
    BY <1>2, <2>2, <2>3, <2>4, VariableRateWords DEF RateIsRead
<1>3. QED
  BY <1>1, <1>2

(* Without a clip an IDR is a frame whose number is a multiple of the GOP.  *)
LEMMA IdrsAreMultiples ==
  ASSUME NEW c \in Codec(Nat, Nat, Nat), NEW seq \in Nat, c.gop # 0
  PROVE  IsIdr(c, NoClip, seq) <=> \E n \in 0 .. seq : seq = c.gop * n
<1>1. RateIsRead(c) /\ c.gop \in Nat \ {0}
  BY EncoderRatesAreRead, Codecs
<1>2. IsIdr(c, NoClip, seq) <=> seq % c.gop = 0
  BY <1>1 DEF IsIdr, ChannelGop, RateIsRead
<1> DEFINE g == c.gop
<1> HIDE DEF g
<1>3. g \in Nat \ {0}
  BY <1>1 DEF g
<1>4. ASSUME seq % g = 0
      PROVE  \E n \in 0 .. seq : seq = g * n
  <2> DEFINE n == seq \div g
  <2>1. n \in Nat /\ seq = g * n
    BY <1>3, <1>4
  <2> HIDE DEF n
  <2>2. n =< g * n
    BY <1>3, <2>1
  <2>3. QED
    BY <2>1, <2>2
<1>5. ASSUME NEW n \in 0 .. seq, seq = g * n
      PROVE  seq % g = 0
  BY <1>3, <1>5
<1>6. QED
  BY <1>2, <1>4, <1>5 DEF g

(* Of a channel without a clip every GOP begins with an IDR, and only a GOP  *)
(* does, for as many frames as u32 can number (gop and encode of the         *)
(* library).                                                                 *)
THEOREM GopsBegin ==
  \A c \in Codec(Nat, Nat, Nat), last \in 0 .. U32Max : GopsBeginWithIdr(c, 0 .. last)
<1> SUFFICES ASSUME NEW c \in Codec(Nat, Nat, Nat), NEW last \in 0 .. U32Max, c.gop # 0,
                    NEW seq \in 0 .. last
             PROVE  IsIdr(c, NoClip, seq) <=> seq \in {c.gop * n : n \in 0 .. last}
  BY DEF GopsBeginWithIdr
<1>1. IsIdr(c, NoClip, seq) <=> \E n \in 0 .. seq : seq = c.gop * n
  BY IdrsAreMultiples
<1>2. ASSUME NEW n \in 0 .. last, seq = c.gop * n
      PROVE  n \in 0 .. seq
  <2>1. c.gop \in Nat \ {0}
    BY Codecs
  <2>2. n =< c.gop * n
    BY <2>1
  <2>3. QED
    BY <1>2, <2>2
<1>3. QED
  BY <1>1, <1>2

-----------------------------------------------------------------------------
(* Timeouts.                                                                *)

(* What a remainder leaves.                                                 *)
LEMMA Remainder ==
  ASSUME NEW n \in Nat, NEW d \in Nat \ {0}
  PROVE  /\ n % d \in 0 .. d - 1 /\ n \div d \in Nat
         /\ n = (n \div d) * d + (n % d)
OBVIOUS

(* A deadline is as far away as its timeout says, or nearer, or never, for   *)
(* a timeout of any length (`timeout.as_millis() as i32', Deadline::from_ms).*)
THEOREM DeadlinesAreAsMeant == \A timeout \in Nat : DeadlineIsMeant(timeout)
<1> SUFFICES ASSUME NEW timeout \in Nat
             PROVE  DeadlineIsMeant(timeout)
  OBVIOUS
<1> DEFINE ms == Millis(timeout)
           left == Wrap(ms)
           turns == ms \div U32Size
<1>1. ms \in Nat /\ (ms = 0 <=> timeout < MicrosPerMilli)
  BY WidthsAssumption DEF Millis
<1> HIDE DEF ms
<1>2. left \in 0 .. U32Size - 1 /\ turns \in Nat /\ ms = turns * U32Size + left
  BY <1>1, Remainder, WidthsAssumption DEF Wrap
<1>3. I32Size \in Nat \ {0} /\ U32Size = 2 * I32Size
  BY WidthsAssumption DEF I32Size
<1> DEFINE deadline == Deadline(timeout)
<1>4. deadline = FromMs(IF left < I32Size THEN left ELSE left - U32Size)
  BY DEF Deadline, ToI32, ms
<1> HIDE DEF left, turns, deadline
<1>5. CASE left < I32Size
  <2>1. deadline = IF left = 0 THEN [kind |-> "NonBlock"] ELSE [kind |-> "At", ms |-> left]
    BY <1>2, <1>4, <1>5 DEF FromMs
  <2>2. CASE turns = 0
    <3>1. ms = left
      BY <1>2, <1>3, <2>2
    <3>2. QED
      BY <1>1, <1>5, <2>1, <3>1 DEF DeadlineIsMeant, deadline, ms
  <2>3. CASE turns # 0
    <3>1. U32Size =< turns * U32Size
      BY <1>2, <1>3, <2>3
    <3>2. turns * U32Size \in Nat
      BY <1>2, <1>3
    <3>3. ms >= I32Size /\ left < ms - I32Size
      BY <1>1, <1>2, <1>3, <1>5, <3>1, <3>2
    <3>4. deadline.kind = "At" => deadline.ms < ms - I32Size
      BY <2>1, <3>3
    <3>5. QED
      BY <1>1, <1>3, <3>3, <3>4 DEF DeadlineIsMeant, deadline, ms
  <2>4. QED
    BY <2>2, <2>3
<1>6. CASE ~(left < I32Size)
  <2>1. left - U32Size < 0
    BY <1>2, <1>3
  <2>2. deadline.kind # "At"
    BY <1>4, <1>6, <2>1 DEF FromMs
  <2>3. ms >= I32Size
    <3>1. turns * U32Size \in Nat
      BY <1>2, <1>3
    <3>2. QED
      BY <1>1, <1>2, <1>3, <1>6, <3>1
  <2>4. QED
    BY <1>1, <1>3, <2>2, <2>3 DEF DeadlineIsMeant, deadline, ms
<1>7. QED
  BY <1>5, <1>6

-----------------------------------------------------------------------------
(* Loops.                                                                   *)

(* What holds before a loop and is kept by its turns holds after each.      *)
LEMMA Turns ==
  ASSUME NEW N \in Nat, NEW T, 0 \in T,
         \A n \in 0 .. N : n \in T /\ n < N => n + 1 \in T
  PROVE  0 .. N \subseteq T
<1> DEFINE Bad == {n \in 0 .. N : n \notin T}
<1>1. SUFFICES ASSUME Bad # {}
               PROVE  FALSE
  OBVIOUS
<1>2. Bad \in SUBSET Nat
  OBVIOUS
<1>3. PICK n \in Bad : \A k \in Bad : n =< k
  BY <1>1, <1>2, LeastOf
<1>4. n \in 1 .. N
  BY <1>3
<1>5. n - 1 \notin Bad /\ n - 1 \in 0 .. N
  BY <1>3, <1>4
<1>6. n - 1 \in T
  BY <1>5
<1>7. n \in T
  BY <1>4, <1>5, <1>6
<1>8. QED
  BY <1>3, <1>7

(* A loop over the first N numbers: what a turn makes of a number and a     *)
(* state, and the states from the start on.                                 *)
Turning(N, State, turn) == \A n \in 1 .. N, state \in State : turn[n][state] \in State

IsLoop(N, State, start, turn, run) ==
  /\ run \in [0 .. N -> State]
  /\ run[0] = start
  /\ \A n \in 1 .. N : run[n] = turn[n][run[n - 1]]

(* Such a loop runs, whatever its turn is.                                  *)
LEMMA LoopRuns ==
  ASSUME NEW N \in Nat, NEW State, NEW start \in State,
         NEW turn, Turning(N, State, turn)
  PROVE  \E run : IsLoop(N, State, start, turn, run)
<1> DEFINE Loops(n, run) == /\ run[0] = start
                           /\ \A i \in 1 .. n : run[i] = turn[i][run[i - 1]]
           T == {n \in 0 .. N : \E run \in [0 .. n -> State] : Loops(n, run)}
<1>1. 0 \in T
  <2> DEFINE run == [i \in 0 .. 0 |-> start]
  <2>1. run \in [0 .. 0 -> State] /\ Loops(0, run)
    OBVIOUS
  <2> HIDE DEF run
  <2>2. \E first \in [0 .. 0 -> State] : Loops(0, first)
    BY <2>1
  <2> HIDE DEF Loops
  <2>3. QED
    BY <2>2
<1>2. ASSUME NEW n \in 0 .. N, n \in T, n < N
      PROVE  n + 1 \in T
  <2>1. PICK run \in [0 .. n -> State] : Loops(n, run)
    BY <1>2
  <2> DEFINE next == turn[n + 1][run[n]]
             longer == [i \in 0 .. n + 1 |-> IF i = n + 1 THEN next ELSE run[i]]
  <2>2. next \in State
    <3>1. n + 1 \in 1 .. N /\ run[n] \in State
      BY <1>2
    <3>2. QED
      BY <3>1 DEF Turning
  <2> HIDE DEF next
  <2>3. longer \in [0 .. n + 1 -> State]
    BY <2>2
  <2>4. \A i \in 0 .. n : longer[i] = run[i]
    OBVIOUS
  <2>5. longer[n + 1] = next
    OBVIOUS
  <2> HIDE DEF longer
  <2>6. longer[0] = start
    BY <2>1, <2>4
  <2>7. ASSUME NEW i \in 1 .. n + 1
        PROVE  longer[i] = turn[i][longer[i - 1]]
    <3>1. CASE i = n + 1
      BY <2>4, <2>5, <3>1 DEF next
    <3>2. CASE i # n + 1
      <4>1. i \in 1 .. n /\ i \in 0 .. n /\ i - 1 \in 0 .. n
        BY <3>2
      <4>2. QED
        BY <2>1, <2>4, <4>1
    <3>3. QED
      BY <3>1, <3>2
  <2>8. Loops(n + 1, longer)
    BY <2>6, <2>7
  <2>9. n + 1 \in 0 .. N
    BY <1>2
  <2>10. QED
    BY <2>3, <2>8, <2>9
<1> HIDE DEF T
<1>3. 0 .. N \subseteq T
  BY <1>1, <1>2, Turns
<1>4. N \in T
  BY <1>3
<1>5. QED
  BY <1>4 DEF T, IsLoop

LEMMA SubSeqGrows ==
  ASSUME NEW A, NEW xs \in Seq(A), NEW n \in Nat, n < Len(xs)
  PROVE  SubSeq(xs, 1, n) \in Seq(A) /\ SubSeq(xs, 1, n + 1) = Append(SubSeq(xs, 1, n), xs[n + 1])
<1>1. SubSeq(xs, 1, n) \in Seq(A) /\ xs[n + 1] \in A
  OBVIOUS
<1>2. SubSeq(xs, 1, n + 1) = Append(SubSeq(xs, 1, n), xs[n + 1])
  BY <1>1
<1>3. QED
  BY <1>1, <1>2

(* What holds of the empty sequence and is kept by appending holds of all.  *)
LEMMA Appending ==
  ASSUME NEW A, NEW T, <<>> \in T,
         \A xs \in Seq(A), x \in A : xs \in T => Append(xs, x) \in T
  PROVE  Seq(A) \subseteq T
<1> SUFFICES ASSUME NEW xs \in Seq(A)
             PROVE  xs \in T
  OBVIOUS
<1> DEFINE U == {n \in 0 .. Len(xs) : SubSeq(xs, 1, n) \in T}
<1>1. Len(xs) \in Nat
  OBVIOUS
<1>2. 0 \in U
  <2>1. SubSeq(xs, 1, 0) = <<>>
    BY SubSeqEmpty
  <2>2. 0 \in 0 .. Len(xs)
    BY <1>1
  <2>3. QED
    BY <2>1, <2>2
<1>3. ASSUME NEW n \in 0 .. Len(xs), n \in U, n < Len(xs)
      PROVE  n + 1 \in U
  <2>1. SubSeq(xs, 1, n) \in Seq(A) /\ xs[n + 1] \in A /\ n + 1 \in 0 .. Len(xs)
    BY <1>1, <1>3
  <2>2. SubSeq(xs, 1, n + 1) = Append(SubSeq(xs, 1, n), xs[n + 1])
    BY <1>1, <1>3, <2>1
  <2>3. SubSeq(xs, 1, n) \in T
    BY <1>3
  <2>4. SubSeq(xs, 1, n + 1) \in T
    BY <2>1, <2>2, <2>3
  <2>5. QED
    BY <2>1, <2>4
<1> HIDE DEF U
<1>4. 0 .. Len(xs) \subseteq U
  BY <1>1, <1>2, <1>3, Turns
<1>5. SubSeq(xs, 1, Len(xs)) = xs
  BY SubSeqFull
<1>6. SubSeq(xs, 1, Len(xs)) \in T
  BY <1>1, <1>4 DEF U
<1>7. QED
  BY <1>5, <1>6

(* FlattenSeq runs through its sequences.                                   *)
LEMMA FlattenRuns ==
  ASSUME NEW A, NEW seqs \in Seq(Seq(A)), seqs # <<>>
  PROVE  \E run \in [1 .. Len(seqs) -> Seq(A)] :
           /\ run[1] = seqs[1]
           /\ \A n \in 2 .. Len(seqs) : run[n] = run[n - 1] \o seqs[n]
           /\ FlattenSeq(seqs) = run[Len(seqs)]
<1> DEFINE N == Len(seqs)
           turn == [n \in 1 .. N |-> [xs \in Seq(A) |-> xs \o seqs[n]]]
           Flat(run) == run = [i \in 1 .. N |-> IF i = 1 THEN seqs[i] ELSE run[i - 1] \o seqs[i]]
<1>1. N \in Nat \ {0} /\ \A n \in 1 .. N : seqs[n] \in Seq(A)
  OBVIOUS
<1>2. \A n \in 1 .. N, xs \in Seq(A) : turn[n][xs] = xs \o seqs[n]
  OBVIOUS
<1>3. Turning(N, Seq(A), turn)
  <2>1. \A n \in 1 .. N, xs \in Seq(A) : xs \o seqs[n] \in Seq(A)
    BY <1>1
  <2> HIDE DEF turn, N
  <2>2. QED
    BY <1>2, <2>1 DEF Turning
<1> HIDE DEF N, turn, Flat
<1>4. PICK loop \in [0 .. N -> Seq(A)] :
        loop[0] = <<>> /\ \A n \in 1 .. N : loop[n] = turn[n][loop[n - 1]]
  <2>1. N \in Nat /\ <<>> \in Seq(A)
    BY <1>1
  <2>2. PICK loop : IsLoop(N, Seq(A), <<>>, turn, loop)
    BY <1>3, <2>1, LoopRuns
  <2>3. QED
    BY <2>2 DEF IsLoop
<1> DEFINE run == [i \in 1 .. N |-> loop[i]]
<1>5. Flat(run)
  <2>1. ASSUME NEW i \in 1 .. N
        PROVE  loop[i] = IF i = 1 THEN seqs[i] ELSE run[i - 1] \o seqs[i]
    <3>1. i - 1 \in 0 .. N
      BY <1>1
    <3>2. loop[i - 1] \in Seq(A)
      BY <3>1
    <3>3. loop[i] = loop[i - 1] \o seqs[i]
      BY <1>2, <1>4, <3>2
    <3>4. CASE i = 1
      <4>1. loop[i - 1] = <<>>
        BY <1>4, <3>4
      <4>2. <<>> \o seqs[i] = seqs[i]
        BY <1>1, ConcatEmptySeq
      <4>3. QED
        BY <3>3, <3>4, <4>1, <4>2
    <3>5. CASE i # 1
      <4>1. i - 1 \in 1 .. N
        BY <1>1, <3>5
      <4>2. run[i - 1] = loop[i - 1]
        BY <4>1
      <4>3. QED
        BY <3>3, <3>5, <4>2
    <3>6. QED
      BY <3>4, <3>5
  <2> HIDE DEF run
  <2>2. run = [i \in 1 .. N |-> loop[i]]
    BY DEF run
  <2>3. QED
    BY <2>1, <2>2, Zenon DEF Flat
<1> DEFINE flat == CHOOSE g : Flat(g)
<1>6. Flat(flat)
  BY <1>5
<1>7. FlattenSeq(seqs) = flat[N]
  BY <1>1, Zenon DEF FlattenSeq, N, Flat
<1> HIDE DEF flat, run
<1>8. flat[1] = seqs[1] /\ \A n \in 2 .. N : flat[n] = flat[n - 1] \o seqs[n]
  <2>1. ASSUME NEW n \in 1 .. N
        PROVE  flat[n] = IF n = 1 THEN seqs[n] ELSE flat[n - 1] \o seqs[n]
    BY <1>6, Zenon DEF Flat
  <2>2. 1 \in 1 .. N /\ \A n \in 2 .. N : n \in 1 .. N /\ n # 1
    BY <1>1
  <2>3. flat[1] = seqs[1]
    BY <2>1, <2>2
  <2>4. QED
    BY <2>1, <2>2, <2>3
<1>9. flat \in [1 .. N -> Seq(A)]
  <2> DEFINE T == {n \in 0 .. N : n = 0 \/ flat[n] \in Seq(A)}
  <2>1. 0 \in T
    BY <1>1
  <2>2. ASSUME NEW n \in 0 .. N, n \in T, n < N
        PROVE  n + 1 \in T
    <3>1. CASE n = 0
      BY <1>1, <1>8, <3>1
    <3>2. CASE n # 0
      <4>1. n + 1 \in 2 .. N /\ n + 1 \in 1 .. N /\ (n + 1) - 1 = n
        BY <1>1, <2>2, <3>2
      <4>2. flat[n + 1] = flat[n] \o seqs[n + 1]
        BY <1>8, <4>1
      <4>3. flat[n] \in Seq(A) /\ seqs[n + 1] \in Seq(A)
        BY <1>1, <2>2, <3>2, <4>1
      <4>4. flat[n + 1] \in Seq(A)
        BY <4>2, <4>3
      <4>5. QED
        BY <4>1, <4>4
    <3>3. QED
      BY <3>1, <3>2
  <2> HIDE DEF T
  <2>3. 0 .. N \subseteq T
    BY <1>1, <2>1, <2>2, Turns
  <2>4. \A n \in 1 .. N : flat[n] \in Seq(A)
    BY <1>1, <2>3 DEF T
  <2>5. flat = [n \in 1 .. N |-> flat[n]]
    BY <1>6 DEF Flat
  <2>6. QED
    BY <2>4, <2>5
<1>10. QED
  BY <1>7, <1>8, <1>9 DEF N

(* The concatenation of a sequence and one more.                            *)
LEMMA FlattenAppend ==
  ASSUME NEW A, NEW seqs \in Seq(Seq(A)), NEW seq \in Seq(A)
  PROVE  /\ FlattenSeq(seqs) \in Seq(A)
         /\ FlattenSeq(Append(seqs, seq)) = FlattenSeq(seqs) \o seq
<1> DEFINE longer == Append(seqs, seq)
           N == Len(seqs)
<1>1. /\ N \in Nat /\ longer \in Seq(Seq(A)) /\ longer # <<>> /\ Len(longer) = N + 1
      /\ longer[N + 1] = seq /\ \A n \in 1 .. N : longer[n] = seqs[n]
  BY AppendProperties
<1> HIDE DEF longer, N
<1>2. PICK run \in [1 .. N + 1 -> Seq(A)] :
        /\ run[1] = longer[1]
        /\ \A n \in 2 .. N + 1 : run[n] = run[n - 1] \o longer[n]
        /\ FlattenSeq(longer) = run[N + 1]
  <2>1. \E run \in [1 .. Len(longer) -> Seq(A)] :
          /\ run[1] = longer[1]
          /\ \A n \in 2 .. Len(longer) : run[n] = run[n - 1] \o longer[n]
          /\ FlattenSeq(longer) = run[Len(longer)]
    BY <1>1, FlattenRuns
  <2>2. QED
    BY <1>1, <2>1, Zenon
<1>3. CASE seqs = <<>>
  <2>1. N = 0 /\ FlattenSeq(seqs) = <<>>
    BY <1>3 DEF FlattenSeq, N
  <2>2. FlattenSeq(longer) = seq
    BY <1>1, <1>2, <2>1
  <2>3. QED
    BY <2>1, <2>2 DEF longer
<1>4. CASE seqs # <<>>
  <2>1. PICK short \in [1 .. N -> Seq(A)] :
          /\ short[1] = seqs[1]
          /\ \A n \in 2 .. N : short[n] = short[n - 1] \o seqs[n]
          /\ FlattenSeq(seqs) = short[N]
    BY <1>4, FlattenRuns DEF N
  <2>2. N # 0
    BY <1>4 DEF N
  <2> DEFINE T == {n \in 0 .. N : n = 0 \/ run[n] = short[n]}
  <2>3. 0 \in T
    BY <1>1
  <2>4. ASSUME NEW n \in 0 .. N, n \in T, n < N
        PROVE  n + 1 \in T
    <3>1. n + 1 \in 1 .. N
      BY <1>1, <2>4
    <3>2. CASE n = 0
      BY <1>1, <1>2, <2>1, <3>1, <3>2
    <3>3. CASE n # 0
      <4>1. n + 1 \in 2 .. N /\ n + 1 \in 2 .. N + 1 /\ (n + 1) - 1 = n
        BY <1>1, <3>1, <3>3
      <4>2. run[n] = short[n]
        BY <2>4, <3>3
      <4>3. run[n + 1] = run[n] \o longer[n + 1] /\ short[n + 1] = short[n] \o seqs[n + 1]
        BY <1>2, <2>1, <4>1
      <4>4. longer[n + 1] = seqs[n + 1] /\ n + 1 \in 0 .. N
        BY <1>1, <3>1
      <4>5. run[n + 1] = short[n + 1]
        BY <4>2, <4>3, <4>4
      <4>6. QED
        BY <4>4, <4>5
    <3>4. QED
      BY <3>2, <3>3
  <2> HIDE DEF T
  <2>5. 0 .. N \subseteq T
    BY <1>1, <2>3, <2>4, Turns
  <2>6. run[N] = short[N]
    BY <1>1, <2>2, <2>5 DEF T
  <2>7. run[N + 1] = run[N] \o seq
    <3>1. N + 1 \in 2 .. N + 1 /\ (N + 1) - 1 = N
      BY <1>1, <2>2
    <3>2. QED
      BY <1>1, <1>2, <3>1
  <2>8. short[N] \in Seq(A)
    BY <1>1, <2>1, <2>2
  <2>9. QED
    BY <1>2, <2>1, <2>6, <2>7, <2>8 DEF longer
<1>5. QED
  BY <1>3, <1>4

(* One sequence of sequences is its only member.                            *)
LEMMA FlattenOne ==
  ASSUME NEW A, NEW seq \in Seq(A)
  PROVE  FlattenSeq(<<seq>>) = seq
<1>1. <<>> \in Seq(Seq(A)) /\ Append(<<>>, seq) = <<seq>>
  OBVIOUS
<1>2. FlattenSeq(<<>>) = <<>>
  BY DEF FlattenSeq
<1>3. FlattenSeq(Append(<<>>, seq)) = FlattenSeq(<<>>) \o seq
  BY <1>1, FlattenAppend
<1>4. QED
  BY <1>1, <1>2, <1>3, ConcatEmptySeq

LEMMA ConcatThenAppend ==
  ASSUME NEW A, NEW some \in Seq(A), NEW xs \in Seq(A), NEW x \in A
  PROVE  some \o Append(xs, x) = Append(some \o xs, x)
<1>1. <<x>> \in Seq(A) /\ some \o xs \in Seq(A)
  OBVIOUS
<1>2. Append(xs, x) = xs \o <<x>> /\ Append(some \o xs, x) = (some \o xs) \o <<x>>
  BY <1>1, AppendIsConcat
<1>3. (some \o xs) \o <<x>> = some \o (xs \o <<x>>)
  BY <1>1, ConcatAssociative
<1>4. QED
  BY <1>2, <1>3, Zenon

IsAssociative(r, s, t) == (r \o s) \o t = r \o (s \o t)

LEMMA Associates ==
  \A A : \A r, s, t \in Seq(A) : IsAssociative(r, s, t)
<1> SUFFICES ASSUME NEW A, NEW r \in Seq(A), NEW s \in Seq(A), NEW t \in Seq(A)
             PROVE  (r \o s) \o t = r \o (s \o t)
  BY DEF IsAssociative
<1> QED
  BY ConcatAssociative

(* FlattenSeq distributes over concatenation.                               *)
LEMMA FlattenConcat ==
  ASSUME NEW A, NEW some \in Seq(Seq(A)), NEW more \in Seq(Seq(A))
  PROVE  FlattenSeq(some \o more) = FlattenSeq(some) \o FlattenSeq(more)
<1> DEFINE T == {xs \in Seq(Seq(A)) :
                   FlattenSeq(some \o xs) = FlattenSeq(some) \o FlattenSeq(xs)}
<1>1. <<>> \in T
  <2>1. <<>> \in Seq(A) /\ <<>> \in Seq(Seq(A)) /\ FlattenSeq(<<>>) = <<>>
    BY DEF FlattenSeq
  <2>0. FlattenSeq(some) \in Seq(A)
    BY <2>1, FlattenAppend
  <2>2. some \o <<>> = some /\ FlattenSeq(some) \o <<>> = FlattenSeq(some)
    BY <2>0, ConcatEmptySeq
  <2>3. QED
    BY <2>1, <2>2
<1>2. ASSUME NEW xs \in Seq(Seq(A)), NEW x \in Seq(A), xs \in T
      PROVE  Append(xs, x) \in T
  <2>1. some \o Append(xs, x) = Append(some \o xs, x)
    BY ConcatThenAppend
  <2>2. some \o xs \in Seq(Seq(A)) /\ Append(xs, x) \in Seq(Seq(A))
    OBVIOUS
  <2>3. /\ FlattenSeq(Append(some \o xs, x)) = FlattenSeq(some \o xs) \o x
        /\ FlattenSeq(Append(xs, x)) = FlattenSeq(xs) \o x
    BY <2>2, FlattenAppend
  <2>4. FlattenSeq(some) \in Seq(A) /\ FlattenSeq(xs) \in Seq(A)
    BY FlattenAppend
  <2>5. (FlattenSeq(some) \o FlattenSeq(xs)) \o x = FlattenSeq(some) \o (FlattenSeq(xs) \o x)
    <3>1. IsAssociative(FlattenSeq(some), FlattenSeq(xs), x)
      BY <2>4, Associates, Zenon
    <3>2. QED
      BY <3>1, Zenon DEF IsAssociative
  <2>6. FlattenSeq(some \o xs) = FlattenSeq(some) \o FlattenSeq(xs)
    BY <1>2
  <2>7. FlattenSeq(some \o Append(xs, x)) = FlattenSeq(some) \o FlattenSeq(Append(xs, x))
    BY <2>1, <2>3, <2>5, <2>6, Zenon
  <2>8. QED
    BY <2>2, <2>7
<1> HIDE DEF T
<1>3. Seq(Seq(A)) \subseteq T
  BY <1>1, <1>2, Appending
<1>4. more \in T
  BY <1>3
<1>5. QED
  BY <1>4 DEF T

-----------------------------------------------------------------------------
(* Splitting.                                                               *)

Nal == [type : Nat, first : BOOLEAN, short : BOOLEAN]

SplitState == [frames : Seq(Seq(Nal)), current : Seq(Nal), hasVcl : BOOLEAN]

LEMMA AddNalType ==
  ASSUME NEW codec, NEW s \in SplitState, NEW nal \in Nal
  PROVE  AddNal(codec, s, nal) \in SplitState
<1>1. Vcl(codec, nal) \in BOOLEAN
  <2>1. nal.type \in Nat
    BY DEF Nal
  <2>2. (nal.type \in 1 .. 5) \in BOOLEAN /\ (nal.type < 32) \in BOOLEAN
    BY <2>1
  <2>3. QED
    BY <2>2, Zenon DEF Vcl
<1>2. s.frames \in Seq(Seq(Nal)) /\ s.current \in Seq(Nal) /\ s.hasVcl \in BOOLEAN
  BY DEF SplitState
<1>3. Append(s.frames, s.current) \in Seq(Seq(Nal)) /\ Append(<<>>, nal) \in Seq(Nal)
      /\ Append(s.current, nal) \in Seq(Nal)
  BY <1>2
<1> DEFINE next == AddNal(codec, s, nal)
<1>4. next.frames \in Seq(Seq(Nal)) /\ next.current \in Seq(Nal)
  BY <1>2, <1>3 DEF AddNal
<1>5. next.hasVcl \in BOOLEAN
  BY <1>1, <1>2 DEF AddNal
<1>6. next = [frames |-> next.frames, current |-> next.current, hasVcl |-> next.hasVcl]
  BY DEF AddNal
<1>7. QED
  BY <1>4, <1>5, <1>6 DEF SplitState

(* The states of split_frames, after each of the units.                     *)
IsAdding(codec, s, nals, run) ==
  /\ run \in [0 .. Len(nals) -> SplitState]
  /\ run[0] = s
  /\ \A n \in 1 .. Len(nals) : run[n] = AddNal(codec, run[n - 1], nals[n])
  /\ AddNals(codec, s, nals) = run[Len(nals)]

(* The loop of split_frames runs through the units.                         *)
LEMMA AddNalsRuns ==
  ASSUME NEW codec, NEW s \in SplitState, NEW nals \in Seq(Nal)
  PROVE  \E run : IsAdding(codec, s, nals, run)
<1> DEFINE N == Len(nals)
           turn == [n \in 1 .. N |-> [state \in SplitState |-> AddNal(codec, state, nals[n])]]
           After(run) ==
             run = [n \in 0 .. N |-> IF n = 0 THEN s ELSE AddNal(codec, run[n - 1], nals[n])]
<1>1. N \in Nat /\ \A n \in 1 .. N : nals[n] \in Nal
  OBVIOUS
<1>2. \A n \in 1 .. N, state \in SplitState : turn[n][state] = AddNal(codec, state, nals[n])
  OBVIOUS
<1>3. Turning(N, SplitState, turn)
  <2>1. \A n \in 1 .. N, state \in SplitState : AddNal(codec, state, nals[n]) \in SplitState
    BY <1>1, AddNalType
  <2> HIDE DEF turn, N
  <2>2. QED
    BY <1>2, <2>1 DEF Turning
<1> HIDE DEF N, turn, After
<1>4. PICK loop : IsLoop(N, SplitState, s, turn, loop)
  BY <1>1, <1>3, LoopRuns
<1>5. After(loop)
  <2>1. ASSUME NEW n \in 0 .. N
        PROVE  loop[n] = IF n = 0 THEN s ELSE AddNal(codec, loop[n - 1], nals[n])
    <3>1. CASE n = 0
      BY <1>4, <3>1 DEF IsLoop
    <3>2. CASE n # 0
      <4>1. n \in 1 .. N /\ n - 1 \in 0 .. N
        BY <1>1, <3>2
      <4>2. loop[n - 1] \in SplitState /\ loop[n] = turn[n][loop[n - 1]]
        BY <1>4, <4>1 DEF IsLoop
      <4>3. QED
        BY <1>2, <3>2, <4>1, <4>2
    <3>3. QED
      BY <3>1, <3>2
  <2>2. loop = [n \in 0 .. N |-> loop[n]]
    BY <1>4 DEF IsLoop
  <2>3. QED
    BY <2>1, <2>2, Zenon DEF After
<1> DEFINE after == CHOOSE run : After(run)
<1>6. After(after)
  BY <1>5
<1>7. AddNals(codec, s, nals) = after[N]
  BY Zenon DEF AddNals, N, After
<1> HIDE DEF after
<1>8. after[0] = s /\ \A n \in 1 .. N : after[n] = AddNal(codec, after[n - 1], nals[n])
  <2>1. ASSUME NEW n \in 0 .. N
        PROVE  after[n] = IF n = 0 THEN s ELSE AddNal(codec, after[n - 1], nals[n])
    BY <1>6, Zenon DEF After
  <2>2. 0 \in 0 .. N /\ \A n \in 1 .. N : n \in 0 .. N /\ n # 0
    BY <1>1
  <2>3. after[0] = s
    BY <2>1, <2>2
  <2>4. QED
    BY <2>1, <2>2, <2>3
<1>9. after \in [0 .. N -> SplitState]
  <2> DEFINE T == {n \in 0 .. N : after[n] \in SplitState}
  <2>1. 0 \in T
    BY <1>1, <1>8
  <2>2. ASSUME NEW n \in 0 .. N, n \in T, n < N
        PROVE  n + 1 \in T
    <3>1. n + 1 \in 1 .. N /\ n + 1 \in 0 .. N /\ (n + 1) - 1 = n
      BY <1>1, <2>2
    <3>2. after[n + 1] = AddNal(codec, after[n], nals[n + 1])
      BY <1>8, <3>1
    <3>3. after[n] \in SplitState /\ nals[n + 1] \in Nal
      BY <1>1, <2>2, <3>1
    <3>4. QED
      BY <3>1, <3>2, <3>3, AddNalType
  <2> HIDE DEF T
  <2>3. 0 .. N \subseteq T
    BY <1>1, <2>1, <2>2, Turns
  <2>4. \A n \in 0 .. N : after[n] \in SplitState
    BY <2>3 DEF T
  <2>5. after = [n \in 0 .. N |-> after[n]]
    BY <1>6 DEF After
  <2>6. QED
    BY <2>4, <2>5
<1>10. QED
  BY <1>7, <1>8, <1>9 DEF N, IsAdding

(* The loop takes the units one by one.                                     *)
LEMMA AddNalsAppend ==
  ASSUME NEW codec, NEW s \in SplitState, NEW nals \in Seq(Nal), NEW nal \in Nal
  PROVE  /\ AddNals(codec, s, nals) \in SplitState
         /\ AddNals(codec, s, <<>>) = s
         /\ AddNals(codec, s, Append(nals, nal)) = AddNal(codec, AddNals(codec, s, nals), nal)
<1> DEFINE longer == Append(nals, nal)
           N == Len(nals)
<1>1. /\ N \in Nat /\ longer \in Seq(Nal) /\ Len(longer) = N + 1
      /\ longer[N + 1] = nal /\ \A n \in 1 .. N : longer[n] = nals[n]
  BY AppendProperties
<1> HIDE DEF longer, N
<1>2. PICK short : IsAdding(codec, s, nals, short)
  BY AddNalsRuns
<1>3. PICK long : IsAdding(codec, s, longer, long)
  BY <1>1, AddNalsRuns
<1>4. AddNals(codec, s, <<>>) = s
  <2>1. <<>> \in Seq(Nal)
    OBVIOUS
  <2>2. PICK run : IsAdding(codec, s, <<>>, run)
    BY <2>1, AddNalsRuns
  <2>3. QED
    BY <2>2 DEF IsAdding
<1> DEFINE T == {n \in 0 .. N : long[n] = short[n]}
<1>5. 0 \in T
  BY <1>1, <1>2, <1>3 DEF IsAdding
<1>6. ASSUME NEW n \in 0 .. N, n \in T, n < N
      PROVE  n + 1 \in T
  <2>1. n + 1 \in 1 .. N /\ n + 1 \in 1 .. N + 1 /\ n + 1 \in 0 .. N /\ (n + 1) - 1 = n
    BY <1>1, <1>6
  <2>2. /\ long[n + 1] = AddNal(codec, long[n], longer[n + 1])
        /\ short[n + 1] = AddNal(codec, short[n], nals[n + 1])
    BY <1>1, <1>2, <1>3, <2>1 DEF IsAdding, N
  <2>3. long[n] = short[n] /\ longer[n + 1] = nals[n + 1]
    BY <1>1, <1>6, <2>1
  <2>4. long[n + 1] = short[n + 1]
    BY <2>2, <2>3
  <2>5. QED
    BY <2>1, <2>4
<1> HIDE DEF T
<1>7. 0 .. N \subseteq T
  BY <1>1, <1>5, <1>6, Turns
<1>8. long[N] = short[N]
  BY <1>1, <1>7 DEF T
<1>9. long[N + 1] = AddNal(codec, long[N], nal)
  <2>1. N + 1 \in 1 .. N + 1 /\ (N + 1) - 1 = N
    BY <1>1
  <2>2. QED
    BY <1>1, <1>3, <2>1 DEF IsAdding
<1>10. short[N] \in SplitState /\ AddNals(codec, s, nals) = short[N]
  BY <1>1, <1>2 DEF IsAdding, N
<1>11. AddNals(codec, s, longer) = long[N + 1]
  BY <1>1, <1>3 DEF IsAdding
<1>12. QED
  BY <1>4, <1>8, <1>9, <1>10, <1>11, Zenon DEF longer

(* A turn, by itself.                                                       *)
Takes(codec, s, nals, nal) ==
  /\ AddNals(codec, s, nals) \in SplitState
  /\ AddNals(codec, s, Append(nals, nal)) = AddNal(codec, AddNals(codec, s, nals), nal)

LEMMA AddNalsTakes ==
  \A codec : \A s \in SplitState, nals \in Seq(Nal), nal \in Nal : Takes(codec, s, nals, nal)
BY AddNalsAppend DEF Takes

LEMMA AddNalsConcat ==
  ASSUME NEW codec, NEW s \in SplitState, NEW some \in Seq(Nal), NEW more \in Seq(Nal)
  PROVE  AddNals(codec, s, some \o more) = AddNals(codec, AddNals(codec, s, some), more)
<1> DEFINE mid == AddNals(codec, s, some)
           T == {xs \in Seq(Nal) : AddNals(codec, s, some \o xs) = AddNals(codec, mid, xs)}
<1>0. [type |-> 0, first |-> TRUE, short |-> TRUE] \in Nal
  BY DEF Nal
<1>1. mid \in SplitState
  BY <1>0, AddNalsAppend
<1> HIDE DEF mid
<1>2. <<>> \in T
  <2>1. AddNals(codec, mid, <<>>) = mid /\ <<>> \in Seq(Nal)
    BY <1>0, <1>1, AddNalsAppend
  <2>2. some \o <<>> = some
    BY ConcatEmptySeq
  <2>3. QED
    BY <2>1, <2>2 DEF mid
<1>3. ASSUME NEW xs \in Seq(Nal), NEW x \in Nal, xs \in T
      PROVE  Append(xs, x) \in T
  <2>1. some \o Append(xs, x) = Append(some \o xs, x)
    BY ConcatThenAppend
  <2>2. some \o xs \in Seq(Nal) /\ Append(xs, x) \in Seq(Nal)
    OBVIOUS
  <2>3. AddNals(codec, s, Append(some \o xs, x)) = AddNal(codec, AddNals(codec, s, some \o xs), x)
    <3> DEFINE both == some \o xs
    <3>1. both \in Seq(Nal)
      BY <2>2
    <3> HIDE DEF both
    <3>2. AddNals(codec, s, Append(both, x)) = AddNal(codec, AddNals(codec, s, both), x)
      BY <3>1, AddNalsTakes DEF Takes
    <3>3. QED
      BY <3>2 DEF both
  <2>4. AddNals(codec, mid, Append(xs, x)) = AddNal(codec, AddNals(codec, mid, xs), x)
    BY <1>1, AddNalsTakes DEF Takes
  <2>5. AddNals(codec, s, some \o xs) = AddNals(codec, mid, xs)
    BY <1>3
  <2>6. AddNals(codec, s, some \o Append(xs, x)) = AddNals(codec, mid, Append(xs, x))
    BY <2>1, <2>3, <2>4, <2>5, Zenon
  <2>7. QED
    BY <2>2, <2>6
<1> HIDE DEF T
<1>4. Seq(Nal) \subseteq T
  BY <1>2, <1>3, Appending
<1>5. more \in T
  BY <1>4
<1>6. QED
  BY <1>5 DEF T, mid

(* A frame of a picture: it has a slice, and no picture starts behind it.   *)
IsPicture(codec, frame) ==
  /\ \E n \in DOMAIN frame : Vcl(codec, frame[n])
  /\ \A m, n \in DOMAIN frame :
       Vcl(codec, frame[m]) /\ StartsPicture(codec, frame[n]) => n =< m

HasSlice(codec, frame, n) == \E m \in 1 .. n : Vcl(codec, frame[m])

(* A picture that starts one, or comes first, becomes the current frame.    *)
LEMMA PictureIsTaken ==
  ASSUME NEW codec, NEW s \in SplitState, NEW frame \in Seq(Nal), IsPicture(codec, frame),
         \/ s.hasVcl /\ StartsPicture(codec, frame[1])
         \/ ~s.hasVcl /\ s.current = <<>>
  PROVE  AddNals(codec, s, frame) =
           [frames |-> IF s.hasVcl THEN Append(s.frames, s.current) ELSE s.frames,
            current |-> frame, hasVcl |-> TRUE]
<1> DEFINE N == Len(frame)
           before == IF s.hasVcl THEN Append(s.frames, s.current) ELSE s.frames
           Upto(n) == [frames |-> before, current |-> SubSeq(frame, 1, n),
                       hasVcl |-> HasSlice(codec, frame, n)]
           T == {n \in 0 .. N : n = 0 \/ AddNals(codec, s, SubSeq(frame, 1, n)) = Upto(n)}
<1>1. N \in Nat /\ DOMAIN frame = 1 .. N /\ \A n \in 1 .. N : frame[n] \in Nal
  OBVIOUS
<1>2. N # 0
  BY <1>1 DEF IsPicture
<1>3. 0 \in T
  BY <1>1
<1>4. ASSUME NEW n \in 0 .. N, n \in T, n < N
      PROVE  n + 1 \in T
  <2> DEFINE nal == frame[n + 1]
             head == SubSeq(frame, 1, n)
  <2>1. n + 1 \in 1 .. N /\ n + 1 \in 0 .. N /\ nal \in Nal /\ head \in Seq(Nal)
    BY <1>1, <1>4
  <2>0. n \in Nat /\ n < Len(frame)
    BY <1>1, <1>4
  <2>2. SubSeq(frame, 1, n + 1) = Append(head, nal)
    BY <2>0, SubSeqGrows, Zenon
  <2> HIDE DEF nal, head, N
  <2>3. AddNals(codec, s, Append(head, nal)) = AddNal(codec, AddNals(codec, s, head), nal)
    BY <2>1, AddNalsAppend
  <2> USE DEF nal, head
  <2> HIDE DEF N
  <2>4. CASE n = 0
    <3>1. head = <<>> /\ AddNals(codec, s, <<>>) = s
      BY <2>1, <2>4, AddNalsAppend, SubSeqEmpty
    <3>2. AddNals(codec, s, SubSeq(frame, 1, n + 1)) = AddNal(codec, s, nal)
      BY <2>2, <2>3, <3>1, Zenon
    <3>3. nal = frame[1] /\ s.hasVcl \in BOOLEAN
      BY <2>4 DEF SplitState
    <3>4. HasSlice(codec, frame, n + 1) <=> Vcl(codec, nal)
      BY <2>4 DEF HasSlice
    <3>5. CASE s.hasVcl /\ StartsPicture(codec, frame[1])
      <4>1. AddNal(codec, s, nal).hasVcl = HasSlice(codec, frame, n + 1)
        BY <3>3, <3>4, <3>5, Zenon DEF AddNal, HasSlice
      <4>2. SubSeq(frame, 1, n + 1) = Append(<<>>, nal)
        BY <2>2, <3>1
      <4>3. AddNal(codec, s, nal) = Upto(n + 1)
        BY <3>3, <3>4, <3>5, <4>2 DEF AddNal, HasSlice
      <4>4. QED
        BY <2>1, <3>2, <4>3
    <3>6. CASE ~s.hasVcl /\ s.current = <<>>
      <4>2. SubSeq(frame, 1, n + 1) = Append(<<>>, nal)
        BY <2>2, <3>1
      <4>3. AddNal(codec, s, nal) = Upto(n + 1)
        BY <3>3, <3>4, <3>6, <4>2 DEF AddNal, HasSlice
      <4>4. QED
        BY <2>1, <3>2, <4>3
    <3>7. QED
      BY <3>5, <3>6
  <2>5. CASE n # 0
    <3>1. AddNals(codec, s, head) = Upto(n)
      BY <1>4, <2>5
    <3>2. AddNals(codec, s, SubSeq(frame, 1, n + 1)) = AddNal(codec, Upto(n), nal)
      BY <2>2, <2>3, <3>1, Zenon
    <3>3. ~(StartsPicture(codec, nal) /\ HasSlice(codec, frame, n))
      <4>1. SUFFICES ASSUME StartsPicture(codec, nal), NEW m \in 1 .. n, Vcl(codec, frame[m])
                     PROVE  FALSE
        BY DEF HasSlice
      <4>2. m \in DOMAIN frame /\ n + 1 \in DOMAIN frame
        BY <1>1, <2>1
      <4>3. n + 1 =< m
        BY <4>1, <4>2 DEF IsPicture
      <4>4. QED
        BY <4>3
    <3>4. HasSlice(codec, frame, n + 1) <=> HasSlice(codec, frame, n) \/ Vcl(codec, nal)
      <4>1. \A m \in 1 .. n + 1 : m \in 1 .. n \/ m = n + 1
        BY <2>1
      <4>2. 1 .. n \subseteq 1 .. n + 1 /\ n + 1 \in 1 .. n + 1
        BY <2>1
      <4>3. QED
        BY <4>1, <4>2 DEF HasSlice
    <3> DEFINE here == HasSlice(codec, frame, n)
               there == HasSlice(codec, frame, n + 1)
    <3>5. here \in BOOLEAN /\ there \in BOOLEAN
      BY DEF HasSlice
    <3>6. (((here /\ ~(StartsPicture(codec, nal) /\ here)) \/ Vcl(codec, nal))) = there
      BY <3>3, <3>4, <3>5
    <3> HIDE DEF before, here, there
    <3>7. AddNal(codec, Upto(n), nal) = Upto(n + 1)
      BY <2>2, <3>3, <3>6 DEF AddNal, here, there
    <3>8. QED
      BY <2>1, <3>2, <3>7
  <2>6. QED
    BY <2>4, <2>5
<1> HIDE DEF T
<1>5. 0 .. N \subseteq T
  BY <1>1, <1>3, <1>4, Turns
<1>6. N \in T
  BY <1>1, <1>5
<1>7. AddNals(codec, s, SubSeq(frame, 1, N)) = Upto(N)
  BY <1>2, <1>6 DEF T
<1>8. SubSeq(frame, 1, N) = frame
  BY SubSeqFull
<1>9. HasSlice(codec, frame, N) = TRUE
  BY <1>1 DEF HasSlice, IsPicture
<1>10. QED
  BY <1>7, <1>8, <1>9, Zenon

Unsplit == [frames |-> <<>>, current |-> <<>>, hasVcl |-> FALSE]

ArePictures(codec, frames) ==
  \A f \in DOMAIN frames :
    IsPicture(codec, frames[f]) /\ (f > 1 => StartsPicture(codec, frames[f][1]))

(* Pictures of which all but the first start one are taken apart again.     *)
LEMMA PicturesAreTaken ==
  ASSUME NEW codec, NEW frames \in Seq(Seq(Nal)), frames # <<>>, ArePictures(codec, frames)
  PROVE  AddNals(codec, Unsplit, FlattenSeq(frames)) =
           [frames |-> SubSeq(frames, 1, Len(frames) - 1), current |-> frames[Len(frames)],
            hasVcl |-> TRUE]
<1> DEFINE N == Len(frames)
           Upto(n) == [frames |-> SubSeq(frames, 1, n - 1), current |-> frames[n],
                       hasVcl |-> TRUE]
           T == {n \in 0 .. N :
                   n = 0 \/ AddNals(codec, Unsplit, FlattenSeq(SubSeq(frames, 1, n))) = Upto(n)}
<1>1. N \in Nat \ {0} /\ DOMAIN frames = 1 .. N /\ \A n \in 1 .. N : frames[n] \in Seq(Nal)
  OBVIOUS
<1>2. Unsplit \in SplitState
  BY DEF Unsplit, SplitState
<1>3. 0 \in T
  BY <1>1
<1>4. ASSUME NEW n \in 0 .. N, n \in T, n < N
      PROVE  n + 1 \in T
  <2> DEFINE frame == frames[n + 1]
             head == SubSeq(frames, 1, n)
  <2>1. n + 1 \in 1 .. N /\ n + 1 \in 0 .. N /\ frame \in Seq(Nal) /\ head \in Seq(Seq(Nal))
    BY <1>1, <1>4
  <2>2. SubSeq(frames, 1, n + 1) = Append(head, frame)
    BY <1>1, <1>4, <2>1
  <2>3. FlattenSeq(head) \in Seq(Nal) /\ FlattenSeq(Append(head, frame)) = FlattenSeq(head) \o frame
    BY <2>1, FlattenAppend
  <2>4. AddNals(codec, Unsplit, FlattenSeq(head) \o frame)
          = AddNals(codec, AddNals(codec, Unsplit, FlattenSeq(head)), frame)
    BY <1>2, <2>1, <2>3, AddNalsConcat
  <2>5. IsPicture(codec, frame) /\ (n + 1 > 1 => StartsPicture(codec, frame[1]))
    BY <1>1, <2>1 DEF ArePictures
  <2>6. Upto(n + 1) = [frames |-> SubSeq(frames, 1, n), current |-> frame, hasVcl |-> TRUE]
    OBVIOUS
  <2> HIDE DEF N
  <2>7. CASE n = 0
    <3>1. head = <<>> /\ FlattenSeq(<<>>) = <<>>
      BY <2>7, SubSeqEmpty DEF FlattenSeq
    <3>2. [type |-> 0, first |-> TRUE, short |-> TRUE] \in Nal /\ <<>> \in Seq(Nal)
      BY DEF Nal
    <3>3. AddNals(codec, Unsplit, <<>>) = Unsplit
      BY <1>2, <3>2, AddNalsAppend
    <3>4. AddNals(codec, Unsplit, FlattenSeq(SubSeq(frames, 1, n + 1)))
            = AddNals(codec, Unsplit, frame)
      BY <2>2, <2>3, <2>4, <3>1, <3>3, Zenon
    <3>5. ~Unsplit.hasVcl /\ Unsplit.current = <<>> /\ Unsplit.frames = <<>>
      BY DEF Unsplit
    <3>6. AddNals(codec, Unsplit, frame)
            = [frames |-> IF Unsplit.hasVcl THEN Append(Unsplit.frames, Unsplit.current)
                          ELSE Unsplit.frames,
               current |-> frame, hasVcl |-> TRUE]
      BY <1>2, <2>1, <2>5, <3>5, PictureIsTaken
    <3>7. AddNals(codec, Unsplit, frame) = [frames |-> <<>>, current |-> frame, hasVcl |-> TRUE]
      BY <3>5, <3>6
    <3>8. AddNals(codec, Unsplit, FlattenSeq(SubSeq(frames, 1, n + 1))) = Upto(n + 1)
      BY <2>6, <3>1, <3>4, <3>7, Zenon
    <3>9. QED
      BY <2>1, <3>8
  <2>8. CASE n # 0
    <3> DEFINE s == Upto(n)
    <3>1. AddNals(codec, Unsplit, FlattenSeq(head)) = s
      BY <1>4, <2>8
    <3>2. n \in 1 .. N /\ SubSeq(frames, 1, n - 1) \in Seq(Seq(Nal)) /\ frames[n] \in Seq(Nal)
      BY <1>1, <1>4, <2>8
    <3>3. s \in SplitState /\ s.hasVcl
      BY <3>2 DEF SplitState
    <3>4. StartsPicture(codec, frame[1])
      BY <2>5, <2>8
    <3>5. s.frames = SubSeq(frames, 1, n - 1) /\ s.current = frames[n]
      OBVIOUS
    <3>6. head = Append(SubSeq(frames, 1, n - 1), frames[n])
      BY <1>1, <3>2
    <3> HIDE DEF s
    <3>7. AddNals(codec, s, frame)
            = [frames |-> IF s.hasVcl THEN Append(s.frames, s.current) ELSE s.frames,
               current |-> frame, hasVcl |-> TRUE]
      BY <2>1, <2>5, <3>3, <3>4, PictureIsTaken
    <3>8. AddNals(codec, s, frame) = [frames |-> head, current |-> frame, hasVcl |-> TRUE]
      BY <3>3, <3>5, <3>6, <3>7
    <3>9. AddNals(codec, Unsplit, FlattenSeq(SubSeq(frames, 1, n + 1))) = Upto(n + 1)
      BY <2>2, <2>3, <2>4, <2>6, <3>1, <3>8, Zenon
    <3>10. QED
      BY <2>1, <3>9
  <2>9. QED
    BY <2>7, <2>8
<1> HIDE DEF T
<1>5. 0 .. N \subseteq T
  BY <1>1, <1>3, <1>4, Turns
<1>6. N \in T
  <2>1. N \in 0 .. N
    BY <1>1
  <2>2. QED
    BY <1>5, <2>1, Zenon
<1>7. AddNals(codec, Unsplit, FlattenSeq(SubSeq(frames, 1, N))) = Upto(N)
  BY <1>1, <1>6 DEF T
<1>8. SubSeq(frames, 1, N) = frames
  BY SubSeqFull
<1>9. QED
  BY <1>7, <1>8, Zenon

(* What the loop of split_frames keeps.                                     *)
Splitting(codec, nals, s) ==
  /\ FlattenSeq(s.frames) \o s.current = nals
  /\ ArePictures(codec, s.frames)
  /\ s.hasVcl <=> \E n \in DOMAIN s.current : Vcl(codec, s.current[n])
  /\ \A m, n \in DOMAIN s.current :
       Vcl(codec, s.current[m]) /\ StartsPicture(codec, s.current[n]) => n =< m
  /\ s.frames # <<>> => s.current # <<>> /\ StartsPicture(codec, s.current[1])

(* With a slice, the current frame is the next picture.                     *)
LEMMA CurrentIsPicture ==
  ASSUME NEW codec, NEW s \in SplitState, NEW nals, Splitting(codec, nals, s), s.hasVcl
  PROVE  /\ FlattenSeq(Append(s.frames, s.current)) = nals
         /\ ArePictures(codec, Append(s.frames, s.current))
<1> DEFINE frames == Append(s.frames, s.current)
           N == Len(s.frames)
<1>1. s.frames \in Seq(Seq(Nal)) /\ s.current \in Seq(Nal)
  BY DEF SplitState
<1>2. FlattenSeq(frames) = nals
  BY <1>1, FlattenAppend DEF Splitting
<1>3. IsPicture(codec, s.current)
  BY DEF Splitting, IsPicture
<1>4. /\ DOMAIN s.frames = 1 .. N /\ N \in Nat /\ DOMAIN frames = 1 .. N + 1
      /\ frames[N + 1] = s.current /\ \A f \in 1 .. N : frames[f] = s.frames[f]
  BY <1>1, AppendProperties
<1>5. ASSUME NEW f \in DOMAIN frames
      PROVE  /\ IsPicture(codec, frames[f])
             /\ f > 1 => StartsPicture(codec, frames[f][1])
  <2>1. CASE f = N + 1
    <3>1. f > 1 => s.frames # <<>>
      BY <1>4, <2>1
    <3>2. f > 1 => StartsPicture(codec, s.current[1])
      BY <3>1 DEF Splitting
    <3>3. frames[f] = s.current
      BY <1>4, <2>1
    <3>4. QED
      BY <1>3, <3>2, <3>3
  <2>2. CASE f # N + 1
    <3>1. f \in DOMAIN s.frames /\ frames[f] = s.frames[f]
      BY <1>4, <2>2
    <3>2. QED
      BY <3>1, Zenon DEF Splitting, ArePictures
  <2>3. QED
    BY <2>1, <2>2
<1>6. QED
  BY <1>2, <1>5 DEF ArePictures

LEMMA AddNalSplits ==
  ASSUME NEW codec, NEW s \in SplitState, NEW nals \in Seq(Nal), NEW nal \in Nal,
         Splitting(codec, nals, s)
  PROVE  Splitting(codec, Append(nals, nal), AddNal(codec, s, nal))
<1> DEFINE t == AddNal(codec, s, nal)
           cut == StartsPicture(codec, nal) /\ s.hasVcl
<1>1. s.frames \in Seq(Seq(Nal)) /\ s.current \in Seq(Nal) /\ s.hasVcl \in BOOLEAN
  BY DEF SplitState
<1>2. FlattenSeq(s.frames) \in Seq(Nal)
  BY <1>1, FlattenAppend
<1>3. CASE cut
  <2>1. t.frames = Append(s.frames, s.current) /\ t.current = Append(<<>>, nal)
        /\ (t.hasVcl <=> Vcl(codec, nal))
    BY <1>3 DEF AddNal
  <2>2. t.current = <<nal>> /\ DOMAIN t.current = {1} /\ t.current[1] = nal
    BY <2>1
  <2>3. FlattenSeq(t.frames) = nals
    BY <1>3, <2>1, CurrentIsPicture
  <2>4. nals \o <<nal>> = Append(nals, nal)
    BY AppendIsConcat
  <2>7. ArePictures(codec, t.frames)
    BY <1>3, <2>1, CurrentIsPicture
  <2>8. t.current # <<>> /\ StartsPicture(codec, t.current[1])
    BY <1>3, <2>2
  <2> HIDE DEF t
  <2>9. t.hasVcl <=> \E n \in DOMAIN t.current : Vcl(codec, t.current[n])
    BY <2>1, <2>2, Zenon
  <2>10. \A m, n \in DOMAIN t.current : n =< m
    BY <2>2
  <2>11. FlattenSeq(t.frames) \o t.current = Append(nals, nal)
    BY <2>2, <2>3, <2>4
  <2>12. Splitting(codec, Append(nals, nal), t)
    BY <2>7, <2>8, <2>9, <2>10, <2>11 DEF Splitting
  <2>13. QED
    BY <2>12 DEF t
<1>4. CASE ~cut
  <2>1. t.frames = s.frames /\ t.current = Append(s.current, nal)
        /\ (t.hasVcl <=> s.hasVcl \/ Vcl(codec, nal))
    BY <1>4 DEF AddNal
  <2> DEFINE N == Len(s.current)
  <2>2. /\ DOMAIN s.current = 1 .. N /\ N \in Nat
        /\ DOMAIN t.current = 1 .. N + 1 /\ t.current # <<>>
        /\ t.current[N + 1] = nal /\ \A n \in 1 .. N : t.current[n] = s.current[n]
    <3>1. DOMAIN s.current = 1 .. N /\ N \in Nat
      BY <1>1
    <3>2. /\ t.current \in Seq(Nal) /\ Len(t.current) = N + 1 /\ t.current # <<>>
          /\ t.current[N + 1] = nal /\ \A n \in 1 .. N : t.current[n] = s.current[n]
      <4> DEFINE old == s.current
                 new == t.current
      <4>1. old \in Seq(Nal) /\ new = Append(old, nal)
        BY <1>1, <2>1
      <4>2. N = Len(old) /\ \A n \in 1 .. N : old[n] = s.current[n]
        OBVIOUS
      <4> HIDE DEF old, new, N
      <4>3. /\ new \in Seq(Nal) /\ Len(new) = N + 1 /\ new # <<>>
            /\ new[N + 1] = nal /\ \A n \in 1 .. N : new[n] = old[n]
        BY <4>1, <4>2, AppendProperties
      <4>4. QED
        BY <4>2, <4>3 DEF new
    <3>3. DOMAIN t.current = 1 .. N + 1
      BY <3>2
    <3>4. QED
      BY <3>1, <3>2, <3>3, Zenon
  <2>3. FlattenSeq(t.frames) \o t.current = Append(nals, nal)
    <3> DEFINE kept == FlattenSeq(s.frames)
               current == s.current
    <3>0. kept \in Seq(Nal) /\ current \in Seq(Nal)
      BY <1>1, <1>2
    <3> HIDE DEF kept, current
    <3>1. kept \o Append(current, nal) = Append(kept \o current, nal)
      BY <3>0, ConcatThenAppend
    <3>2. kept \o current = nals
      BY DEF Splitting, kept, current
    <3>3. QED
      BY <2>1, <3>1, <3>2 DEF kept, current
  <2> HIDE DEF t, N
  <2>4. ArePictures(codec, t.frames)
    BY <2>1 DEF Splitting
  <2>5. t.hasVcl <=> \E n \in DOMAIN t.current : Vcl(codec, t.current[n])
    <3>1. s.hasVcl <=> \E n \in 1 .. N : Vcl(codec, s.current[n])
      BY <2>2 DEF Splitting
    <3>2. (\E n \in 1 .. N + 1 : Vcl(codec, t.current[n]))
            <=> (\E n \in 1 .. N : Vcl(codec, t.current[n])) \/ Vcl(codec, nal)
      <4>1. \A n \in 1 .. N + 1 : n \in 1 .. N \/ n = N + 1
        BY <2>2
      <4>2. 1 .. N \subseteq 1 .. N + 1 /\ N + 1 \in 1 .. N + 1
        BY <2>2
      <4>3. QED
        BY <2>2, <4>1, <4>2
    <3>3. QED
      BY <2>1, <2>2, <3>1, <3>2
  <2>6. ASSUME NEW m \in DOMAIN t.current, NEW n \in DOMAIN t.current,
               Vcl(codec, t.current[m]), StartsPicture(codec, t.current[n])
        PROVE  n =< m
    <3>1. CASE m = N + 1
      BY <2>2, <3>1
    <3>2. CASE m # N + 1 /\ n # N + 1
      <4>1. m \in DOMAIN s.current /\ n \in DOMAIN s.current
            /\ t.current[m] = s.current[m] /\ t.current[n] = s.current[n]
        BY <2>2, <3>2
      <4>2. QED
        BY <2>6, <4>1 DEF Splitting
    <3>3. CASE m # N + 1 /\ n = N + 1
      <4>1. m \in DOMAIN s.current /\ t.current[m] = s.current[m] /\ t.current[n] = nal
        BY <2>2, <3>3
      <4>2. s.hasVcl
        BY <2>6, <4>1 DEF Splitting
      <4>3. QED
        BY <1>4, <2>6, <4>1, <4>2
    <3>4. QED
      BY <3>1, <3>2, <3>3
  <2>7. t.frames # <<>> => t.current # <<>> /\ StartsPicture(codec, t.current[1])
    <3>1. SUFFICES ASSUME t.frames # <<>>
                   PROVE  StartsPicture(codec, t.current[1])
      BY <2>2
    <3>2. s.current # <<>> /\ StartsPicture(codec, s.current[1])
      BY <2>1, <3>1 DEF Splitting
    <3>3. 1 \in 1 .. N
      BY <1>1, <3>2 DEF N
    <3>4. QED
      BY <2>2, <3>2, <3>3
  <2>8. Splitting(codec, Append(nals, nal), t)
    BY <2>3, <2>4, <2>5, <2>6, <2>7 DEF Splitting
  <2>9. QED
    BY <2>8 DEF t
<1>5. QED
  BY <1>3, <1>4

(* So it splits every clip.                                                 *)
LEMMA AddNalsSplits ==
  ASSUME NEW codec, NEW nals \in Seq(Nal)
  PROVE  Splitting(codec, nals, AddNals(codec, Unsplit, nals))
<1> DEFINE T == {xs \in Seq(Nal) : Splitting(codec, xs, AddNals(codec, Unsplit, xs))}
<1>1. Unsplit \in SplitState /\ [type |-> 0, first |-> TRUE, short |-> TRUE] \in Nal
  BY DEF Unsplit, SplitState, Nal
<1>2. <<>> \in T
  <2>1. AddNals(codec, Unsplit, <<>>) = Unsplit /\ <<>> \in Seq(Nal)
    BY <1>1, AddNalsAppend
  <2>2. Unsplit.frames = <<>> /\ Unsplit.current = <<>> /\ ~Unsplit.hasVcl /\ DOMAIN <<>> = {}
    BY DEF Unsplit
  <2>3. FlattenSeq(<<>>) = <<>> /\ <<>> \o <<>> = <<>>
    BY DEF FlattenSeq
  <2>4. Splitting(codec, <<>>, Unsplit)
    BY <2>2, <2>3 DEF Splitting, ArePictures
  <2>5. QED
    BY <2>1, <2>4
<1>3. ASSUME NEW xs \in Seq(Nal), NEW x \in Nal, xs \in T
      PROVE  Append(xs, x) \in T
  <2> DEFINE s == AddNals(codec, Unsplit, xs)
  <2>1. s \in SplitState /\ AddNals(codec, Unsplit, Append(xs, x)) = AddNal(codec, s, x)
    BY <1>1, AddNalsTakes DEF Takes
  <2>2. Splitting(codec, xs, s)
    BY <1>3
  <2> HIDE DEF s
  <2>3. Splitting(codec, Append(xs, x), AddNal(codec, s, x))
    BY <2>1, <2>2, AddNalSplits
  <2>4. QED
    BY <2>1, <2>3
<1> HIDE DEF T
<1>4. Seq(Nal) \subseteq T
  BY <1>2, <1>3, Appending
<1>5. nals \in T
  BY <1>4
<1>6. QED
  BY <1>5 DEF T

(* What split_frames returns, if it does: pictures, in their order, and the *)
(* units behind the last have no slice.                                     *)
LEMMA FramesAreSplit ==
  ASSUME NEW codec, NEW nals \in Seq(Nal), SplitFrames(codec, nals) # <<>>
  PROVE  /\ SplitFrames(codec, nals) \in Seq(Seq(Nal))
         /\ ArePictures(codec, SplitFrames(codec, nals))
         /\ \E rest \in Seq(Nal) : /\ FlattenSeq(SplitFrames(codec, nals)) \o rest = nals
                                   /\ \A n \in DOMAIN rest : ~Vcl(codec, rest[n])
         /\ \A n \in DOMAIN nals : ~Truncated(codec, nals[n])
         /\ IsIdrFrame(codec, Head(SplitFrames(codec, nals)))
<1> DEFINE frames == SplitFrames(codec, nals)
           end == AddNals(codec, Unsplit, nals)
           split == IF end.hasVcl THEN Append(end.frames, end.current) ELSE end.frames
<1>1. frames = IF \/ \E n \in DOMAIN nals : Truncated(codec, nals[n])
                  \/ split = <<>>
                  \/ ~IsIdrFrame(codec, Head(split))
               THEN <<>> ELSE split
  BY Zenon DEF SplitFrames, Unsplit
<1>2. end \in SplitState
  <2>1. Unsplit \in SplitState /\ [type |-> 0, first |-> TRUE, short |-> TRUE] \in Nal
    BY DEF Unsplit, SplitState, Nal
  <2>2. QED
    BY <2>1, AddNalsAppend
<1>3. Splitting(codec, nals, end)
  BY AddNalsSplits
<1> HIDE DEF frames, end, split
<1>4. /\ frames = split /\ \A n \in DOMAIN nals : ~Truncated(codec, nals[n])
      /\ IsIdrFrame(codec, Head(split))
  BY <1>1, Zenon DEF frames
<1>5. end.frames \in Seq(Seq(Nal)) /\ end.current \in Seq(Nal)
  BY <1>2 DEF SplitState
<1>6. CASE end.hasVcl
  <2>1. split = Append(end.frames, end.current)
    BY <1>6 DEF split
  <2>2. FlattenSeq(split) = nals /\ ArePictures(codec, split)
    BY <1>2, <1>3, <1>6, <2>1, CurrentIsPicture
  <2>3. split \in Seq(Seq(Nal))
    BY <1>5, <2>1
  <2>4. <<>> \in Seq(Nal) /\ nals \o <<>> = nals /\ DOMAIN <<>> = {}
    BY ConcatEmptySeq
  <2>5. QED
    BY <1>4, <2>2, <2>3, <2>4 DEF frames
<1>7. CASE ~end.hasVcl
  <2>1. split = end.frames
    BY <1>7 DEF split
  <2>2. FlattenSeq(split) \o end.current = nals /\ ArePictures(codec, split)
    BY <1>3, <2>1 DEF Splitting
  <2>3. \A n \in DOMAIN end.current : ~Vcl(codec, end.current[n])
    BY <1>3, <1>7 DEF Splitting
  <2>4. QED
    BY <1>4, <1>5, <2>1, <2>2, <2>3 DEF frames
<1>8. QED
  BY <1>6, <1>7

(* So a channel that replays a clip begins each round with an IDR, for any   *)
(* codec, GOP and clip (RK_MPI_VENC_GetStream).                              *)
LEMMA RoundsBegin ==
  ASSUME NEW c, NEW codec, NEW nals \in Seq(Nal), NEW frames \in SUBSET Nat
  PROVE  RoundsBeginWithIdr(c, ClipIdrs(codec, nals), frames)
<1> DEFINE split == SplitFrames(codec, nals)
           clip == ClipIdrs(codec, nals)
<1>1. clip = [f \in DOMAIN split |-> IsIdrFrame(codec, split[f])]
  BY Zenon DEF ClipIdrs
<1>2. CASE split = <<>>
  <2>1. DOMAIN split = {}
    BY <1>2
  <2>2. clip = NoClip
    BY <1>1, <1>2, <2>1 DEF NoClip
  <2>3. QED
    BY <2>2 DEF RoundsBeginWithIdr
<1>3. CASE split # <<>>
  <2>1. split \in Seq(Seq(Nal)) /\ IsIdrFrame(codec, Head(split))
    BY <1>3, FramesAreSplit
  <2> HIDE DEF split, clip
  <2>2. 1 \in DOMAIN split /\ Head(split) = split[1]
    BY <1>3, <2>1
  <2>3. clip[1] /\ clip # NoClip
    <3>1. clip[1] = IsIdrFrame(codec, split[1])
      BY <1>1, <2>2
    <3>2. DOMAIN clip = DOMAIN split
      BY <1>1
    <3>3. DOMAIN NoClip = {}
      BY DEF NoClip
    <3>4. clip # NoClip
      BY <2>2, <3>2, <3>3
    <3>5. QED
      BY <2>1, <2>2, <3>1, <3>4
  <2>4. ASSUME NEW seq \in frames, seq % Len(clip) = 0
        PROVE  IsIdr(c, clip, seq)
    <3>1. 1 + (seq % Len(clip)) = 1
      BY <2>4
    <3>2. IsIdr(c, clip, seq) = clip[1 + (seq % Len(clip))]
      BY <2>3 DEF IsIdr
    <3>3. QED
      BY <2>3, <3>1, <3>2
  <2>5. QED
    BY <2>4 DEF RoundsBeginWithIdr, clip
<1>4. QED
  BY <1>2, <1>3

LEMMA FramesReplay ==
  ASSUME NEW codec, NEW frames \in Seq(Seq(Nal)), frames # <<>>, ArePictures(codec, frames),
         StartsPicture(codec, FlattenSeq(frames)[1])
  PROVE  ArePictures(codec, frames \o frames)
<1> DEFINE N == Len(frames)
<1>1. N \in Nat \ {0} /\ DOMAIN frames = 1 .. N /\ \A f \in 1 .. N : frames[f] \in Seq(Nal)
  OBVIOUS
<1>2. /\ DOMAIN (frames \o frames) = 1 .. N + N
      /\ \A f \in 1 .. N + N : (frames \o frames)[f] = IF f =< N THEN frames[f] ELSE frames[f - N]
  BY ConcatProperties
<1>3. StartsPicture(codec, frames[1][1])
  <2> DEFINE head == frames[1]
             tail == Tail(frames)
  <2>1. head \in Seq(Nal) /\ tail \in Seq(Seq(Nal)) /\ <<head>> \in Seq(Seq(Nal))
    BY <1>1
  <2>2. frames = <<head>> \o tail
    OBVIOUS
  <2> HIDE DEF tail, head
  <2>3. FlattenSeq(<<head>> \o tail) = FlattenSeq(<<head>>) \o FlattenSeq(tail)
    BY <2>1, FlattenConcat
  <2>4. FlattenSeq(<<head>>) = head
    BY <2>1, FlattenOne
  <2>5. FlattenSeq(tail) \in Seq(Nal)
    BY <2>1, FlattenAppend
  <2>6. FlattenSeq(frames) = head \o FlattenSeq(tail)
    BY <2>2, <2>3, <2>4, Zenon
  <2>7. head # <<>>
    <3>0. 1 \in DOMAIN frames
      BY <1>1
    <3>1. IsPicture(codec, head)
      BY <3>0, Zenon DEF ArePictures, head
    <3>2. QED
      BY <2>1, <3>1 DEF IsPicture
  <2>8. (head \o FlattenSeq(tail))[1] = head[1]
    BY <2>1, <2>5, <2>7
  <2>9. QED
    BY <2>6, <2>8 DEF head
<1> HIDE DEF N
<1>4. ASSUME NEW f \in 1 .. N + N
      PROVE  /\ IsPicture(codec, (frames \o frames)[f])
             /\ f > 1 => StartsPicture(codec, (frames \o frames)[f][1])
  <2>1. CASE f =< N
    <3>1. f \in DOMAIN frames /\ (frames \o frames)[f] = frames[f]
      BY <1>1, <1>2, <2>1
    <3>2. QED
      BY <3>1, Zenon DEF ArePictures
  <2>2. CASE f > N
    <3> DEFINE g == f - N
    <3>1. g \in DOMAIN frames /\ (frames \o frames)[f] = frames[g]
      BY <1>1, <1>2, <2>2
    <3>2. g = 1 \/ g > 1
      BY <1>1, <3>1
    <3> HIDE DEF g
    <3>3. IsPicture(codec, frames[g]) /\ (g > 1 => StartsPicture(codec, frames[g][1]))
      BY <3>1, Zenon DEF ArePictures
    <3>4. StartsPicture(codec, frames[g][1])
      BY <1>3, <3>2, <3>3
    <3>5. QED
      BY <3>1, <3>3, <3>4
  <2>3. QED
    BY <1>1, <2>1, <2>2
<1>5. QED
  BY <1>2, <1>4 DEF ArePictures

(* Every clip, of whatever units, is split into pictures that it replays.   *)
THEOREM ClipReplays ==
  ASSUME NEW codec, NEW nals \in Seq(Nal)
  PROVE  ClipIsReplayed(codec, nals)
<1> DEFINE frames == SplitFrames(codec, nals)
           kept == FlattenSeq(frames)
<1>1. SUFFICES ASSUME frames # <<>>
               PROVE  /\ FramesArePictures(codec, nals, frames)
                      /\ StartsPicture(codec, Head(nals)) =>
                           SplitFrames(codec, kept \o kept) = frames \o frames
  BY Zenon DEF ClipIsReplayed
<1>2. frames \in Seq(Seq(Nal)) /\ ArePictures(codec, frames)
      /\ (\A n \in DOMAIN nals : ~Truncated(codec, nals[n]))
      /\ IsIdrFrame(codec, Head(frames))
  BY <1>1, FramesAreSplit
<1>3. PICK rest \in Seq(Nal) : kept \o rest = nals /\ \A n \in DOMAIN rest : ~Vcl(codec, rest[n])
  BY <1>1, FramesAreSplit
<1> HIDE DEF frames
<1>4. kept \in Seq(Nal)
  BY <1>2, FlattenAppend
<1> HIDE DEF kept
<1>5. Len(kept) \in Nat /\ Len(rest) \in Nat /\ Len(nals) = Len(kept) + Len(rest)
      /\ DOMAIN kept = 1 .. Len(kept) /\ DOMAIN rest = 1 .. Len(rest)
      /\ DOMAIN nals = 1 .. Len(nals)
  BY <1>3, <1>4, ConcatProperties
<1>6. \A n \in 1 .. Len(kept) : nals[n] = kept[n]
  BY <1>3, <1>4, <1>5, ConcatProperties
<1>7. \A n \in Len(kept) + 1 .. Len(nals) : ~Vcl(codec, nals[n])
  <2>1. ASSUME NEW n \in Len(kept) + 1 .. Len(nals)
        PROVE  nals[n] = rest[n - Len(kept)] /\ n - Len(kept) \in DOMAIN rest
    BY <1>3, <1>4, <1>5, ConcatProperties
  <2>2. QED
    BY <1>3, <2>1
<1>8. IsPrefix(kept, nals)
  <2>1. SubSeq(nals, 1, Len(kept)) = SubSeq(kept, 1, Len(kept))
    BY <1>4, <1>5, <1>6
  <2>2. QED
    BY <1>5, <2>1 DEF IsPrefix
<1>9. FramesArePictures(codec, nals, frames)
  <2> DEFINE Slices(frame) == {n \in DOMAIN frame : Vcl(codec, frame[n])}
  <2>1. ASSUME NEW f \in DOMAIN frames
        PROVE  /\ Slices(frames[f]) # {}
               /\ f > 1 => StartsPicture(codec, Head(frames[f]))
               /\ \A m, n \in DOMAIN frames[f] :
                    m \in Slices(frames[f]) /\ StartsPicture(codec, frames[f][n]) => n =< m
    <3>1. IsPicture(codec, frames[f]) /\ (f > 1 => StartsPicture(codec, frames[f][1]))
      BY <1>2 DEF ArePictures
    <3>2. Slices(frames[f]) # {}
      BY <3>1 DEF IsPicture
    <3>3. Head(frames[f]) = frames[f][1]
      <4>1. frames[f] \in Seq(Nal)
        BY <1>2
      <4>2. frames[f] # <<>>
        BY <3>2
      <4>3. QED
        BY <4>1, <4>2
    <3>4. QED
      BY <3>1, <3>2, <3>3 DEF IsPicture
  <2>2. QED
    BY <1>7, <1>8, <2>1, Zenon DEF FramesArePictures, kept
<1>10. ASSUME StartsPicture(codec, Head(nals))
       PROVE  SplitFrames(codec, kept \o kept) = frames \o frames
  <2> DEFINE twice == frames \o frames
             N == Len(frames)
             data == kept \o kept
  <2>1. N \in Nat \ {0} /\ twice \in Seq(Seq(Nal)) /\ twice # <<>> /\ Len(twice) = N + N
        /\ Head(twice) = Head(frames)
    BY <1>1, <1>2, ConcatProperties
  <2>2. kept # <<>>
    <3>1. SUFFICES ASSUME kept = <<>>
                   PROVE  FALSE
      OBVIOUS
    <3>2. IsPicture(codec, frames[1]) /\ frames[1] \in Seq(Nal)
      BY <1>1, <1>2 DEF ArePictures
    <3>3. frames = <<frames[1]>> \o Tail(frames)
      BY <1>1, <1>2
    <3>4. <<frames[1]>> \in Seq(Seq(Nal)) /\ Tail(frames) \in Seq(Seq(Nal))
      BY <1>1, <1>2
    <3>5. FlattenSeq(<<frames[1]>> \o Tail(frames))
            = FlattenSeq(<<frames[1]>>) \o FlattenSeq(Tail(frames))
      BY <3>4, FlattenConcat
    <3>6. FlattenSeq(<<frames[1]>>) = frames[1] /\ FlattenSeq(Tail(frames)) \in Seq(Nal)
      BY <3>2, <3>4, FlattenOne, FlattenAppend
    <3>7. frames[1] \o FlattenSeq(Tail(frames)) = <<>>
      BY <3>1, <3>3, <3>5, <3>6, Zenon DEF kept
    <3>8. frames[1] = <<>>
      BY <3>2, <3>6, <3>7, ConcatSimplifications
    <3>9. QED
      BY <3>2, <3>8 DEF IsPicture
  <2>3. StartsPicture(codec, kept[1])
    <3>1. 1 \in 1 .. Len(kept) /\ Head(nals) = nals[1]
      BY <1>4, <1>5, <2>2
    <3>2. QED
      BY <1>6, <1>10, <3>1
  <2>4. ArePictures(codec, twice)
    BY <1>1, <1>2, <2>3, FramesReplay DEF kept
  <2>5. data = FlattenSeq(twice)
    BY <1>2, FlattenConcat DEF kept
  <2> HIDE DEF twice, N
  <2>6. AddNals(codec, Unsplit, FlattenSeq(twice)) =
          [frames |-> SubSeq(twice, 1, Len(twice) - 1), current |-> twice[Len(twice)],
           hasVcl |-> TRUE]
    BY <2>1, <2>4, PicturesAreTaken
  <2>7. Append(SubSeq(twice, 1, Len(twice) - 1), twice[Len(twice)]) = twice
    <3>1. Len(twice) - 1 \in Nat /\ Len(twice) - 1 < Len(twice) /\ (Len(twice) - 1) + 1 = Len(twice)
      BY <2>1
    <3>2. SubSeq(twice, 1, (Len(twice) - 1) + 1)
            = Append(SubSeq(twice, 1, Len(twice) - 1), twice[(Len(twice) - 1) + 1])
      BY <2>1, <3>1, SubSeqGrows
    <3>3. SubSeq(twice, 1, Len(twice)) = twice
      BY <2>1, SubSeqFull
    <3>4. QED
      BY <3>1, <3>2, <3>3
  <2>8. \A n \in DOMAIN data : ~Truncated(codec, data[n])
    <3>1. ASSUME NEW n \in DOMAIN data
          PROVE  \E m \in 1 .. Len(kept) : data[n] = kept[m]
      <4>1. n \in 1 .. Len(kept) + Len(kept)
            /\ data[n] = IF n =< Len(kept) THEN kept[n] ELSE kept[n - Len(kept)]
        BY <1>4, ConcatProperties
      <4>2. CASE n =< Len(kept)
        BY <1>5, <4>1, <4>2
      <4>3. CASE n > Len(kept)
        <5>1. n - Len(kept) \in 1 .. Len(kept)
          BY <1>5, <4>1, <4>3
        <5>2. data[n] = kept[n - Len(kept)]
          BY <1>5, <4>1, <4>3
        <5>3. QED
          BY <5>1, <5>2
      <4>4. QED
        BY <1>5, <4>1, <4>2, <4>3
    <3>2. \A m \in 1 .. Len(kept) : ~Truncated(codec, kept[m])
      <4>1. \A m \in 1 .. Len(kept) : m \in DOMAIN nals
        BY <1>5
      <4>2. QED
        BY <1>2, <1>6, <4>1
    <3> HIDE DEF data
    <3>3. QED
      BY <3>1, <3>2
  <2> DEFINE end == AddNals(codec, Unsplit, data)
             split == IF end.hasVcl THEN Append(end.frames, end.current) ELSE end.frames
  <2>9. SplitFrames(codec, data)
          = IF \/ \E n \in DOMAIN data : Truncated(codec, data[n])
               \/ split = <<>>
               \/ ~IsIdrFrame(codec, Head(split))
            THEN <<>> ELSE split
    BY Zenon DEF SplitFrames, Unsplit
  <2> HIDE DEF data
  <2>10. split = twice
    BY <2>5, <2>6, <2>7
  <2> HIDE DEF split
  <2>11. SplitFrames(codec, data) = twice
    BY <1>2, <2>1, <2>8, <2>9, <2>10, Zenon
  <2>12. QED
    BY <2>11 DEF twice, data
<1>11. QED
  BY <1>9, <1>10

-----------------------------------------------------------------------------
(* Finding the units.                                                       *)

LEMMA MaxIs ==
  ASSUME NEW S \in SUBSET Int, NEW m \in S, \A k \in S : k =< m
  PROVE  Max(S) = m
<1>1. \A x \in S : (\A y \in S : x >= y) => x = m
  OBVIOUS
<1>2. \A y \in S : m >= y
  OBVIOUS
<1>3. QED
  BY <1>1, <1>2 DEF Max

LEMMA MinIs ==
  ASSUME NEW S \in SUBSET Int, NEW m \in S, \A k \in S : m =< k
  PROVE  Min(S) = m
<1>1. \A x \in S : (\A y \in S : x =< y) => x = m
  OBVIOUS
<1>2. QED
  BY <1>1 DEF Min

(* The zeros that trim_zeros takes are those behind the last other byte.    *)
LEMMA ZerosAreTrimmed ==
  ASSUME NEW A, {0, 1} \subseteq A, NEW nal \in Seq(A), NEW part \in Seq(A), part # <<>>,
         Len(part) =< Len(nal), part[Len(part)] # 0,
         \A i \in 1 .. Len(part) : nal[i] = part[i],
         \A i \in Len(part) + 1 .. Len(nal) : nal[i] = 0
  PROVE  TrimZeros(nal) = part
<1> DEFINE N == Len(part)
           S == {0} \cup {i \in DOMAIN nal : nal[i] # 0}
<1>1. N \in Nat \ {0} /\ Len(nal) \in Nat /\ DOMAIN nal = 1 .. Len(nal) /\ N =< Len(nal)
  OBVIOUS
<1>2. S \in SUBSET Int /\ N \in S
  BY <1>1
<1>3. ASSUME NEW i \in S
      PROVE  i =< N
  <2>1. CASE i = 0
    BY <1>1, <2>1
  <2>2. CASE i # 0
    <3>1. i \in 1 .. Len(nal) /\ nal[i] # 0
      BY <1>1, <2>2
    <3>2. i \notin N + 1 .. Len(nal)
      BY <3>1
    <3>3. QED
      BY <1>1, <3>1, <3>2
  <2>3. QED
    BY <2>1, <2>2
<1>4. TrimZeros(nal) = SubSeq(nal, 1, Max(S))
  BY DEF TrimZeros
<1> HIDE DEF S
<1>5. Max(S) = N
  BY <1>2, <1>3, MaxIs
<1>6. SubSeq(nal, 1, N) = part
  <2>1. SubSeq(nal, 1, N) \in Seq(A) /\ Len(SubSeq(nal, 1, N)) = N
        /\ \A i \in 1 .. N : SubSeq(nal, 1, N)[i] = nal[i]
    BY <1>1
  <2>2. \A i \in 1 .. Len(SubSeq(nal, 1, N)) : SubSeq(nal, 1, N)[i] = part[i]
    BY <2>1
  <2> DEFINE here == SubSeq(nal, 1, N)
  <2> HIDE DEF here
  <2>3. here \in Seq(A) /\ Len(here) = Len(part) /\ \A i \in 1 .. Len(here) : here[i] = part[i]
    BY <2>1, <2>2 DEF here
  <2>4. here = part
    BY <2>3, SeqEqual
  <2>5. QED
    BY <2>4 DEF here
<1>7. QED
  BY <1>4, <1>5, <1>6

(* A start code is two zeros and a one.                                     *)
LEMMA StartsAt ==
  ASSUME NEW A, NEW data \in Seq(A)
  PROVE  /\ Starts(data) \subseteq Nat
         /\ \A i \in Nat : i \in Starts(data) <=>
              i \in 1 .. Len(data) - 2 /\ data[i] = 0 /\ data[i + 1] = 0 /\ data[i + 2] = 1
<1>1. Len(data) \in Nat /\ \A i \in 1 .. Len(data) : data[i] \in A
  OBVIOUS
<1>2. ASSUME NEW i \in 1 .. Len(data) - 2
      PROVE  SubSeq(data, i, i + 2) = StartCode
               <=> data[i] = 0 /\ data[i + 1] = 0 /\ data[i + 2] = 1
  <2>1. \A j \in i .. i + 2 : data[j] \in A
    BY <1>1
  <2>2. i \in Int /\ i + 2 \in Int
    BY <1>1
  <2>3. /\ SubSeq(data, i, i + 2) \in Seq(A)
        /\ Len(SubSeq(data, i, i + 2)) = 3
        /\ \A j \in 1 .. 3 : SubSeq(data, i, i + 2)[j] = data[i + j - 1]
    <3>1. /\ SubSeq(data, i, i + 2) \in Seq(A)
          /\ Len(SubSeq(data, i, i + 2)) = IF i =< i + 2 THEN (i + 2) - i + 1 ELSE 0
          /\ \A j \in 1 .. (i + 2) - i + 1 : SubSeq(data, i, i + 2)[j] = data[i + j - 1]
      BY <2>1, <2>2, SubSeqProperties
    <3>2. (i + 2) - i + 1 = 3 /\ i =< i + 2
      BY <2>2
    <3>3. QED
      BY <3>1, <3>2
  <2> DEFINE code == SubSeq(data, i, i + 2)
  <2> HIDE DEF code
  <2>4. code \in Seq(A) /\ Len(code) = 3 /\ code[1] = data[i] /\ code[2] = data[i + 1]
        /\ code[3] = data[i + 2]
    <3>1. code[1] = data[i + 1 - 1] /\ code[2] = data[i + 2 - 1] /\ code[3] = data[i + 3 - 1]
      BY <2>3 DEF code
    <3>2. i + 1 - 1 = i /\ i + 2 - 1 = i + 1 /\ i + 3 - 1 = i + 2
      BY <2>2
    <3>3. QED
      BY <2>3, <3>1, <3>2 DEF code
  <2>5. code = <<code[1], code[2], code[3]>>
    BY <2>4
  <2>6. code = StartCode <=> code[1] = 0 /\ code[2] = 0 /\ code[3] = 1
    BY <2>5 DEF StartCode
  <2>7. QED
    BY <2>4, <2>6 DEF code
<1>3. \A i \in Nat : i \in Starts(data) <=>
        i \in 1 .. Len(data) - 2 /\ SubSeq(data, i, i + 2) = StartCode
  BY DEF Starts
<1>4. Starts(data) \subseteq Nat
  BY <1>1 DEF Starts
<1>5. QED
  BY <1>2, <1>3, <1>4

(* Two units behind their start codes, and zeros.                           *)
IsLaidOut(data, one, two, m, n, trailing) ==
  LET p == Len(one)
      k == m + p + n + 2
  IN  /\ Len(data) = k + Len(two) + trailing
      /\ \A i \in 1 .. m : data[i] = 0
      /\ data[m + 1] = 1
      /\ \A i \in 1 .. p : data[m + 1 + i] = one[i]
      /\ \A i \in 1 .. n : data[m + p + 1 + i] = 0
      /\ data[k] = 1
      /\ \A i \in 1 .. Len(two) : data[k + i] = two[i]
      /\ \A i \in 1 .. trailing : data[k + Len(two) + i] = 0

LEMMA StartsOfUnits ==
  ASSUME NEW A, {0, 1} \subseteq A,
         NEW one \in Seq(A), NEW two \in Seq(A), IsNalUnit(one), IsNalUnit(two),
         NEW m \in Nat, m >= 2, NEW n \in Nat, n >= 2, NEW trailing \in Nat,
         NEW data \in Seq(A), IsLaidOut(data, one, two, m, n, trailing)
  PROVE  Starts(data) = {m - 1, m + Len(one) + n}
<1> DEFINE p == Len(one)
           q == Len(two)
           k == m + p + n + 2
           L == Len(data)
<1>1. p \in Nat \ {0} /\ q \in Nat \ {0} /\ k \in Nat /\ L = k + q + trailing
  BY DEF IsNalUnit, IsLaidOut
<1>2. /\ \A i \in Nat : i \in Starts(one) <=>
           i \in 1 .. p - 2 /\ one[i] = 0 /\ one[i + 1] = 0 /\ one[i + 2] = 1
      /\ \A i \in Nat : i \in Starts(two) <=>
           i \in 1 .. q - 2 /\ two[i] = 0 /\ two[i + 1] = 0 /\ two[i + 2] = 1
      /\ \A i \in Nat : i \in Starts(data) <=>
           i \in 1 .. L - 2 /\ data[i] = 0 /\ data[i + 1] = 0 /\ data[i + 2] = 1
      /\ Starts(data) \subseteq Nat
  BY StartsAt
<1>3. /\ \A i \in 1 .. m : data[i] = 0
      /\ data[m + 1] = 1
      /\ \A i \in 1 .. p : data[m + 1 + i] = one[i]
      /\ \A i \in 1 .. n : data[m + p + 1 + i] = 0
      /\ data[k] = 1
      /\ \A i \in 1 .. q : data[k + i] = two[i]
      /\ \A i \in 1 .. trailing : data[k + q + i] = 0
  BY DEF IsLaidOut
<1> HIDE DEF p, q, k, L
<1>4. k = m + p + n + 2
  BY DEF k
<1>5. m - 1 \in Starts(data)
  <2>1. m - 1 \in 1 .. L - 2 /\ m - 1 \in 1 .. m /\ (m - 1) + 1 = m /\ m \in 1 .. m
        /\ (m - 1) + 2 = m + 1 /\ m - 1 \in Nat
    BY <1>1, <1>4
  <2>2. data[m - 1] = 0 /\ data[(m - 1) + 1] = 0 /\ data[(m - 1) + 2] = 1
    BY <1>3, <2>1
  <2>3. QED
    BY <1>2, <2>1, <2>2
<1>6. m + p + n \in Starts(data)
  <2> DEFINE i == m + p + n
  <2>1. i \in Nat /\ i \in 1 .. L - 2 /\ i + 2 = k
    BY <1>1, <1>4
  <2>2. i = m + p + 1 + (n - 1) /\ i + 1 = m + p + 1 + n /\ n - 1 \in 1 .. n /\ n \in 1 .. n
    BY <1>1
  <2>3. data[m + p + 1 + (n - 1)] = 0 /\ data[m + p + 1 + n] = 0
    BY <1>3, <2>2
  <2>4. data[i] = 0 /\ data[i + 1] = 0 /\ data[i + 2] = 1
    BY <1>3, <2>1, <2>2, <2>3
  <2>5. QED
    BY <1>2, <2>1, <2>4
<1>7. ASSUME NEW i \in Starts(data)
      PROVE  i = m - 1 \/ i = m + p + n
  <2>1. i \in Nat /\ i \in 1 .. L - 2 /\ data[i] = 0 /\ data[i + 1] = 0 /\ data[i + 2] = 1
    BY <1>2
  <2>2. CASE i + 2 =< m
    BY <1>3, <2>1, <2>2
  <2>3. CASE i + 2 = m + 1
    BY <2>1, <2>3
  <2>4. CASE i + 2 > m + 1 /\ i + 2 =< m + 1 + p
    <3> DEFINE c == i + 2 - (m + 1)
    <3>1. c \in 1 .. p /\ i = m + 1 + (c - 2) /\ i + 1 = m + 1 + (c - 1) /\ i + 2 = m + 1 + c
      BY <1>1, <2>1, <2>4
    <3> HIDE DEF c
    <3>2. CASE c = 1
      BY <1>3, <2>1, <3>1, <3>2
    <3>3. CASE c = 2
      BY <1>3, <2>1, <3>1, <3>3
    <3>4. CASE c > 2
      <4>1. c - 2 \in 1 .. p /\ c - 1 \in 1 .. p /\ c - 2 \in Nat /\ c - 2 \in 1 .. p - 2
            /\ (c - 2) + 1 = c - 1 /\ (c - 2) + 2 = c
        BY <1>1, <3>1, <3>4
      <4>2. one[c - 2] = 0 /\ one[c - 1] = 0 /\ one[c] = 1
        <5>1. data[m + 1 + (c - 2)] = one[c - 2] /\ data[m + 1 + (c - 1)] = one[c - 1]
              /\ data[m + 1 + c] = one[c]
          BY <1>3, <3>1, <4>1
        <5>2. QED
          BY <2>1, <3>1, <5>1
      <4>3. c - 2 \in Starts(one)
        BY <1>2, <4>1, <4>2
      <4>4. QED
        BY <4>3 DEF IsNalUnit
    <3>5. QED
      BY <3>1, <3>2, <3>3, <3>4
  <2>5. CASE i + 2 > m + 1 + p /\ i + 2 < k
    <3>1. i + 2 - (m + p + 1) \in 1 .. n /\ i + 2 = m + p + 1 + (i + 2 - (m + p + 1))
      BY <1>1, <1>4, <2>1, <2>5
    <3>2. data[i + 2] = 0
      BY <1>3, <3>1
    <3>3. QED
      BY <2>1, <3>2
  <2>6. CASE i + 2 = k
    BY <1>1, <1>4, <2>1, <2>6
  <2>7. CASE i + 2 > k /\ i + 2 =< k + q
    <3> DEFINE c == i + 2 - k
    <3>1. c \in 1 .. q /\ i = k + (c - 2) /\ i + 1 = k + (c - 1) /\ i + 2 = k + c
      BY <1>1, <2>1, <2>7
    <3> HIDE DEF c
    <3>2. CASE c = 1
      BY <1>1, <1>3, <2>1, <3>1, <3>2
    <3>3. CASE c = 2
      BY <1>1, <1>3, <2>1, <3>1, <3>3
    <3>4. CASE c > 2
      <4>1. c - 2 \in 1 .. q /\ c - 1 \in 1 .. q /\ c - 2 \in Nat /\ c - 2 \in 1 .. q - 2
            /\ (c - 2) + 1 = c - 1 /\ (c - 2) + 2 = c
        BY <1>1, <3>1, <3>4
      <4>2. two[c - 2] = 0 /\ two[c - 1] = 0 /\ two[c] = 1
        <5>1. data[k + (c - 2)] = two[c - 2] /\ data[k + (c - 1)] = two[c - 1]
              /\ data[k + c] = two[c]
          BY <1>3, <3>1, <4>1
        <5>2. QED
          BY <2>1, <3>1, <5>1
      <4>3. c - 2 \in Starts(two)
        BY <1>2, <4>1, <4>2
      <4>4. QED
        BY <4>3 DEF IsNalUnit
    <3>5. QED
      BY <3>1, <3>2, <3>3, <3>4
  <2>8. CASE i + 2 > k + q
    <3>1. i + 2 - (k + q) \in 1 .. trailing /\ i + 2 = k + q + (i + 2 - (k + q))
      BY <1>1, <2>1, <2>8
    <3>2. data[i + 2] = 0
      BY <1>3, <3>1
    <3>3. QED
      BY <2>1, <3>2
  <2>9. QED
    BY <1>1, <1>4, <2>1, <2>2, <2>3, <2>4, <2>5, <2>6, <2>7, <2>8
<1>8. Starts(data) = {m - 1, m + p + n}
  BY <1>5, <1>6, <1>7
<1>9. QED
  BY <1>8 DEF p

(* What lies behind a start code, up to where the next begins, is the unit. *)
LEMMA UnitBetween ==
  ASSUME NEW A, {0, 1} \subseteq A, NEW data \in Seq(A), NEW unit \in Seq(A), IsNalUnit(unit),
         NEW from \in Nat, NEW to \in Nat, to =< Len(data), from + Len(unit) =< to,
         \A i \in 1 .. Len(unit) : data[from + i] = unit[i],
         \A i \in Len(unit) + 1 .. to - from : data[from + i] = 0
  PROVE  TrimZeros(SubSeq(data, from + 1, to)) = unit
<1> DEFINE nal == SubSeq(data, from + 1, to)
           N == to - from
<1>1. Len(unit) \in Nat \ {0} /\ unit # <<>> /\ unit[Len(unit)] # 0 /\ Len(data) \in Nat
      /\ \A i \in 1 .. Len(data) : data[i] \in A
  BY DEF IsNalUnit, Last
<1>2. N \in Nat /\ N >= Len(unit)
  BY <1>1
<1>3. nal \in Seq(A) /\ Len(nal) = N /\ \A i \in 1 .. N : nal[i] = data[from + i]
  <2>1. \A i \in from + 1 .. to : data[i] \in A
    BY <1>1
  <2>2. from + 1 \in Int /\ to \in Int /\ from + 1 =< to /\ to - (from + 1) + 1 = N
    BY <1>1, <1>2
  <2>3. /\ nal \in Seq(A)
        /\ Len(nal) = IF from + 1 =< to THEN to - (from + 1) + 1 ELSE 0
        /\ \A i \in 1 .. to - (from + 1) + 1 : nal[i] = data[(from + 1) + i - 1]
    BY <2>1, <2>2, SubSeqProperties
  <2>4. \A i \in 1 .. N : (from + 1) + i - 1 = from + i
    BY <1>2
  <2> HIDE DEF nal, N
  <2>5. QED
    BY <2>2, <2>3, <2>4
<1> HIDE DEF nal
<1>4. \A i \in 1 .. Len(unit) : nal[i] = unit[i]
  BY <1>1, <1>2, <1>3
<1>5. \A i \in Len(unit) + 1 .. Len(nal) : nal[i] = 0
  BY <1>1, <1>2, <1>3
<1>6. Len(unit) =< Len(nal)
  BY <1>2, <1>3
<1>7. TrimZeros(nal) = unit
  BY <1>1, <1>3, <1>4, <1>5, <1>6, ZerosAreTrimmed
<1>8. QED
  BY <1>7 DEF nal

LEMMA UnitsOfTwo ==
  ASSUME NEW A, {0, 1} \subseteq A,
         NEW one \in Seq(A), NEW two \in Seq(A), IsNalUnit(one), IsNalUnit(two),
         NEW m \in Nat, m >= 2, NEW n \in Nat, n >= 2, NEW trailing \in Nat,
         NEW data \in Seq(A), IsLaidOut(data, one, two, m, n, trailing)
  PROVE  NalUnits(data) = <<one, two>>
<1> DEFINE p == Len(one)
           q == Len(two)
           a == m - 1
           b == m + p + n
           L == Len(data)
<1>1. /\ p \in Nat \ {0} /\ q \in Nat \ {0} /\ L \in Nat /\ L = m + p + n + 2 + q + trailing
      /\ one # <<>> /\ two # <<>>
  BY DEF IsNalUnit, IsLaidOut
<1>2. Starts(data) = {a, b}
  BY StartsOfUnits
<1>3. a \in Nat /\ b \in Nat /\ a < b
  BY <1>1
<1>4. /\ \A i \in 1 .. p : data[m + 1 + i] = one[i]
      /\ \A i \in 1 .. n : data[m + p + 1 + i] = 0
      /\ \A i \in 1 .. q : data[m + p + n + 2 + i] = two[i]
      /\ \A i \in 1 .. trailing : data[m + p + n + 2 + q + i] = 0
  BY DEF IsLaidOut
<1>5. NalUnit(data, a) = one
  <2>1. {j \in {a, b} : j > a} = {b} /\ {b} # {}
    BY <1>3
  <2>2. Min({b}) = b
    <3>1. \A x \in {b} : (\A y \in {b} : x =< y) <=> x = b
      BY <1>3
    <3> HIDE DEF b
    <3>2. QED
      BY <3>1, Zenon DEF Min
  <2> DEFINE from == m + 1
             to == b - 1
  <2>3. from \in Nat /\ to \in Nat /\ to =< L /\ from + p =< to /\ a + 3 = from + 1
    BY <1>1
  <2> HIDE DEF a, b
  <2>4. NalUnit(data, a) = TrimZeros(SubSeq(data, a + 3, b - 1))
    BY <1>2, <2>1, <2>2, Zenon DEF NalUnit
  <2>5. ASSUME NEW i \in p + 1 .. to - from
        PROVE  data[from + i] = 0
    <3>1. i - p \in 1 .. n /\ from + i = m + p + 1 + (i - p)
      BY <1>1 DEF b
    <3>2. data[m + p + 1 + (i - p)] = 0
      BY <1>4, <3>1
    <3>3. QED
      BY <3>1, <3>2
  <2>6. \A i \in 1 .. p : data[from + i] = one[i]
    BY <1>4
  <2> HIDE DEF from, to
  <2>7. TrimZeros(SubSeq(data, from + 1, to)) = one
    BY <2>3, <2>5, <2>6, UnitBetween
  <2>8. QED
    BY <2>3, <2>4, <2>7 DEF to
<1>6. NalUnit(data, b) = two
  <2>1. {j \in {a, b} : j > b} = {}
    BY <1>3
  <2> DEFINE from == m + p + n + 2
             to == L
  <2>3. from \in Nat /\ to \in Nat /\ to =< L /\ from + q =< to /\ b + 3 = from + 1
    BY <1>1
  <2> HIDE DEF a, b
  <2>4. NalUnit(data, b) = TrimZeros(SubSeq(data, b + 3, L))
    BY <1>2, <2>1, Zenon DEF NalUnit
  <2>5. ASSUME NEW i \in q + 1 .. to - from
        PROVE  data[from + i] = 0
    <3>1. i - q \in 1 .. trailing /\ from + i = m + p + n + 2 + q + (i - q)
      BY <1>1
    <3>2. data[m + p + n + 2 + q + (i - q)] = 0
      BY <1>4, <3>1
    <3>3. QED
      BY <3>1, <3>2
  <2>6. \A i \in 1 .. q : data[from + i] = two[i]
    BY <1>4
  <2> HIDE DEF from, to
  <2>7. TrimZeros(SubSeq(data, from + 1, to)) = two
    BY <2>3, <2>5, <2>6, UnitBetween
  <2>8. QED
    BY <2>3, <2>4, <2>7 DEF to
<1> HIDE DEF a, b
<1> DEFINE found == {i \in Starts(data) : NalUnit(data, i) # <<>>}
           upto(i) == {j \in found : j =< i}
           Nth(n_1) == CHOOSE i \in found : Cardinality({j \in found : j =< i}) = n_1
<1>7. found = {a, b}
  BY <1>1, <1>2, <1>5, <1>6
<1> HIDE DEF found
<1>8. Cardinality(upto(a)) = 1 /\ Cardinality(upto(b)) = 2 /\ Cardinality(found) = 2
  <2>1. upto(a) = {a} /\ upto(b) = {a, b}
    BY <1>3, <1>7
  <2>2. IsFiniteSet({a}) /\ Cardinality({a}) = 1
    BY FS_Singleton
  <2>3. {a, b} = {a} \cup {b} /\ b \notin {a}
    BY <1>3
  <2>4. Cardinality({a} \cup {b}) = 2
    <3> DEFINE S == {a}
    <3>1. IsFiniteSet(S) /\ Cardinality(S) = 1 /\ b \notin S
      BY <2>2, <2>3
    <3> HIDE DEF S
    <3>2. Cardinality(S \cup {b}) = Cardinality(S) + 1
      BY <3>1, FS_AddElement
    <3>3. Cardinality(S \cup {b}) = 2
      BY <3>1, <3>2
    <3>4. QED
      BY <3>3 DEF S
  <2>5. Cardinality({a, b}) = 2
    BY <2>3, <2>4, Zenon
  <2>6. QED
    BY <1>7, <2>1, <2>2, <2>5, Zenon
<1>9. Nth(1) = a /\ Nth(2) = b
  BY <1>3, <1>7, <1>8
<1>10. NalUnits(data) = [n_1 \in 1 .. Cardinality(found) |-> NalUnit(data, Nth(n_1))]
  BY Zenon DEF NalUnits, found
<1> HIDE DEF Nth
<1>11. [n_1 \in 1 .. 2 |-> NalUnit(data, Nth(n_1))] = <<one, two>>
  <2>1. NalUnit(data, Nth(1)) = one /\ NalUnit(data, Nth(2)) = two
    BY <1>5, <1>6, <1>9
  <2>2. QED
    BY <2>1
<1>12. QED
  BY <1>8, <1>10, <1>11

Joins(A, s, t, both) ==
  /\ both \in Seq(A) /\ Len(both) = Len(s) + Len(t)
  /\ \A i \in 1 .. Len(s) : both[i] = s[i]
  /\ \A i \in 1 .. Len(t) : both[Len(s) + i] = t[i]

LEMMA ConcatAt ==
  ASSUME NEW A, NEW s \in Seq(A), NEW t \in Seq(A)
  PROVE  Joins(A, s, t, s \o t)
<1>1. Len(s) \in Nat /\ Len(t) \in Nat
  OBVIOUS
<1>2. /\ s \o t \in Seq(A) /\ Len(s \o t) = Len(s) + Len(t)
      /\ \A i \in 1 .. Len(s) + Len(t) : (s \o t)[i] =
           IF i <= Len(s) THEN s[i] ELSE t[i - Len(s)]
  BY ConcatProperties
<1>3. \A i \in 1 .. Len(s) : (s \o t)[i] = s[i]
  BY <1>1, <1>2
<1>4. ASSUME NEW i \in 1 .. Len(t)
      PROVE  (s \o t)[Len(s) + i] = t[i]
  <2>1. Len(s) + i \in 1 .. Len(s) + Len(t) /\ ~(Len(s) + i <= Len(s)) /\ (Len(s) + i) - Len(s) = i
    BY <1>1
  <2>2. QED
    BY <1>2, <2>1
<1>5. QED
  BY <1>2, <1>3, <1>4 DEF Joins

LEMMA ZerosAre ==
  ASSUME NEW A, 0 \in A, NEW n \in Nat
  PROVE  Zeros(n) \in Seq(A) /\ Len(Zeros(n)) = n /\ \A i \in 1 .. n : Zeros(n)[i] = 0
  BY DEF Zeros

(* However many zeros, two at least, stand before each of two units, and    *)
(* however many follow: nal_units finds those units.                        *)
THEOREM UnitsFound ==
  ASSUME NEW A, {0, 1} \subseteq A,
         NEW one \in Seq(A), NEW two \in Seq(A), IsNalUnit(one), IsNalUnit(two),
         NEW m \in Nat, m >= 2, NEW n \in Nat, n >= 2, NEW trailing \in Nat
  PROVE  UnitsAreFound(one, two, m, n, trailing)
<1> DEFINE p == Len(one)
           q == Len(two)
           s1 == Zeros(m) \o <<1>>
           s2 == s1 \o one
           s3 == s2 \o Zeros(n)
           s4 == s3 \o <<1>>
           s5 == s4 \o two
           s6 == s5 \o Zeros(trailing)
<1>1. p \in Nat /\ q \in Nat /\ 1 \in A /\ 0 \in A
  OBVIOUS
<1>2. /\ Zeros(m) \in Seq(A) /\ Len(Zeros(m)) = m /\ \A i \in 1 .. m : Zeros(m)[i] = 0
      /\ Zeros(n) \in Seq(A) /\ Len(Zeros(n)) = n /\ \A i \in 1 .. n : Zeros(n)[i] = 0
      /\ Zeros(trailing) \in Seq(A) /\ Len(Zeros(trailing)) = trailing
      /\ \A i \in 1 .. trailing : Zeros(trailing)[i] = 0
  BY <1>1, ZerosAre
<1>3. <<1>> \in Seq(A) /\ Len(<<1>>) = 1 /\ <<1>>[1] = 1
  BY <1>1
<1> DEFINE code == <<1>>
<1> HIDE DEF p, q, code
<1>4. s1 \in Seq(A) /\ Len(s1) = m + 1 /\ (\A i \in 1 .. m : s1[i] = 0) /\ s1[m + 1] = 1
  <2>1. Joins(A, Zeros(m), <<1>>, s1)
    BY <1>2, <1>3, ConcatAt
  <2> HIDE DEF s1
  <2>2. QED
    BY <1>2, <1>3, <2>1 DEF Joins
<1> HIDE DEF s1
<1>5. /\ s2 \in Seq(A) /\ Len(s2) = m + 1 + p
      /\ \A i \in 1 .. m + 1 : s2[i] = s1[i]
      /\ \A i \in 1 .. p : s2[m + 1 + i] = one[i]
  <2>1. Joins(A, s1, one, s2)
    BY <1>4, ConcatAt
  <2> HIDE DEF s2
  <2>2. QED
    BY <1>4, <2>1 DEF Joins, p
<1> HIDE DEF s2
<1>6. /\ s3 \in Seq(A) /\ Len(s3) = m + 1 + p + n
      /\ \A i \in 1 .. m + 1 + p : s3[i] = s2[i]
      /\ \A i \in 1 .. n : s3[m + 1 + p + i] = 0
  <2>1. Joins(A, s2, Zeros(n), s3)
    BY <1>2, <1>5, ConcatAt
  <2> HIDE DEF s3
  <2>2. QED
    BY <1>2, <1>5, <2>1 DEF Joins
<1> HIDE DEF s3
<1>7. /\ s4 \in Seq(A) /\ Len(s4) = m + 1 + p + n + 1
      /\ \A i \in 1 .. m + 1 + p + n : s4[i] = s3[i]
      /\ s4[m + 1 + p + n + 1] = 1
  <2>1. Joins(A, s3, <<1>>, s4)
    BY <1>3, <1>6, ConcatAt
  <2> HIDE DEF s4
  <2>2. QED
    BY <1>3, <1>6, <2>1 DEF Joins
<1> HIDE DEF s4
<1>8. /\ s5 \in Seq(A) /\ Len(s5) = m + 1 + p + n + 1 + q
      /\ \A i \in 1 .. m + 1 + p + n + 1 : s5[i] = s4[i]
      /\ \A i \in 1 .. q : s5[m + 1 + p + n + 1 + i] = two[i]
  <2>1. Joins(A, s4, two, s5)
    BY <1>7, ConcatAt
  <2> HIDE DEF s5
  <2>2. QED
    BY <1>7, <2>1 DEF Joins, q
<1> HIDE DEF s5
<1>9. /\ s6 \in Seq(A) /\ Len(s6) = m + 1 + p + n + 1 + q + trailing
      /\ \A i \in 1 .. m + 1 + p + n + 1 + q : s6[i] = s5[i]
      /\ \A i \in 1 .. trailing : s6[m + 1 + p + n + 1 + q + i] = 0
  <2>1. Joins(A, s5, Zeros(trailing), s6)
    BY <1>2, <1>8, ConcatAt
  <2> HIDE DEF s6
  <2>2. QED
    BY <1>2, <1>8, <2>1 DEF Joins
<1> HIDE DEF s6
<1>10. (\A i \in 1 .. m : s6[i] = 0) /\ s6[m + 1] = 1
  <2>1. p \in Nat /\ q \in Nat
    BY <1>1 DEF p, q
  <2>2. \A i \in 1 .. m + 1 : s6[i] = s4[i]
    BY <1>8, <1>9, <2>1
  <2>3. \A i \in 1 .. m + 1 : s4[i] = s2[i]
    BY <1>6, <1>7, <2>1
  <2>4. m + 1 \in 1 .. m + 1 /\ \A i \in 1 .. m : i \in 1 .. m + 1
    OBVIOUS
  <2>5. QED
    BY <1>4, <1>5, <2>2, <2>3, <2>4
<1>11. \A i \in 1 .. p : s6[m + 1 + i] = one[i]
  <2>1. ASSUME NEW i \in 1 .. p
        PROVE  m + 1 + i \in 1 .. m + 1 + p
    BY <1>1 DEF p
  <2>2. \A j \in 1 .. m + 1 + p : s6[j] = s2[j]
    BY <1>1, <1>6, <1>7, <1>8, <1>9 DEF p, q
  <2>3. QED
    BY <1>5, <2>1, <2>2
<1>12. \A i \in 1 .. n : s6[m + p + 1 + i] = 0
  <2>1. ASSUME NEW i \in 1 .. n
        PROVE  m + 1 + p + i \in 1 .. m + 1 + p + n /\ m + p + 1 + i = m + 1 + p + i
    BY <1>1 DEF p
  <2>2. ASSUME NEW j \in 1 .. m + 1 + p + n
        PROVE  s6[j] = s3[j]
    <3>1. j \in 1 .. m + 1 + p + n + 1 /\ j \in 1 .. m + 1 + p + n + 1 + q
      BY <1>1 DEF p, q
    <3>2. QED
      BY <1>7, <1>8, <1>9, <3>1
  <2>3. QED
    BY <1>6, <2>1, <2>2
<1> DEFINE k == m + p + n + 2
<1>13. k = m + 1 + p + n + 1 /\ k \in 1 .. m + 1 + p + n + 1
       /\ m + 1 + p + n + 1 + q = k + q
  BY <1>1 DEF p, q
<1>14. s6[k] = 1
  BY <1>1, <1>7, <1>8, <1>9, <1>13 DEF p, q
<1>15. \A i \in 1 .. q : s6[k + i] = two[i]
  <2>1. ASSUME NEW i \in 1 .. q
        PROVE  m + 1 + p + n + 1 + i \in 1 .. m + 1 + p + n + 1 + q
    BY <1>1 DEF p, q
  <2>2. QED
    BY <1>8, <1>9, <1>13, <2>1
<1>16. \A i \in 1 .. trailing : s6[k + q + i] = 0
  BY <1>9, <1>13
<1>17. Len(s6) = k + q + trailing
  BY <1>9, <1>13
<1>18. IsLaidOut(s6, one, two, m, n, trailing)
  BY <1>10, <1>11, <1>12, <1>14, <1>15, <1>16, <1>17 DEF IsLaidOut, p, q
<1>19. NalUnits(s6) = <<one, two>>
  BY <1>9, <1>18, UnitsOfTwo
<1>20. QED
  BY <1>19 DEF UnitsAreFound, s1, s2, s3, s4, s5, s6

-----------------------------------------------------------------------------
(* The numbers of an encoder, in every state of the handles.                *)

(* An encoder is built with a buffer that holds its frames and a stream      *)
(* buffer of two GOPs, or less if a size or a rate exceeds u32 or the frame  *)
(* is smaller; with a frame rate of 0 it is not built                        *)
(* (calc_frame_buffer_size, calc_buffer_size, Image::import).                *)
THEOREM BuffersFit == Spec => []BufferSizesFit
<1>1. BuffersHoldFrames
  <2>1. U16 \subseteq Nat
    BY DEF U16
  <2>2. QED
    BY <2>1, EncoderBuffersHoldFrames DEF BuffersHoldFrames
<1>2. StreamBuffersHoldGops
  <2>1. U32Max \in Nat
    BY WidthsAssumption DEF U32Max
  <2>2. {0, U32Max \div 2, U32Max} \subseteq Nat
    BY <2>1
  <2>3. [codec : {"H264"}, mode : {"Cbr"}, gop : U16, framerate : U8,
         bitrate_kbps : 0 .. 2 * (U32Max \div Kilo)] \subseteq Codec(Nat, Nat, Nat)
    BY DEF Codec, U16, U8
  <2>4. QED
    BY <2>2, <2>3, StreamBuffersHoldTwoGops DEF StreamBuffersHoldGops
<1>3. BufferSizesFit
  BY <1>1, <1>2 DEF BufferSizesFit
<1>4. QED
  BY <1>3, PTL

(* A call to get a frame waits as long as it is told to, never longer but    *)
(* for ever (ViChannelInner::get_frame, VpssChannelInner::get_frame).        *)
THEOREM TimeoutsAreKept == Spec => []TimeoutsKept
<1>1. DeadlinesAreMeant
  <2>1. 0 .. MicrosPerMilli * U32Size * 2 \subseteq Nat
    OBVIOUS
  <2>2. QED
    BY <2>1, DeadlinesAreAsMeant DEF DeadlinesAreMeant
<1>2. TimeoutsKept
  BY <1>1 DEF TimeoutsKept
<1>3. QED
  BY <1>2, PTL

LEMMA NalKindsAreNals ==
  ASSUME NEW codec
  PROVE  NalKinds(codec) \subseteq Nal
<1>1. {1, 5} \subseteq Nat /\ {1, 19} \subseteq Nat /\ {7, 12} \subseteq Nat
      /\ {33, 40} \subseteq Nat
  OBVIOUS
<1>2. (IF codec = "H264" THEN {1, 5} ELSE {1, 19}) \subseteq Nat
      /\ (IF codec = "H264" THEN {7, 12} ELSE {33, 40}) \subseteq Nat
  BY <1>1
<1> DEFINE slices == IF codec = "H264" THEN {1, 5} ELSE {1, 19}
           others == IF codec = "H264" THEN {7, 12} ELSE {33, 40}
<1> HIDE DEF slices, others
<1>3. slices \subseteq Nat /\ others \subseteq Nat
  BY <1>2 DEF slices, others
<1>4. /\ [type : slices, first : BOOLEAN, short : BOOLEAN] \subseteq Nal
      /\ [type : others, first : {FALSE}, short : {FALSE}] \subseteq Nal
  BY <1>3 DEF Nal
<1>5. QED
  BY <1>4 DEF NalKinds, slices, others

LEMMA BoundedSeqs ==
  ASSUME NEW A, NEW n \in Nat
  PROVE  BoundedSeq(A, n) \subseteq Seq(A)
BY DEF BoundedSeq, SeqOf

(* The union of an encoder channel is read as it was written, and an IDR     *)
(* begins every GOP of synthetic packets and every round of a clip           *)
(* (native_rate_control_mode, native_rate_control_attrs, gop,                *)
(* RK_MPI_VENC_GetStream).                                                   *)
THEOREM RatesReach == Spec => []RateReachesEncoder
<1>1. RatesAreRead
  <2>1. Codec(0 .. 2, 0 .. 3, 0 .. 2) \subseteq Codec(Nat, Nat, Nat)
    BY DEF Codec
  <2>2. 5 \in 0 .. U32Max
    <3>1. /\ U8Size \in Nat \ {0} /\ U8Size % 2 = 0
          /\ U16Size \in Nat \ {0} /\ U16Size % 2 = 0
          /\ U32Size \in Nat \ {0} /\ U32Size % 2 = 0
          /\ U8Size < U16Size /\ U16Size < U32Size
      BY WidthsAssumption
    <3>2. U8Size >= 2 /\ U16Size >= 4 /\ U32Size >= 6
      BY <3>1
    <3>3. QED
      BY <3>1, <3>2 DEF U32Max
  <2>3. QED
    BY <2>1, <2>2, EncoderRatesAreRead, GopsBegin DEF RatesAreRead
<1>2. ClipRoundsBeginWithIdr
  <2>1. SUFFICES ASSUME NEW codec \in ClipCodec,
                        NEW nals \in BoundedSeq(NalKinds(codec), MaxNals), NEW c
                 PROVE  RoundsBeginWithIdr(c, ClipIdrs(codec, nals), 0 .. 2 * MaxNals)
    BY DEF ClipRoundsBeginWithIdr
  <2>2. nals \in Seq(Nal)
    BY BoundedSeqs, ClipAssumption, NalKindsAreNals, SeqMonotonic
  <2>3. 0 .. 2 * MaxNals \in SUBSET Nat
    BY ClipAssumption
  <2>4. QED
    BY <2>2, <2>3, RoundsBegin
<1>3. RateReachesEncoder
  BY <1>1, <1>2 DEF RateReachesEncoder
<1>4. QED
  BY <1>3, PTL

(* The clip of a running encoder is split into its pictures and loops frame  *)
(* by frame (nal_units, split_frames).                                       *)
THEOREM ClipsSplit == Spec => []ClipSplits
<1>1. NalUnitsAreFound
  <2>1. BoundedSeq(ClipByte, MaxNalBytes) \subseteq Seq(ClipByte) /\ {0, 1} \subseteq ClipByte
    BY BoundedSeqs, ClipAssumption
  <2>2. SUFFICES ASSUME NEW one \in BoundedSeq(ClipByte, MaxNalBytes), IsNalUnit(one),
                        NEW two \in BoundedSeq(ClipByte, MaxNalBytes), IsNalUnit(two),
                        NEW m \in 2 .. 4, NEW n \in 2 .. 4, NEW trailing \in 0 .. 2
                 PROVE  UnitsAreFound(one, two, m, n, trailing)
    BY DEF NalUnitsAreFound
  <2>3. one \in Seq(ClipByte) /\ two \in Seq(ClipByte)
        /\ m \in Nat /\ m >= 2 /\ n \in Nat /\ n >= 2 /\ trailing \in Nat
    BY <2>1
  <2>4. QED
    BY <2>1, <2>2, <2>3, UnitsFound
<1>2. ClipsAreReplayed
  <2>1. SUFFICES ASSUME NEW codec \in ClipCodec,
                        NEW nals \in BoundedSeq(NalKinds(codec), MaxNals)
                 PROVE  ClipIsReplayed(codec, nals)
    BY DEF ClipsAreReplayed
  <2>2. nals \in Seq(NalKinds(codec))
    BY BoundedSeqs, ClipAssumption
  <2>3. nals \in Seq(Nal)
    BY <2>2, NalKindsAreNals, SeqMonotonic
  <2>4. QED
    BY <2>3, ClipReplays
<1>3. ClipSplits
  BY <1>1, <1>2 DEF ClipSplits
<1>4. QED
  BY <1>3, PTL
===============================================================================
