# TLA+ models of rusty_rockit

rusty_rockit is a Rust crate over Rockchip's native media library (RK_MPI): it
opens cameras, image processing groups and hardware encoders, binds them into
pipelines and moves frames between them. The crate's own logic is the life of
native objects: who owns which id, what is created and destroyed in which order,
what happens when one native call of several fails, and what two threads that
share one `RockitMpi` can do to each other. A stub of the native library
(`src/rockit-stub`) is part of the repository; it is what the crate's tests run
against, and the models take the native side from it.

## 1. Inventory

| component | code | state it keeps | operations |
|---|---|---|---|
| Resource manager | `src/src/lib.rs` 96-163 | `available` (BTreeSet) and `busy` (HashSet) of ids behind one mutex; `AcquiredResource` guards | `acqure`, `acqure_specific`, `release`, drop of a guard |
| MPI session | `src/src/lib.rs` 31, 165-232; stub `sys.rs` | `MPI_SYS_INIT` (mutex and OnceCell), `Arc<RockitSysInner>`; stub: the whole `State` | `RockitMpi::init`, clone, drop of the last handle |
| VENC channels | `src/src/venc.rs`; stub `venc.rs` | id guard, `state` flag; stub: channel, started flag, queue | new, start, stop, bind_vi, bind_vpss, send_frame, get_stream, drop |
| Channel binds | `src/src/lib.rs` 234-269; stub `sys.rs` 30-81 | source and destination; stub: map from destination to source | bind, drop |
| Cameras | `src/src/vi.rs` 35-118; stub `vi.rs` 61-187 | id guard; stub: attributes, enabled, pipe | new, drop |
| VI channels, frames | `src/src/vi.rs` 120-330; stub `vi.rs` 190-340 | pipe and channel id; stub: attributes, enabled, frame clock | create_channel, get_frame, drop |
| VPSS groups, channels | `src/src/vpss.rs`; stub `vpss.rs` | id guards, group and channel state; stub: group, channels, queues | new, start, channel, enable, disable, bind_vi, send_frame, get_frame, drop |
| Owned handles | the `*Owned` types of `vi.rs`, `vpss.rs`, `venc.rs`, `mb.rs` | `Rc`s to the objects they keep alive | into_owned, binds of owned handles, drop order |
| Memory buffers | `src/src/mb.rs`; stub `mb.rs` | pool id, block pointer; stub: blocks with their pool | pool, get_buffer, new_frame, drop |
| Encoders | `src/src/encoder.rs` | an owned pipeline and a pool of one buffer | `encode_frame`, `get_frame` |
| AIQ contexts | `src/src/aiq.rs`; stub `aiq.rs` | context pointer, state | init, start, stop, drop |
| Sizes | `src/src/util.rs`, `src/src/venc.rs` 49-61, 93-337; stub `image.rs` 14-91, `venc.rs` 37-51, 296-302; `rk_comm_rc.h` 59-162 | none | `align2`, `RatioU32`, buffer sizes, the rate control union, IDRs, timeouts |
| Frame pulling | stub `state.rs` 182-270 | one mutex, one condition variable, queues | `pull_blocking`, `wait`, `pull_bound` |
| Clip replay | stub `clip.rs` | embedded clips | `nal_units`, `split_frames` |
| Image conversion, test control, bindings | stub `image.rs`, `control.rs`; `rockit-sys` | - | - |

**How they interact.** Every handle holds a `RockitMpi`, by reference or as a
clone, so the session outlives all objects. Cameras, VENC channels and VPSS
groups take an id from a resource manager of the session, VPSS channels from a
manager of their group; the guard is a field of the object, and Rust drops
fields after `Drop::drop`, so an id goes back only after the native teardown.
VI channels have no manager: the caller chooses the id. Binds connect a VI
channel to a VPSS group or an encoder, or a VPSS channel to an encoder. A frame
call on a bound destination pulls from the source through the stub's `State`.
There are no callbacks into the crate that change state (the AIQ callbacks do
nothing), and nothing is persisted, so there is no crash recovery to model.

**What is hard.** Interleavings: `RockitMpi`, `Camera` and `ViPipe` are shared
between threads by reference, every native call is atomic in the library, and
between two native calls of one operation all other threads run. Partial
failure: every native call can fail, errors of teardowns are only logged, and
the id is released all the same. Ordering: `RK_MPI_SYS_Exit` runs outside the
mutex of `init`. Waiting: one condition variable serves the frame calls of all
channels, some steps that make frames available do not notify it, and queues
refuse or drop frames. Late answers: `encode_frame` sends before it waits, so a
wait that times out leaves a frame behind. Sharing: owned handles keep objects
alive through `Rc`s, and the order in which Rust drops their fields is the
order of the native teardown. Numbers: buffer sizes are computed in `u32`,
timeouts are cut to `i32`, the rate control attributes are a union. Every
hazard stands in `PROJECT.json` at its line, with the properties that cover it.

**What makes each component correct.**

- Resource manager: ids are exclusive and none is lost.
- Session: a living handle means an initialized library; one session at a time;
  the library can be opened again after the last drop.
- VENC channels, VPSS groups, cameras: a handle's native object exists and is
  nobody else's; the state of the handle is the native state; nothing fails
  unless some native call failed first; what a failed teardown leaves behind is
  accounted for.
- VI channels: exclusive although unmanaged; an open channel is not
  reconfigured.
- Owned handles: no native object is destroyed or stopped by the drop of one
  handle while another uses it, and no teardown is refused. (An explicit
  `disable` of a VPSS channel that an owned bind shares does go through: the
  bind then has no source until the channel is enabled again.)
- Buffers: without a failing call no block is lost, neither with its pool nor
  with the session.
- Encoders: between two calls everything an encoder is made of is up; a stream
  is of the frame that was handed in, or, over NV12, of one that is older by
  the waits that failed.
- AIQ contexts: an object has its context in its own state; a running context
  is freed only if it could not be stopped; the end of a session leaves it be.
- Frame pulling: a call returns when a frame, its deadline or an error comes.
- Sizes: a buffer holds the frame it is for; the rate control union is read as
  the crate wrote it; IDRs come where the source of the packets puts them; a
  deadline is never later than the timeout says.
- Clips: the NAL units and pictures found are those of the clip, and a replay
  has no seam.

## 2. Modules

| module | models | proofs |
|---|---|---|
| `IdLease` | abstract: exclusive leases of ids | |
| `ResourceManager` | the id allocator; implements `IdLease` | `ResourceManager_proofs` |
| `MpiSession` | opening and closing the library | `MpiSession_proofs` |
| `VencChannel` | encoder channels and their binds | `VencChannel_proofs` |
| `Camera` | VI devices and pipes | `Camera_proofs` |
| `ViChannel` | the channels of one pipe | `ViChannel_proofs` |
| `VpssGroup` | groups, their channels, their VI bind | `VpssGroup_proofs` |
| `FramePull` | the blocking frame calls, their queues and their clock | `FramePull_proofs` |
| `MCFramePull` | the depths, for TLC | |
| `AiqContext` | AIQ contexts | in `MpiSession_proofs` |
| `Process` | `MpiSession` and `AiqContext` in one process | in `MpiSession_proofs` |
| `OwnedHandles` | all `*Owned` types, what they keep alive and their drops | in `SimpleEncoder_proofs` |
| `SimpleEncoder` | `encode_frame` over `OwnedHandles` and the queues | `SimpleEncoder_proofs` |
| `Sizes` | buffer sizes, rate control, timeouts; no state | in `SimpleEncoder_proofs` |
| `Clip` | splitting a clip; no state | in `SimpleEncoder_proofs` |
| `MCEncoder` | `SimpleEncoder` with `Sizes` and `Clip` | in `SimpleEncoder_proofs` |

`VencChannel`, `Camera` and `VpssGroup` are composed with `ResourceManager`:
they instantiate it with `held` replaced by a function of their own guards and
take its `Acqure`, `AcqureSpecific` and `Release` as conjuncts of their steps, so
the manager's variables are shared, not copied. `Resources!Spec` is checked, and
proved, as a property of each, and with it the manager's own theorems hold of
them. `ViChannel` has no manager: it implements `IdLease` by itself, the lease of
a channel being the thread whose object it is (`LeaseOf`).

### From code to model

*One step per native call.* The library (the stub's `STATE` mutex) serializes
its calls and the crate keeps no lock across two of them, so an operation with
several calls is as many steps, and a `pc` per thread says between which calls
the thread is. What one thread does between two native calls (constructing or
moving a handle, storing its state flag) is visible to no other thread and
belongs to the step of the call before it. Methods of `ResourceManager` hold
their mutex throughout and are one step.

*Handles.* A thread has at most one object of the kind a module is about at a
time. Borrow rules are guards: an encoder channel that a bind borrows cannot be
stopped or dropped. A method that consumes its handle drops it when the native
call fails, as `?` does in the code.

*Failures.* Each native call has a failing alternative with no effect on the
library. `faults` counts the failures that are not a consequence of the
library's own state (EXIST, BUSY, NOT_PERM follow from the state and cost
nothing), bounded by `MaxFaults`. The stub injects failures the same way
(`enter` in `state.rs`).

*Frame calls* (`FramePull`). A call is `Call` (up to the lock), then attempts
(`Try`: `GetFrame` is `Pull::Ready`, `GetNothing` is `Pull::NotYet` followed by
the deadline check and `wait`) and waits that end by `TimeOut`, by a notification
(`NotifyAll`) or for no reason (`WakeUp`, which stands also for the notifications
of released blocks). An attempt holds the mutex and is one step, in which the
clock may move on: the code reads it again after the pull. Time is counted in
ticks; a deadline of `Never` is later than any clock reading. A frame is its
number. `PullVpss` and `PullVenc` are the two `pull` functions with
`pull_bound` resolved: VI cannot be bound to anything, so the chain of sources
has at most three links and needs no recursion. Channels stay enabled and
started, because a frame call borrows its handle and a bind borrows those of its
ends, and the operations that stop or disable need the handle whole. `lastTwo`
and `taken` are history variables.

*Owned handles* (`OwnedHandles`). `Fields` lists for each type the objects it
refers to in the order in which Rust drops them, nested types spelled out. A
handle that goes is dropped field by field (`dropping`, `field`); a field that is
the last reference runs the `Drop` of its object (`LastOf`), any other only gives
its `Rc` up (`DropShared`). `inner` is what the objects of the crate believe,
`native` what the library has, `orphans` counts blocks that no one can give
back, `refused` records a teardown that the library turned down. One object of
each class exists at a time: ids and threads are the business of the component
models, and `Rc` is not `Send`, so one thread does all of this. A handle drop is
several steps, but nothing else happens between them. `enable` on a channel that
is enabled already returns at once and is left out, as are calls that create
something, fail, and leave nothing behind. A `CameraEncoder` is a
`ViVencBindOwned` with one method, and is that handle here.

*The encoder* (`SimpleEncoder`) adds the frames of the one encoder: the input
queue of its channel for NV12, the queue of the VPSS channel in front of it
otherwise, by the number of the frame. `encode_frame` is one step with three
outcomes, since nothing else of the thread can run inside it: a stream
(`EncodeFrame`), a wait that failed or timed out with the frame left where it was
sent (`EncodeFrameLate`), and a send that was refused (`EncodeFrameRefused`). A
stream borrows its encoder, so no second call and no drop comes before its own.

*A process* (`Process`) lets the steps of `MpiSession` and `AiqContext` interleave;
`RK_MPI_SYS_Exit` replaces the state of the library by a fresh one that takes the
AIQ contexts over (`ContextsAfterExit`). Hidden contexts change nothing for the
session: `ProcessSpec` implements `MpiSession`'s `Spec`.

*Numbers* (`Sizes`). How many values an integer type has is a parameter, an even
number. Arithmetic on `u32` wraps, as in the release profile. The loop of `gcd`
is a function of the pair that its turns change. The rate control attributes are the words of a
native C struct, written through the member the crate selects and read through
the tag it passes: `ReadWord` gives `Absent` or `Uninitialized` where the two
disagree. `Layout` has the words in the order of the vendored header
(`rk_comm_rc.h`). The fake library reads one of them, the GOP (`ChannelGop`);
the others are for the real library, of which only the header is here.

Where a channel has its IDRs depends on the source of its packets (`IsIdr`). With
synthetic ones they follow the GOP. With a clip, which is the default, they are
those of the clip (`ClipIdrs`) as it goes round, and the GOP is ignored, as the
repository's README says (lines 88-90). The properties say so for each of the
two: `GopsBeginWithIdr` without a clip, `RoundsBeginWithIdr` with one.

*Clips* (`Clip`). A NAL unit is its bytes in `NalUnits`, and the fields that
`nal_info` reads from them (type, first slice, too short) in `SplitFrames`.
`AddNal` is a turn of its loop, `AddNals` all of them.

*Names* are the code's where possible: `available`, `busy`, `acqure`, `Held` for
the guards; `native`, `nativeChn`, `enabled`, `attr`, `pipe`, `binds` are the
stub's `State`.

## 3. Runs

| run | instance | shows |
|---|---|---|
| `resource_manager` | 3 threads, 5 ids | `Exclusive`, `Conserved`; implements `IdLease` |
| `mpi_session` | `Process`: 3 threads, 4 inits, 2 handles per thread and session, 2 faults; 1 AIQ context, 2 faults | a live session is initialized, for itself; the cell is accounted for, and empty again after the last drop; AIQ contexts agree with their objects, also after the exit |
| `venc_channel` | 3 threads, 2 ids, 2 faults | ownership, agreement of states, binds, leftovers |
| `camera` | 3 threads, 2 devices, 4 faults | open cameras are enabled and alone; leftovers cost failures |
| `camera_pipe` | 2 threads, 1 device, 2 faults | **violated**: an open camera without a pipe |
| `vi_channel` | 3 threads, 2 channels, 2 sizes, 2 faults | exclusiveness without a manager, stable configuration |
| `vi_channel_size` | 2 threads, 1 channel, no fault | **violated**: a channel in the other thread's size |
| `vpss_group` | 2 threads, 1 group of 3 channels, 3 faults | a group outlives its parts, objects and library agree (both ways until a call fails), leftovers cost failures, for channels that come and go in any order |
| `vpss_fresh_bind` | 2 threads, 1 group, 1 fault | **violated**: a new group that is already bound |
| `frame_queues` | 1 thread, 2 VPSS channels of depths 0 and 2, encoder queue of 1, clock to 3, period 1, 2 sends | limits, order, the newest frame is kept; the rate of VI, no burst |
| `owned_handles` | `MCEncoder`: 4 handles of any types, 1 fault, encoder queue of 2, 4 frames, 3 failed waits; small integers and clips | no handle loses what it refers to; without a failure nothing is left behind and no teardown refused, in any order of drops; encoders stay ready and streams match their frames; buffers fit, the rate control union is read as written and IDRs are where the GOP or the clip has them, deadlines hold, clips split |
| `frame_calls_return` | 2 threads, the same sinks, clock to 2, period 2, no sends | nobody sleeps through a frame; calls with a timeout return; wanted frames are taken |

Types are left to the proofs, whose `TypeCorrect` holds for all bounds; the runs
check the invariants that say more.

**Bounds.** Two ids and three threads are the least in which a freed id is taken
by one thread while a second tears down and a third holds the other id; the
resource manager gets five ids so that one thread can hold several guards and
the order of ids matters. `MaxFaults` is two or three where a leftover needs one
failure (two leftovers, or a leftover met by another failing teardown, then
occur) and four for cameras, where a device without a pipe costs two, so two
such devices occur. One group id is enough for two threads to meet in it, since
groups share nothing but the manager of their ids, which has its own run. Four
inits are a session, its successor and two more that race with both. For frames,
two sends overflow an encoder queue of one and the VPSS queue of depth 0 (which
holds one frame), and VI frames that other calls leave behind overflow the one
of two; three periods leave room for a pause after which a clock without
`max(now)` would make three frames at once. Competition needs two threads: then
one meets a queue that the other has filled, or a `next_due` that the other has
moved, with its own deadline before or after it. The encoder's queue is 1
instead of 4 (`INPUT_QUEUE_DEPTH`). Contexts share nothing but the number of
failures, so one of them meets a session that ends. Four handles are a session
and three more: two ends and their bind, or an encoder, its stream and a handle
of the same kind of object; an encoder is built from handles that the program
has before (at most four), so each of them may also be kept or dropped on the
way. A queue of two, four frames and three failed waits fill the queue, have it
refuse a frame and have it drained again. One failure suffices for what a
failure can do to handles that do not fail again; the theorems have any number.
Integers of 10, 5 and 3 bits overflow in the products that overflow with 32, 16
and 8, for all sizes, formats and rates; `Kilo` and `MicrosPerMilli` shrink with
them (16 and 3). Clips have two NAL units of up to three bytes over 0, 1 and
another value, behind start codes with up to four zeros, and up to five NAL
units of every kind that `split_frames` tells apart, which makes two pictures
with leading and trailing units. The theorems remove the bounds for all
invariants and action properties; only liveness is checked within them alone.

**Fairness.** Two runs need it. In `mpi_session`, `Fairness` is weak fairness of
`Progress(t)`, the steps inside a call of `init` or of a drop: a thread inside a
call is running and finishes it; nobody is obliged to make a call. Weak fairness
is enough for the mutex because the calls of `init` are bounded (`MaxInits`):
a thread that waits for the mutex can be overtaken only that often. With
unbounded calls the claim would need a fair mutex, which std does not promise.
In `frame_calls_return` it is weak fairness of `Tick` (time passes), of `Try(t)`
(a thread inside a call gets the mutex and runs) and of `TimeOut(t)`
(`wait_timeout` returns). An attempt does not block while it holds the mutex, so
`Try(t)` stays enabled until it is taken; that a waiting thread is not passed
over for ever is what is assumed of the mutex. Nobody is obliged to send, to bind
or to call, spurious wakeups are not relied on, and a call without a timeout may
wait for ever if no frame can be had.

**Deadlock** is checked except in `mpi_session`, where all handles can be
gone and all inits and contexts spent.

**What the runs say about numbers.** `BufferSizesFit` and `TimeoutsKept` state the
limits along with the claims. A frame whose size exceeds `u32` gets a smaller
buffer in a release build, never a larger one. A GOP of 0, or a bit rate
that a frame rate divides to nothing, gives a stream buffer of 0 bytes; a frame
rate of 0 divides by zero, and is the only part of a codec that leaves no size at
all. Rates and GOPs that overflow `u32` give a stream buffer that is too small for
two GOPs by any amount, but never larger than two GOPs or than a frame. A timeout of 2^31 ms (24.8 days) or more becomes a
shorter one or none. Frames with odd sides have buffers for even ones, which
are large enough for what the library reads.

**Findings.** Three properties that the repository's text states are violated:

- `CameraHasPipe` (README of the crate, line 35). `Camera::new` fails in
  `SetDevBindPipe`, its cleanup fails in `DisableDev`, which is only logged. The
  device stays enabled without a pipe, and the next `Camera::new` sees an
  enabled device and does not bind one.
- `ChannelHasItsSize` (`src/tests/vi.rs` line 17). Two threads create the same
  channel on a shared pipe: A sets its attributes, B sets its own, A enables. A
  has a channel in B's size; B gets EXIST. No call has to fail for this.
- `FreshGroupIsUnbound` (README of the crate, lines 62-63). `UnBind` fails and
  is logged, `DestroyGrp` does not look at binds: the next group with the id is
  bound to the old VI channel. Encoder channels do not have this problem, their
  `DestroyChn` refuses while bound (`BindsFollowHandles`).

## 4. Proofs

The theorems hold for every number of threads, ids, channels and faults; their
assumptions are only that capacities and bounds are natural numbers, that
sentinels (`NoThread`, `NoSource`, ...) are not members of their sets, and that
`u8`, `u16` and `u32` have an even number of values each, growing in this order.
Every invariant and action property of a passing run is the subject of a theorem.

- `ResourceManager_proofs`: `TypeCorrect`, `IdsAreExclusive`, `IdsAreConserved`,
  `ManagerImplementsLease`. `IInv` is `TypeOK /\ Exclusive /\ Conserved`: neither
  half is inductive alone, since a free id must be in no guard, and a dropped
  guard must be the only one for its id. `LowestIsFree` (the minimum of a
  nonempty set of naturals is in it) rests on the library's well-foundedness of
  the naturals. `ChannelIdsAreLeased`, `DeviceIdsAreLeased` and
  `GroupIdsAreLeased` (in the proofs of the modules that use the manager) put the
  two refinements together: their ids are leases too, and none is lost.
- `MpiSession_proofs`: `TypeCorrect`, `LiveSessionsAreInitialized`,
  `SessionsAreExclusive`, `InitsFindLibraryDown`, `CellIsAccounted`;
  `ProcessHasSessions` (`ProcessSpec => Spec`) carries them over to `Process`, and
  `ContextsAlwaysAgree` says of the contexts what the run checks. The
  strengthening says who is inside the critical section and that while a
  session is alive, exiting or clearing the cell is set, so nobody is past
  `InitCheck`: that, not the mutex, is what keeps the late exit away from a
  newer session. The contexts need to know, for every stop in progress, whether
  one before it has failed, and count those without an object one by one.
- `VencChannel_proofs`: `ChannelsUseResourceManager` by step simulation;
  `HandlesOwnTheirChannels`, `StatesAgree`, `BindsAreTracked`,
  `ErrorsNeedFaults`, `TypeCorrect`, and `LostChannelsCost`. The inductive
  invariant puts the
  ids first (`IdsExclusive`: an id in a guard is not available and in no other
  guard), because every agreement between a handle and the library rests on no
  other thread driving the same id; `NothingLeft` is its fault-free part.
  The number of lost channels is not inductive: a failed unbind or stop loses
  its channel only later, when the destroy gives BUSY. `Doomed` takes a channel
  in when the call fails, so that each step gains as much as it costs.
- `Camera_proofs`: the same shape: `CamerasUseResourceManager`,
  `OpenCamerasAreEnabled`, `ErrorsNeedFaults`, `TypeCorrect`, `LeftoversCost`.
  `DeviceOrder` (bound implies enabled implies configured) is what lets
  `Camera::new` take over an enabled device without configuring it. In the
  account, a device without a pipe costs one failure when the bind of the pipe
  fails (`Doomed`) and one when its cleanup does (`Pipeless`).
- `ViChannel_proofs`: `ChannelsAreExclusive`, `OpenChannelsKeepTheirSize`,
  `LeftoversAreForGood`, `LeftoversCost`, `TypeCorrect`. Here no manager helps: exclusiveness is
  inductive because `EnableChn` is refused on an enabled channel and only its
  object disables it. That makes it a lease: `ChannelsImplementLease` is the step
  simulation, with `LeaseOf` well defined because objects are exclusive.
- `VpssGroup_proofs`: `GroupsUseResourceManager`, `GroupsOutliveTheirParts`,
  `ObjectsAlwaysAgree`, `LeftoversCost`, `TypeCorrect`. That the library has nothing
  which no object stands for until a call fails follows from the account of what
  is left behind (`AccountHolds`), not from the invariant alone. Needs `PartsHaveGroup`: a
  channel or bind exists only while its group is in hands or shared, so the
  destroy that takes all native channels with it meets none that an object
  stands for.
- `FramePull_proofs`: `TypeCorrect` (with the limits of the queues),
  `NoWakeupIsLost`, `QueuesKeepOrder`, `NewestFrameIsKept`, `FramesArePaced`,
  `PausesMakeNoBurst`. `NoLostWakeup` rests on `SleepBound`: a sleeper that VI can
  serve has a timeout no later than the next frame is due. A pull for another
  channel fills its queue without a notification only when that frame is due, so
  the sleeper's timeout has been reached; and `next_due` never goes back. The
  order needs that no queued frame is newer than the newest made (`Ordered`), the
  pace that each frame moves `next_due` by a period at least (`Clocked`).
  `StepCases` reduces `Next` to the three ways in which a frame is taken, the
  two sends and the steps that leave frames alone.

- `SimpleEncoder_proofs`: `ObjectsExist`, `ObjectsFollow`, `ErrorsNeedFaults`,
  `EncoderReady`, `StreamIsOf`, `TypeCorrect`, for any number of handles,
  failures, frames and waits. The base is a fact about the types alone:
  `FieldsClosed`, no field is declared before one that needs it (an encoder's
  `mpi` after its channel, a VPSS channel before its group, ...), hence the last
  reference to a group is not followed by one to its channels
  (`LastGroup`, `LastPool`, `LastVenc`, `LastMpi`). The invariant of the handles,
  `OInv`, has `OwnedTypeOK`, `Linked` (an object lives exactly while it is referenced),
  `Backed` (the library has what lives, in the same state) and `Clean` (what
  holds without a fault). The invariant of the encoder, `EncInv`, adds `Alone`
  (no other handle gives access to its parts), `Running` (its parts run), `Waiting` (the
  queues have just the frames of failed waits) and `Answered` (the last stream).
  Then one lemma per action, for the handles and for the encoder.

- `SimpleEncoder_proofs`, the numbers: `BuffersFit`, `RatesReach`,
  `TimeoutsAreKept`, each from a theorem without bounds. `GcdIsGreatest` says that
  `gcd` ends with the greatest common divisor (`Gcd` has a value at all because
  the greatest common divisor satisfies its equation); hence `Times` is exact unless it
  exceeds `u32` (`TimesIsExact`), and two exact products and one rounding give
  the size of a frame (`EncoderBuffersHoldFrames`). `StreamBuffersHoldTwoGops`
  bounds what the truncating divisions lose, and has the upper bounds also for
  what `u32` cuts, which never makes a product larger (`WrapIsLess`).
  `EncoderRatesAreRead` goes through the words of the union for each mode;
  `GopsBegin` says which frames are IDRs without a clip, and `RoundsBegin` that a
  clip begins with one each time, because `split_frames` accepts no other.
  `DeadlinesAreAsMeant` counts how often a timeout has gone round `u32`.
- `SimpleEncoder_proofs`, the clips: `ClipsSplit`, from `ClipReplays` and
  `UnitsFound`. A recursive function is not given by its definition alone, it
  has to be shown to have a value everywhere; and the library's induction cannot
  be used. Both are done with sets instead: the least number at which a
  claim fails is reached by one more turn from one at which it holds
  (`LeastOf`, `Turns`; `Appending` for sequences). `LoopRuns` does so for the
  loop of `split_frames`, and `AddNalsConcat` says that a loop over two clips in
  a row is the second loop begun where the first ended; `FlattenSeq` is treated
  the same way. The loop
  invariant `Splitting` says that what is cut and what is being collected
  together are the units seen, and that each frame has its slices before the
  next start of a picture. A replay has no seam because the first unit of the
  second round starts a picture, while the last one of the first has its
  slice. For `UnitsFound`, the start codes are found one segment at a time: none
  in zeros, none in a unit nor across its edges, so two in all.

**Only model-checked.** Liveness: `ReinitPossible`, `CallsReturn` and
`WantedFramesAreTaken` are about fairness, which the provers cannot take apart.
The three violations, which are counterexamples. `nal_units` is proved for two
units, of any length, behind any start codes; a clip of more adds only further
segments of the same kind. `Sizes` and `Clip` have no state, and their claims are
about every input at once; the runs check them where an encoder or a channel
exists to use them.

## 5. Not modelled

- The conversion and scaling of images (`image.rs`): bytes without a protocol.
  Of an import, the rows it reads are modelled (`Extent`).
- The call log and the failure injection of the stub (`control.rs`): the models
  inject failures themselves. The choice of a clip by size and the clips and
  variables of the environment (`clip.rs`).
- Generated bindings, build scripts, examples, and the vendored headers but for
  the layout of the rate control union.
- The codec of a channel, and what frames and buffers contain: they do not
  influence the lives modelled here. Attributes the library rejects leave no
  trace in it and are covered by the failing alternative of the call.
- Panics: a division by a frame rate of 0, and a poisoned mutex.
- Several objects of one class in one graph of owned handles: they would share
  ids, which `VencChannel`, `VpssGroup`, `Camera` and `ViChannel` have.

Since nothing is persisted and the library serializes its calls, there are no
crashes to recover from and no messages to lose. What is left to do is larger:
the multiplicity of owned handles per class (the proofs of `SimpleEncoder_proofs`
rest on one of each), and frames of several encoders over one VPSS group.
