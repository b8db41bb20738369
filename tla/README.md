# A TLA+ model of LibUvcForAndroid

These modules model what is the program's own in LibUvcForAndroid: the native code
that moves pictures from a USB camera to an Android surface, on four threads; the
connection to the camera below it, with its descriptors and the negotiation of a
format; the loops over pixels; the reader of HID messages; and the application's
monitor of USB devices above.  TLC checks the modules on small instances; TLAPS
proves theorems about all of them for every value of their constants.

## 1. The system

| part | source | state it keeps | operations |
|---|---|---|---|
| `UVCPreview` | `LibUvcCamera/.../UVCCamera/UVCPreview.cpp` | `bIsRunning`, the window, the requested and the negotiated mode, a pool of frames, a queue of frames, `captureQueue` | `startPreview`, `stopPreview`, `setPreviewDisplay`, `setPreviewSize`, destructor; the preview thread; the frame callback |
| `ObjectArray` | `.../UVCCamera/objectarray.h` | an array that grows by doubling | `put`, `last`, `remove`, `clear` |
| libuvc stream | `Dependencieslib/.../libuvc/src/stream.c` | transfers, two frame buffers, `running`, sequence numbers | `uvc_start_streaming_bandwidth`, `uvc_stop_streaming`; `_uvc_stream_callback`; `_uvc_user_caller` |
| payload assembly | `stream.c`, `_uvc_process_payload` | the frame in progress, the frame identifier | one payload of the camera |
| stream negotiation | `stream.c` | the control block | `uvc_get_stream_ctrl_format_size_fps`, probe and commit |
| libuvc context and device | `libuvc/src/init.c`, `device.c` | open devices, event thread, reference counts, claimed interfaces | `uvc_init`, `uvc_wrap`, `uvc_close`, `uvc_ref_device`, `uvc_unref_device` |
| `UVCCamera` | `.../UVCCamera/UVCCamera.cpp` | context, device, handle, file descriptor | `init`, `connect`, `release`, destructor |
| JNI layer, `LibUvcCamera.kt` | `LibUvcCamera/src/main` | the native pointer | forwards each call |
| HID receive loop | `LibHidApi/src/main/cpp/libhidapi.cpp` | the message read so far, tries | `receiveHidData`, `mergePkt` |
| USB monitor | `app/.../data/model/usb/USBDataSource.kt` | open control blocks, permissions, two handler threads | `register`, `unregister`, `requestPermission`, broadcasts, device check |
| view model | `app/.../ui/MainViewModel.kt`, `USBRepository.kt` | which surface, which camera | listener callbacks, `release` |
| descriptor parsing | `device.c`, `uvc_scan_control` and `uvc_parse_*` | the tables of formats and frames | done once, when a camera is opened |
| frame conversion | `frame.c`, `frame-mjpeg.c` | buffers of a frame | duplicate, decode, convert; `copyFrame` of `UVCPreview` |
| controls, diagnostics, device filter, user interface, libjpeg-turbo | see `PROJECT.json` | - | one request, or forwarding |

How they interact:

* `MainViewModel` gets a control block from the USB monitor and calls `openCamera`
  (`init` then `connect`, both results ignored), `setPreviewSize`,
  `setPreviewDisplay`, `startPreview`.  Leaving, it calls `stopPreview`, then
  `unregister` (which calls `UVCCamera::release`), then `destroy`.
* `UVCCamera::connect` opens the device in libuvc, which starts the **event
  thread**; every transfer of libusb ends in a callback on this thread.
* `startPreview` creates the **preview thread**, which negotiates, starts the
  stream and so creates libuvc's **user thread**.
* The event thread assembles payloads into a buffer and swaps it with the one on
  hold; the user thread copies the frame on hold and calls
  `uvcPreviewFrameCallback`, which copies it once more into a frame of the pool
  and queues it; the preview thread takes it from the queue, decodes, converts
  and paints it.
* `stopPreview` clears a flag, signals, and joins the preview thread; this one
  stops the stream, which cancels the transfers, waits for the event thread to
  have ended them all, and joins the user thread.
* `setPreviewSize` negotiates with the camera on the thread that calls it, and the
  preview thread does so again when it starts, both through one probe control.
* The USB monitor opens devices on two handler threads of its own, on behalf of
  the main thread; both call the view model's listener, and this one camera object.
* The HID library is independent of the camera: `startHidApi` blocks in
  `receiveHidData` until it has a message.

What is hard: flags that are cleared and read outside the mutex that protects
what they announce; condition variables waited on without a loop; frames handed
between three threads by pointer; transfers resubmitted while they are being
cancelled; objects freed while a callback may still run; error paths half way
through a start; one-bit frame identifiers over a channel that loses payloads;
a context that outlives its connections; tests and assignments on two handler
threads without a lock; messages put together from packets of which some are
missing; loops in groups of rows over pictures that are no whole groups.
`PROJECT.json` lists each of these
hazards at its line, with the properties that would show it going wrong, or with the
reason why none does: where the code does go wrong and no document says otherwise, the
model has the outcome, and the properties around it exclude it by name.

What makes each component correct, in a sentence: the preview never shares or
loses a frame, and stops; the stream delivers whole frames, always the newest and
none twice, and is silent when it is closed; payload assembly publishes frames
of the camera and nothing else; the connection gives back exactly what it took;
a preview streams the size and the mode it asked for; a picture arrives whole and
no loop leaves its buffer; a message has no seam; one device is opened once, and no
exception ends the application.

## 2. The modules

| module | models | companions |
|---|---|---|
| `Preview` | `UVCPreview.cpp` | `MCPreview` (instances), `PreviewProofs` (theorems) |
| `Stream` | `stream.c`, start to close | `StreamService`, `Mailbox` (what it promises), `StreamProofs` |
| `Payload` | `_uvc_process_payload` | `PayloadProofs` |
| `Camera` | `UVCCamera.cpp`, `init.c`, `device.c` | `CameraProofs` |
| `Descriptors` | `device.c`, from the descriptors to the tables | |
| `Negotiate` | `stream.c`, probe and commit; extends `Descriptors` | `MCNegotiate`, `NegotiateProofs` (of both) |
| `Pixels` | `frame.c`, `frame-mjpeg.c`, `copyFrame` | `MCPixels`, `PixelsProofs` |
| `HidReceive` | `libhidapi.cpp` | `MCHidReceive`, `HidReceiveProofs` |
| `UsbMonitor` | `USBDataSource.kt`, `USBRepository.kt`, `MainViewModel.kt` | `UsbMonitorProofs` |

Every module has its bugs beside it: operators such as `SwapUnlocked` or
`PreviewStoppedKeeping` stand before the definition they would replace and are used
by no specification.  `PROJECT.json` says which property each of them violates.

### Preview

`app`, `preview` and `callback` are the control points of the application
thread, the preview thread and the user thread of libuvc.  One action is the code
between two points where another thread can make a difference: a critical
section is one step, a read of a flag without the mutex is a step, a signal
without the mutex is a step.  `previewMutex` is held across steps in one place
only, `clearPreviewFrame`, which takes `poolMutex` for every frame.

A frame is a block `malloc` can return (`Frames`); `live` are the blocks in use;
`pool`, `previewFrames` and `held` (the five pointers that can hold a frame:
`captureQueue` and the local variables `copy`, `frame`, `frameMjpeg`,
`converted`) say where each is.  The pixels of a frame are the number of the
picture it shows.  The camera, libuvc below and memory are nondeterministic: a
negotiation, a start, an allocation, a copy, a conversion may fail.
`preparePreview` reads the request three times, in three steps (`Negotiate`,
`Configure`, `MeasureFrame`), for `ctrlMode`, `frameMode` and `bytesMode`.  A frame
whose picture the callback could not copy is queued all the same
(`UVCPreview.cpp:423` does not look at the result); it shows picture 0, which cannot
be decoded, and converting from it may crash (`ConvertFromNull`).  The crash of a
null frame in the MJPEG branch and of the uninitialised `mCaptureWindow` are
outcomes of their actions too.  The Java callback (`setFrameCallback`) and the copy
of rows into the surface are left out.  `resized`, `base`, `painted`, `sessions`
and `delivered` are history variables.

### Stream, StreamService, Mailbox

`caller`, `event` and `user` are the control points of the thread that opens and
closes the stream, of the event thread and of the user thread.  `slots` are the
entries of `strmh->transfers` that are not null, `inFlight` the transfers that
libusb has, `cancelled` those of them that libusb was asked to cancel.  The two
buffers hold the number of the frame whose data they contain.  `cb_mutex` is held
across steps by the user thread, while it copies.  libusb is modelled as the code
uses it: a submitted transfer completes, with data or with an error, and its
callback runs on the event thread, one at a time.

`StreamService` is what `UVCPreview` relies on: calls of the callback come one at
a time, begin only while the stream is on, and have ended when
`uvc_stop_streaming` returns.  `Stream` implements it under the refinement mapping
`Service`; `Preview` assumes the same service in its variables `stream` and
`callback`, and implements it too (`PreviewUsesTheService`): the two modules meet in
one interface, the preview starting and stopping the stream only where the stream
can be started and stopped.  `Mailbox` is what the two buffers and their sequence numbers are for:
a mailbox of one place in which a newer frame replaces an older one.  `Stream`
implements it, with its liveness, under the mapping `Box`.

### Payload

A frame is a sequence of units; a shot is a frame the camera sends.  The camera
sends a shot in payloads of any sizes, with or without metadata, with or without
the end-of-frame bit on the last; the channel loses payloads (a bad status, an
empty packet and the error bit all mean that the code skips it) or damages their
length.  `outbuf` holds units labelled with their shot and position, so that
`published` can be compared with what was sent.  The steps of
`_uvc_process_payload` are operators on a record, in the order of the code.

### Camera

One `UVCCamera` object, the calls the application makes on it, and the event
thread.  `connect` and `release` are one action per call into libuvc or the
operating system, each with its failure and the error path that follows.
`open` are the descriptors `dup` made for the camera, `foreign` those of the rest
of the process, of which 0 is one: `dup` returns the lowest that is free, or fails,
which `connect` does not notice before `libusb_wrap_sys_device` does.  `given` is the
descriptor of the connection of Java that `connect` duplicates.  Interfaces are claimed
on the open file both share, and that connection outlives the camera: closing the
duplicate releases no claim (`CloseFd`), and a new connection begins without one
(`NewConnection`).  A negotiation claims the streaming interface (`MayClaim`); only the
end of a stream that was opened releases it.  `unstreamed` records that none was since.
The event thread tests the flag, handles events inside libusb, or is in a
callback.  `libusb_close` is modelled as its implementation makes it usable here:
it interrupts the event thread, waits until no callback runs, and drops the
transfers of the handle.  The preview is reduced to its dependence on the event
thread.  All calls are made by one thread; that the application can make them
from two is what `UsbMonitor` is about.

### Descriptors and Negotiate

`Descriptors` is pure: `ScanControl` makes `stream_ifs` of the blocks of the control
interface and of the streaming interfaces it names, with one operator for each
function that parses; the loops over blocks are recursive functions of the number
of blocks parsed so far (`ParseBlocks`, `ScanBlocks`).  `Declared` is what the same
blocks say when they are read as the class specification means them.  The fields of
a block are fields of a record; blocks that feed the tables of controls, and blocks
that are not class-specific, pass.  A list of intervals ends at its first 0
(`Listed`).  The code uses `baInterfaceNr` as an index, and a frame goes to the last format whatever
it is; `ConfigAssumption` states when this is right.

A format has a place: its interface and where it is in it.  `Negotiate` goes through
the places in the order of the code's two loops; `left` are those not looked at.
It runs `uvc_get_stream_ctrl_format_size_fps` and `uvc_probe_stream_ctrl` on
the thread of the application (`setPreviewSize`) and on the preview thread
(`preparePreview`).  One step is one control transfer.  The camera takes a proposal
or puts one of its own settings in its place; a transfer may fail, and the code
ignores the result of `UVC_GET_MAX` and of both probe queries.  Both threads use the
one probe control of an interface.  What a reader of the code may overlook, and the
model has: `setPreviewSize` does nothing when only the rates change; a frame is found
again by its indices alone, in whichever interface comes first (`Ambiguous`); a
`min_fps` of 0 divides by zero.

### Pixels

One picture goes through `uvc_duplicate_frame` or `uvc_mjpeg2yuyv`, `uvc_yuyv2rgbx`
and `copyFrame`.  Each is a loop over rows, one step a group of rows.  A cell is four
pixels and holds which part of the picture it shows; buffers hold what was there
before until they are written, and `outside` records which loops left theirs.  Colour
is not modelled.  libjpeg gives any number of rows up to `MAX_READLINE`, or fails.

### HidReceive

One call of `receiveHidData` and the device.  A fragment is a number in the stream
the device sends; hidapi keeps a bounded queue and drops the oldest when it is full.
`pkt.byte`, `i`, `lastPktCnt` and `*resultData` are `buf`, `tries`, `last` and `data`.  A
packet that is given up half read sets `cut`; a read past `pkt.byte` sets `overran`,
after which anything may happen (`Smash`).  After a read error the thread loops for
ever (`ReadFails`).

### UsbMonitor

The main thread handles `StartCamera`, broadcasts and `Release`; the handler threads
`async` and `sec` run the tasks posted to them.  `blocks` is `mCtrlBLocks`, `handle`,
`preview` and `threads` are `mDeviceHandle`, `mPreview` and the preview threads of the
one `LibUvcCamera`; each of them is tested in one step and set in another, because
no lock is held.  `alive` is the process: an exception nobody catches ends it.  The
code throws in more places than it seems: for an empty device list, whose element
0 is taken on a handler thread; for a device that was unplugged before its task; for
a block that was put into the map and is gone when the map is read again (`Reread`); in
`onDisconnect`, which is `TODO()`, whenever a block is closed; in the device check, when
`destroy` comes between its test and the query.  `requestPermission` of the view model
loops on the main thread until the user has permitted all devices, asking throws, or
there is no intent to ask with (`GiveUp`).  `register` makes the intent of a context it
holds weakly: when that was collected before the first start (`CollectContext`), no
device is ever connected, and every start posts the device check once more.  A task has a
flag, `again`: those posted for a list read the map a second time.  `uses` records
what happened, so that the properties can say under which use nothing of this does.

## 3. The runs

| run | instance | what it shows |
|---|---|---|
| `preview_safety` | queue 2, pool 2, 9 blocks, 2 sessions, 3 pictures | types, ownership, leaks, memory, quiescence, no missed frame, agreement of modes, order of pictures |
| `preview_liveness` | queue 1, pool 1, 3 blocks, 2 sessions, 2 pictures | `stopPreview` returns, the queue drains |
| `stream_safety` | 3 transfers, 2 frames, 2 sessions | nothing after close, no lost wake-up, whole frames, one escaped transfer, `StreamService`, `Mailbox` with its liveness, the stop returns |
| `payload_assembly` | frames of 3 in a buffer of 5, 5 shots, loss and damage | no overflow, frames are not mixed, undamaged frames are whole |
| `payload_exact` | frames of 3 in a buffer of 3, no damage | **violated**: no frame is whole |
| `camera_connections` | 4 calls of `openCamera`, 2 foreign descriptors | references, descriptors, interfaces and the event thread balance, stop and release return |
| `camera_reconnect` | 2 calls of `openCamera` | **violated**: the second connection has no event thread |
| `negotiation` | 2 streaming interfaces, 2 negotiations besides the preview's, 1 failed transfer | a preview streams what was asked for and commits what was offered |
| `negotiation_range` | the same camera, no failure | **violated**: a rate in the range is not found |
| `pixels` | widths of 8, 12 and 16 pixels, heights 1 to 16, 3 windows, 6 sizes of a JPEG each | which part of a picture arrives, which sizes leave a buffer |
| `hid_receive` | 4 messages of 3, 2, 1 and 3 packets of 3 fragments, queue 2, threshold 4, 3 losses | no holes, no seams without loss, a fresh start returns |
| `usb_monitor` | 2 devices, 2 starts, 1 broadcast | when no thread throws, when one device is safe, rest after destroy |

Bounds, and why they are enough.  `MaxSessions`, `MaxPictures`, `MaxFrames`,
`MaxShots`, `MaxOpens`, `MaxCalls`, `MaxStarts`, `MaxBroadcasts` and `MaxLosses` count
calls, deliveries or failures.  Two sessions show what one leaves for the next.
Three pictures fill a queue of two and leave one to drop; in `preview_liveness` two do
so for a queue of one, and the second session may find the first one's in the queue
and fail.  Two frames fill the two
buffers of a stream.  Three transfers make one that completes, one that is cancelled
and one that is resubmitted.  Five shots allow one to be lost whole between two
others that carry the same identifier, and undamaged ones on both sides.  Four opens
give a failure before and after each success, and a stray close of descriptor 0
followed by a `dup` that returns 0.  Nine blocks are more than `Footprint` allows, so
that memory is not short in `preview_safety`; in `preview_liveness` three blocks make
it short.  Two negotiations of the application overlap the one of the preview and
follow it.  A threshold of four is one more than a packet has fragments, so that
an empty read or two do not end a packet and more do; messages that are wanted and
messages that are not alternate, with one of a single packet.  Two devices use both
handler threads, and two starts and a broadcast repeat a connection on the same one.
The heights have every kind of remainder by four and by eight.

Deadlock is not checked in these runs: the application may stop calling, the
camera may stop sending, the process may die, and a bounded instance ends.  That a call in progress
does not hang is what the liveness properties say.

Fairness.  A thread that can run is scheduled (weak fairness of each thread's
steps), which is what Android's scheduler does for threads that hold no lock
others spin on.  What the application calls and what the camera sends is not
fair.  In `Stream` libusb completes every transfer: each has a timeout of five
seconds, or is cancelled.  In `Camera` the step in which the event thread has
ended every transfer of a stream is strongly fair: the thread goes in and out of
`libusb_handle_events` for ever, and libusb handles what is pending in each round.
In `HidReceive` the thread in `receiveHidData` is weakly fair, and so is a device
that was told to send.  `Payload`, `Negotiate`, `Pixels` and `UsbMonitor` are checked
for safety only: their loops end, or wait for a user who may never answer.

### What the violated runs say

* `payload_exact`: `stream.c:793` tests `got_bytes + data_len <
  dwMaxVideoFrameSize`, so that the payload which would complete a frame of just
  that size is thrown away, although `stream.c:801` says "The EOF bit is set, so
  publish the complete frame" and `stream.c:800` tests for a full buffer, which
  cannot happen (`NoOverflow` holds in `payload_assembly`).  Cameras that report
  the exact size of an uncompressed frame are affected.
* `camera_reconnect`: `device.c:1875` sets `kill_handler_thread`, nothing resets
  it, and `UVCCamera` keeps the context.  After a release and a second `connect`
  the event thread ends at once; transfers are submitted and never complete, and
  `stopPreview` waits for them without end.  `device.c:503` says that the first
  device needs the thread.
* `negotiation_range`: for a frame without a list of intervals, `stream.c:563`
  computes the interval from `min_fps` in every round of the loop over `fps`.  Only
  one rate is ever tried, although `stream.c:509` says "maximum frames per second,
  this value is included".  The application asks for 1 to 30 frames a second, so
  that a camera that gives ranges is refused unless it can do one frame a second.

### What the passing properties admit

A property says what the code does, and some say it with an exception that the
reader should know:

* `StopReturns` of `Preview` excludes `LostWakeUp`: `stopPreview` clears the flag
  and signals without `previewMutex`, and when the preview thread has tested the
  flag and does not wait yet, it will wait and the join never returns.
* `StopReturns` and `QueueDrains` exclude the crashes.  `QueueDrains` also excludes a
  preview whose thread gave up: when the negotiation or the start of the stream fails,
  `bIsRunning` stays set, and a frame that an earlier session left in the queue stays
  there until the application calls `stopPreview`, and beyond, until a later session
  clears or takes it.
* `LeakBound` allows one lost frame for every session (`addCaptureFrame` after
  the flag was cleared) and one when the object is deleted (`captureQueue`).
* `ModesAgree` excludes a `setPreviewSize` between the three reads of the request in
  `preparePreview`.
* `DescriptorsBalance` allows the streaming interface to stay claimed after a
  negotiation that no stream followed, also when the camera was released
  (`unstreamed`).
* `TypeOK` of `UsbMonitor` bounds the copies of the device check by one only while there
  is an intent or a context; otherwise by the number of starts.
* `AtMostOneEscapes` allows one transfer to be resubmitted after the others were
  cancelled; the stop then takes as long as that transfer.
* `MixedAcrossLostShotsOnly` allows data of two shots in one frame when all that
  was sent between them was lost.
* `StrayCloseAfterFailure` allows `release` to close descriptor 0 after a
  `connect` that failed.  `StopReturns` of `Camera` excludes a connection after a
  release, which is what `camera_reconnect` is about.
* `StreamsWhatWasAsked` says nothing about the rate, which a camera may replace
  unnoticed, nor about the geometry when two interfaces use the same indices
  (`Ambiguous`).  `CommitsTheOffer` excludes two threads that negotiate at once: either
  may then commit what the other was answered.
* `PictureIsWhole` excludes the last group of a width that is no multiple of eight
  pixels, which `uvc_yuyv2rgbx` leaves out, and the columns a narrower JPEG lacks.
* `OverrunsWhenUnaligned` says of `copyFrame`, `uvc_duplicate_frame` and
  `uvc_mjpeg2yuyv` that they do leave their buffers for certain sizes.  For 1280 x 720,
  which the application asks for, none does, if the window's height is a multiple of
  eight or not less than 720.
* The HID device is taken to send the packets of a message one after the other, each
  as long as `pkt.byte` (`StreamAssumption`); a camera is taken to number its
  interfaces without gaps and to use no index twice (`ConfigAssumption`).  The code
  tests neither.
* `TornByLossOnly` allows seams in a message, and reads past `pkt.byte`, after a
  fragment was lost or a packet given up half read.  `StartsAfresh` excludes a read
  error, after which the thread never returns.
* `SurvivesOrdinaryUse` excludes a start without a device, a cable that is pulled and
  a release, each of which can end the process; `OneDeviceIsSafe` excludes two devices
  and a release, after which `mDeviceHandle` and `bIsRunning` are tested on one thread
  and set on the other.  `QuietAfterDestroy` allows a task that runs at the time to
  go on with the camera that was destroyed.

## 4. The theorems

Eight modules hold the proofs, one for each component.  The assumptions are the
`ASSUME`s of the component's module and no others, except where a theorem states one.
All safety invariants and action properties of the passing runs are proved; what is
only model-checked is listed at the end.

### Preview

`PreviewProofs` proves, for every finite set of frames, every capacity of the
queue and the pool and every bound on sessions and pictures (assumption
`ConstantsAssumption`), that `Spec` implies `[]TypeOK`, `[]SingleOwner`,
`[]Quiescent`, `[]NoMissedFrame`, `[]ModesAgree`, `[]LeakBound` and `[]Footprint`,
and the action property `PaintedInOrder`.

None of these is inductive.  The invariant that is has four parts:

* `CInv` is about control.  `ThreadInv`: the flag is up exactly while a preview
  thread was made and not asked to stop, and the thread exists until it is
  joined.  `StreamInv`: the stream is on at the points of the loop and off before
  them, and the callback thread works only while the stream is not off.
  `ModeInv`: what the modes have to do with each other at each point.  No frame
  occurs in it, and it is preserved without knowing anything about frames.
* `FInv` is about frames.  `PointerInv`: each local variable holds a frame at
  exactly the points where its thread has one - without it, assigning a pointer
  could lose a frame or leave a second reference.  `Ownership` is `SingleOwner`
  written one frame at a time, which is the form the provers can use; lemma
  `OwnershipIsSingleOwner` relates the two.  `NoMissedFrame` is part of it,
  since it is inductive together with the rest.
* `LeakInv` counts.  `MayLose` are the points from which a session can still lose a
  frame in `addCaptureFrame`; while it can, one fewer has been lost than there were
  sessions, which is what a step that loses one needs.  A step does one of nine
  things to the frames (`HandsOver`, `Loses`), and the proof goes by these and not by
  the actions.  `Footprint` is proved together with it: a frame is allocated only
  when the pool is empty.
* `OrderInv` is about pictures.  `QueueOrder`: the queue is in the order of delivery,
  newer than what is shown, and once `clearPreviewFrame` is over, newer than the
  stream.  `HandOrder`: what the preview thread has in hand is newer than what is
  shown and older than all that is queued, through decoding and conversion.
  `CallbackOrder`: what the callback is about to queue is the newest of all.  A frame
  without a picture has no place in that order, and is converted by no step that
  succeeds: the order is one of the frames that show something (`Filled`).

`GetFrame` and `RecycleFrame` are treated once (`GetKeepsOwnership`,
`RecycleKeepsOwnership` and the like); the steps of the threads cite them.
`Invariance` puts the first two parts together, `MemoryInvariance` and
`OrderInvariance` add the others, and the theorems follow.  That `Preview` uses the
stream as `StreamService` allows needs `StreamInv` only: a start finds it off and no
callback left, a stop finds it on.

### Stream

`StreamProofs` proves, for every number of transfers, frames and sessions
(assumption `StreamAssumption`), that `Spec` implies `[]TypeOK`,
`[]NothingAfterClose`, `[]NoLostWakeUp`, `[]FrameIntact`, `[]AtMostOneEscapes`, and
that `Stream` implements `StreamService`.  The inductive invariant `Inv` has one
part for each question, and each part one lemma for each thread:

* `CallerInv`: the flag is up from the start to the stop, and there is a user
  thread only between the start and the join.
* `TransferInv`: a transfer in flight or in a callback is in its slot, never in
  both, and the loop that submits has the rest to itself.  `slots = {}`, which is
  all `uvc_stream_stop` waits for, says so much only because of this:
  `NothingAfterClose` follows from it.
* `BufferInv` and `CopyInv`: data in a buffer belong to the frame its number says,
  and what is on hold does not change while the user thread has the mutex.
  `FrameIntact` alone is not inductive: it says nothing before the callback.
* `EscapeInv`: what a stop has not cancelled is the one transfer a callback was
  about to resubmit, and while one is, none has been.  `AtMostOneEscapes` follows.
* `NoLostWakeUp` is inductive given `CallerInv`.

The refinement is proved step by step under the same invariant: a start, a
frame taken under the mutex, the return of the callback, a stop and the join are
steps of the service, all others leave it alone.  `StreamIsAMailbox` proves the safety
part of `Mailbox` in the same way.  It needs one fact more, `NumberInv`: the sequence
numbers have no gaps and the user thread is never ahead, so that two numbers that
differ, which is all the code tests, mean a newer frame that it has not taken.

### Payload

`PayloadProofs` proves `[]TypeOK`, `[]NoOverflow` and `[]MixedAcrossLostShotsOnly`
for every size of frames and buffers and any number of shots (`PayloadAssumption`).
`MixedAcrossLostShotsOnly` is not inductive: `Past` adds that no data is from a shot
to come, and `Follows` what may be appended to `outbuf` - its last unit has the bit
`fid`, is behind what the camera sends next, and no shot after it that has the other
bit was seen.

`DamageIsLocal` proves the action property `WholeFrames` for `FrameSize < MaxSize`.  For
frames of exactly the size of the buffer it is false, as `payload_exact` shows.  It
looks two shots back: `SeenInv` says that a shot that is over and was not damaged was
seen, so that `fid` has its bit; `PrefixInv`, that after an undamaged shot the next
begins with an empty buffer and the buffer is then a prefix of it; `LeftInv`, that
what the first payload of a shot finds after two undamaged ones is the last of
them, whole, or nothing.  `FreshInv` is for the error bit a frame in progress keeps.

### Camera

`CameraProofs` proves `[]TypeOK`, `[]ReferencesBalance`, `[]DescriptorsBalance`,
`[]NoCallbackAfterFree` and `StrayCloseAfterFailure` for any set of foreign descriptors
and any number of connections.  `DeviceInv` says which steps of a connection are
done at each point of `connect` and `release`, `ClaimInv` that the streaming
interface is claimed during a preview, and without one only after a negotiation no
stream followed, `FileInv` who has which descriptor,
`EventInv` that there is an event thread only with a handle, and where it can be
while one is closed.  `dup` returns the lowest free descriptor; that there is one is
the pigeonhole principle (`LowestFreeIsFree`), by well-founded induction on finite
sets.

### HidReceive

`HidReceiveProofs` proves `[]TypeOK`, `[]CountsFollow` and `[]TornByLossOnly` for every
stream of packets, every fragmentation, threshold and queue (`HidAssumption`,
`StreamAssumption`).  For `CountsFollow` the invariant relates the headers of the
packets in `data` to `lastPktCnt`, which a bad packet leaves as it is while `data`
becomes empty.  For `TornByLossOnly` it is `SeamInv`: `BufferInv` says how much of a packet
is there from its size, as the code does; `MessageInv`, that packets without a seam
are of one message, and that a message is returned only when all of it is there;
`LosslessInv`, that without a loss the message, `pkt.byte` and the queue of hidapi are
one piece of the stream, and the packet in progress begins where one does.

### Negotiate and Descriptors

`NegotiateProofs` proves, for every camera (`ConfigAssumption`), every set of requests
and every number of calls and losses (`NegotiateAssumption`: the camera was opened):

* `ParsedExactly`: the tables hold the frames declared in the interfaces that are
  scanned, each under its format, and no others.
* `AnswerTheorem` and `OfferTheorem`: `[]StreamsWhatWasAsked` and `CommitsTheOffer`.
  `AnswerInv` says that from the search to the commit a control block names a declared
  frame of the size and the mode of its thread's request: a proposal of the camera's
  own may pass the test only with the same indices.  `OfferInv` says that, alone and
  without a loss, the thread has what the probe control holds.  `GeometryInv` needs
  `ParsedExactly`, because the frame is looked up in the tables again.
* `SearchIsExhaustive`: of the frames that have a list of intervals the search misses
  none of those before the first 0 - the half of `SearchFindsARate` that holds.

The tables are made by recursive functions.  The library's induction theorems take an
operator as a parameter, which the installed provers cannot instantiate; `LeastNatural`
takes the least member of a *set* of numbers instead (`WFMin`), and `SetInduction`
follows from it.  That the functions are what their equations say is proved in the
same way (`ScanDefined`, `ParseDefined`): a function on a prefix extends to the next.

### UsbMonitor

`UsbMonitorProofs` proves `[]TypeOK`, `[]SurvivesOrdinaryUse`, `[]OneDeviceIsSafe` and
`QuietAfterDestroy` for any number of devices, starts and broadcasts
(`MonitorAssumption`).  `MainInv` says what a release has done by each point,
`PermitInv` that every task in a queue is about a device that is permitted,
`EmptyInv` that none is about no device, `RereadInv` that a block a task is about to read
again is still in the map, and `OneInv` that the second handler rests and
that what the first has tested stays so until it sets it.

### Pixels

`PixelsProofs` proves `[]OverrunsWhenUnaligned` and `[]PictureIsWhole` for pictures and
windows of any size (`PixelsAssumption`).  For the first the invariant has one part
for each loop: how the rows done so far relate to the height (they are a multiple of
four in `DuplicateInv`), and that the loop has left its buffer exactly when they are
more.  A JPEG that is too wide by
whole groups leaves it in the last row and not before, which is why `DecodeInv`
tells the last row from the others.

For the second it is `PictureInv`: the rows done so far are rows of the picture, one
part for each of the three buffers, also when a loop goes past the last row.  It rests
on the arithmetic of offsets: a cell of the picture is inside its buffer, and two
cells never share an offset (`CellInside`, `CellUnique`).

### Only model-checked

* Liveness: `StopReturns` (of `Preview`, `Stream` and `Camera`), `QueueDrains`,
  `ReleaseReturns`, `StartsAfresh`, and the fairness in `MailboxSpec`, whose safety is
  `StreamIsAMailbox`.  The prover has no rules for fairness and `ENABLED` here.
* The properties of the violated runs, which are false there: `WholeFrames` for frames
  of the size of the buffer, `EventsHandled`, and `SearchFindsARate`.

## 5. What is not modelled

By size most of the repository is libjpeg-turbo, vendored without change: a
decoder in C whose states are its tables, with no concurrency and no protocol of this
program's.  It and libusb and hidapi (a git submodule that is not in the repository)
are third-party code; libusb and hidapi are modelled as far as `stream.c`, `device.c`
and `libhidapi.cpp` use them, and libjpeg as a source of rows that may fail.

Of the code that is the program's own, left out are: the control requests of
`ctrl.c`, each one synchronous USB request, and the diagnostics, which print; the
converters of `frame.c` and `frame-mjpeg.c` that no call of the program reaches
(`uvc_mjpeg2rgbx`, `yuyv2iyuv420P` and others); `uvc_stream_get_frame` and still images,
which nobody calls; the payloads of iSight cameras; the Java frame callback
(`setFrameCallback`), whose thread does nothing; `jHidApiAutoFraming`, which decodes
boxes into a block it then frees; the device filter, a predicate over descriptors;
the views and fragments; wording, names and strings everywhere.

The weak memory of unsynchronised flags (`bIsRunning`, `running`,
`kill_handler_thread`) is modelled as reads and writes that interleave; a compiler
that keeps such a flag in a register is not.  `mHasPermission` of the USB monitor is
left out, since it decides only about calls of listeners that do nothing.

## 6. Plan

Done: `Preview`, `Stream`, `Payload`, `Camera`, `HidReceive`, `Descriptors`,
`Negotiate`, `Pixels` and `UsbMonitor`, with the proofs of section 4.

To model, each with its proofs: the capacity of `ObjectArray`, against a sequence;
two `Camera` objects' worth of calls from two threads, which `UsbMonitor` reduces to
tests and assignments.
