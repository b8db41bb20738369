------------------------------- MODULE Preview -------------------------------
(***************************************************************************)
(* The native preview of one camera (UVCPreview.cpp): three threads that   *)
(* hand uvc_frame_t buffers to each other.                                 *)
(*                                                                         *)
(*   - the application thread calls startPreview, stopPreview,             *)
(*     setPreviewDisplay, setPreviewSize and finally deletes the object;   *)
(*   - the preview thread (previewThreadFunc) negotiates, starts the       *)
(*     stream, takes queued frames, paints them and stops the stream;      *)
(*   - the callback thread of libuvc (uvcPreviewFrameCallback) copies      *)
(*     every picture the camera delivers into a pool frame and queues it.  *)
(*                                                                         *)
(* A critical section that does nothing but compute is one step.  The      *)
(* only one that takes other locks on its way, clearPreviewFrame, is one   *)
(* step per frame, and previewMutex is held while preview = "clear".    *)
(***************************************************************************)
EXTENDS Integers, Sequences, FiniteSets, Functions

CONSTANTS
  Frames,         \* the uvc_frame_t blocks malloc can return
  NoFrame,        \* the null pointer
  MAX_FRAME,      \* capacity of previewFrames
  FRAME_POOL_SZ,  \* capacity of mFramePool
  MaxSessions,    \* bound: how many preview threads are ever created
  MaxPictures     \* bound: how many pictures the camera ever delivers

ASSUME ConstantsAssumption ==
  /\ IsFiniteSet(Frames)
  /\ NoFrame \notin Frames
  /\ MAX_FRAME \in Nat \ {0}
  /\ FRAME_POOL_SZ \in Nat
  /\ MaxSessions \in Nat
  /\ MaxPictures \in Nat

Modes == {"yuyv", "mjpeg"}

(* The pointers, outside the two arrays, that can hold a frame: the member
   captureQueue and the local variables of the three threads. *)
Pointers == {"captureQueue", "copy", "frame", "frameMjpeg", "converted"}

VARIABLES
  running,        \* bIsRunning
  window,         \* mPreviewWindow # nullptr
  requestMode,    \* what setPreviewSize asked for
  ctrlMode,       \* the format committed to the camera by the negotiation
  frameMode,      \* frameMode, read by doPreview
  bytesMode,      \* the mode frameBytes was computed for
  live,           \* blocks returned by malloc and not freed yet
  pool,           \* mFramePool
  previewFrames,  \* previewFrames, oldest first
  held,           \* the frame each pointer of Pointers refers to
  picture,        \* the picture a frame holds, 0 for none
  stream,         \* libuvc's stream: "off", "on", "stopping"
  app,            \* control point of the application thread
  preview,        \* control point of the preview thread
  callback,       \* control point of the callback thread
  delivered,      \* pictures the camera has delivered so far
  painted,        \* the last picture shown on the surface, 0 for none
  sessions,       \* preview threads created so far
  base,           \* value of delivered when the current stream was started
  resized         \* setPreviewSize raced with preparePreview in this session

frameVars == <<live, pool, previewFrames, held, picture>>
modeVars  == <<requestMode, ctrlMode, frameMode, bytesMode, resized>>
threads   == <<app, preview, callback>>
history   == <<delivered, painted, sessions, base>>
vars == <<running, window, modeVars, frameVars, stream, threads, history>>

-----------------------------------------------------------------------------
(* Frames and where they are *)

QueuedFrames == Range(previewFrames)
HeldFrames   == Range(held) \ {NoFrame}
Reachable    == pool \cup QueuedFrames \cup HeldFrames
Leaked       == live \ Reachable

(* One representative of a set of interchangeable blocks: which block malloc
   or the pool returns is of no consequence. *)
Any(S) == IF S = {} THEN {} ELSE {CHOOSE f \in S : TRUE}

KeepFrame(f) ==
  /\ picture' = [picture EXCEPT ![f] = 0]
  /\ pool' = pool \cup {f}
  /\ UNCHANGED live

FreeFrame(f) ==
  /\ picture' = [picture EXCEPT ![f] = 0]
  /\ live' = live \ {f}
  /\ UNCHANGED pool

(* recycleFrame that puts the frame nowhere. *)
LoseFrame(f) == picture' = [picture EXCEPT ![f] = 0] /\ UNCHANGED <<pool, live>>

(* recycleFrame: back into the pool, or freed when the pool is full.  What
   the frame showed is lost either way. *)
RecycleFrame(f) ==
  IF Cardinality(pool) < FRAME_POOL_SZ THEN KeepFrame(f) ELSE FreeFrame(f)

NewFrame(f) ==
  /\ f \in Any(Frames \ live)
  /\ live' = live \cup {f}
  /\ UNCHANGED pool

(* mFramePool read with an index, where getFrame calls last(), which pops. *)
PeekFrame(f) ==
  \/ f \in Any(pool) /\ UNCHANGED <<pool, live>>
  \/ pool = {} /\ NewFrame(f)

(* getFrame: a frame of the pool, else a new one. *)
GetFrame(f) ==
  \/ f \in Any(pool) /\ pool' = pool \ {f} /\ UNCHANGED live
  \/ pool = {} /\ NewFrame(f)

(* uvc_allocate_frame returned NULL: no memory is left. *)
OutOfMemory == pool = {} /\ live = Frames

(* previewMutex is held across steps by clearPreviewFrame alone. *)
PreviewMutexFree == preview # "clear"

AppGoto(point)      == app' = point /\ UNCHANGED <<preview, callback>>
PreviewGoto(point)  == preview' = point /\ UNCHANGED <<app, callback>>
CallbackGoto(point) == callback' = point /\ UNCHANGED <<app, preview>>

(* pthread_cond_signal(&previewSync), and the same forgotten. *)
NoSignal == UNCHANGED preview
Signal   == preview' = IF preview = "waiting" THEN "woken" ELSE preview

-----------------------------------------------------------------------------
Init ==
  /\ running = FALSE
  /\ window = FALSE
  /\ requestMode = "yuyv" /\ ctrlMode = "yuyv"
  /\ frameMode = "yuyv" /\ bytesMode = "yuyv"
  /\ live = {} /\ pool = {} /\ previewFrames = <<>>
  /\ held = [p \in Pointers |-> NoFrame]
  /\ picture = [f \in Frames |-> 0]
  /\ stream = "off"
  /\ app = "idle" /\ preview = "none" /\ callback = "idle"
  /\ delivered = 0 /\ painted = 0 /\ sessions = 0 /\ base = 0
  /\ resized = FALSE

-----------------------------------------------------------------------------
(* The application thread *)

(* setPreviewDisplay, with a window or with none. *)
SetPreviewDisplay(w) ==
  /\ app = "idle" /\ PreviewMutexFree
  /\ w # window
  /\ window' = w
  /\ UNCHANGED <<running, modeVars, frameVars, stream, threads, history>>

(* setPreviewSize: a request equal to the current one changes nothing.  The
   request is stored before the camera is asked whether it supports it. *)
SetPreviewSize(mode) ==
  /\ app = "idle"
  /\ mode # requestMode
  /\ requestMode' = mode
  /\ resized' = (resized \/ preview \in {"configure", "measure"})
  /\ UNCHANGED <<running, window, ctrlMode, frameMode, bytesMode, frameVars,
                 stream, threads, history>>

(* startPreview sets the flag before it knows whether a thread can be made. *)
StartPreview ==
  /\ app = "idle" /\ ~running
  /\ sessions < MaxSessions
  /\ running' = TRUE
  /\ AppGoto("create")
  /\ UNCHANGED <<window, modeVars, frameVars, stream, history>>

CreateThread ==
  /\ app = "create" /\ PreviewMutexFree
  /\ window
  /\ app' = "idle" /\ preview' = "prepare" /\ UNCHANGED callback
  /\ sessions' = sessions + 1
  /\ resized' = FALSE
  /\ UNCHANGED <<running, window, requestMode, ctrlMode, frameMode, bytesMode,
                 frameVars, stream, delivered, painted, base>>

(* No window, or pthread_create failed: the flag is withdrawn.  There is no
   preview thread the signal that follows could wake. *)
CreateThreadFails ==
  /\ app = "create" /\ PreviewMutexFree
  /\ running' = FALSE
  /\ app' = "idle" /\ Signal /\ UNCHANGED callback
  /\ UNCHANGED <<window, modeVars, frameVars, stream, history>>

(* stopPreview clears the flag and signals, both without previewMutex, then
   joins the preview thread; the window is released in every case. *)
StopPreview ==
  /\ app = "idle"
  /\ running' = FALSE
  /\ AppGoto(IF running THEN "signal" ELSE "release")
  /\ UNCHANGED <<window, modeVars, frameVars, stream, history>>

SignalStop ==
  /\ app = "signal"
  /\ app' = "join" /\ Signal /\ UNCHANGED callback
  /\ UNCHANGED <<running, window, modeVars, frameVars, stream, history>>

Join ==
  /\ app = "join" /\ preview = "exited"
  /\ app' = "release" /\ preview' = "none" /\ UNCHANGED callback
  /\ UNCHANGED <<running, window, modeVars, frameVars, stream, history>>

ReleaseWindow ==
  /\ app = "release" /\ PreviewMutexFree
  /\ window' = FALSE
  /\ AppGoto("idle")
  /\ UNCHANGED <<running, modeVars, frameVars, stream, history>>

(* The destructor: clearPreviewFrame, clearCaptureFrame (which does nothing
   unless the preview is running) and clearPool free what the arrays hold.
   The application deletes the object after stopPreview only.  mCaptureWindow
   was never initialised: releasing what it holds may crash the process. *)
Destroy ==
  /\ app = "idle" /\ ~running
  /\ window' = FALSE
  /\ \/ /\ live' = live \ (QueuedFrames \cup pool)
        /\ previewFrames' = <<>> /\ pool' = {}
        /\ picture' = [f \in Frames |-> IF f \in QueuedFrames THEN 0
                                                              ELSE picture[f]]
        /\ AppGoto("destroyed")
     \/ /\ AppGoto("crashed")
        /\ UNCHANGED <<live, previewFrames, pool, picture>>
  /\ UNCHANGED <<running, modeVars, held, stream, history>>

-----------------------------------------------------------------------------
(* The preview thread: preparePreview and doPreview *)

(* uvc_get_stream_ctrl_format_size_fps with the request of this moment. *)
Negotiate ==
  /\ preview = "prepare"
  /\ \/ ctrlMode' = requestMode /\ PreviewGoto("configure")
     \/ PreviewGoto("exited") /\ UNCHANGED ctrlMode
  /\ UNCHANGED <<running, window, requestMode, frameMode, bytesMode, resized,
                 frameVars, stream, history>>

(* preparePreview without the assignment of frameMode. *)
ConfigureNothing ==
  /\ preview = "configure"
  /\ PreviewGoto("measure")
  /\ UNCHANGED <<running, window, modeVars, frameVars, stream, history>>

(* The rest of preparePreview reads the request a second time ... *)
Configure ==
  /\ preview = "configure"
  /\ frameMode' = requestMode
  /\ PreviewGoto("measure")
  /\ UNCHANGED <<running, window, requestMode, ctrlMode, bytesMode, resized,
                 frameVars, stream, history>>

(* ... and a third time, for the size a picture must have. *)
MeasureFrame ==
  /\ preview = "measure"
  /\ bytesMode' = requestMode
  /\ PreviewGoto("startStream")
  /\ UNCHANGED <<running, window, requestMode, ctrlMode, frameMode, resized,
                 frameVars, stream, history>>

(* doPreview without the call of clearPreviewFrame. *)
StartStreamUncleared ==
  /\ preview = "startStream"
  /\ stream' = "on" /\ base' = delivered /\ PreviewGoto("loop")
  /\ UNCHANGED <<running, window, modeVars, frameVars, delivered, painted,
                 sessions>>

(* uvc_start_streaming_bandwidth; when it fails the thread ends and the flag
   stays set. *)
StartStream ==
  /\ preview = "startStream"
  /\ \/ stream' = "on" /\ base' = delivered /\ PreviewGoto("started")
     \/ PreviewGoto("exited") /\ UNCHANGED <<stream, base>>
  /\ UNCHANGED <<running, window, modeVars, frameVars, delivered, painted,
                 sessions>>

(* The stream runs before the queue is cleared: the callback may queue first. *)
LockPreview ==
  /\ preview = "started"
  /\ PreviewGoto("clear")
  /\ UNCHANGED <<running, window, modeVars, frameVars, stream, history>>

(* clearPreviewFrame, under previewMutex: what an earlier session left, and
   what the callback queued since the stream was started, is recycled. *)
ClearPreviewFrame ==
  /\ preview = "clear" /\ previewFrames # <<>>
  /\ RecycleFrame(Head(previewFrames))
  /\ previewFrames' = Tail(previewFrames)
  /\ UNCHANGED <<running, window, modeVars, held, stream, threads, history>>

ClearDone ==
  /\ preview = "clear" /\ previewFrames = <<>>
  /\ PreviewGoto("loop")
  /\ UNCHANGED <<running, window, modeVars, frameVars, stream, history>>

(* A loop that never tests isRunning(). *)
LoopForever ==
  /\ preview = "loop"
  /\ PreviewGoto("wait")
  /\ UNCHANGED <<running, window, modeVars, frameVars, stream, history>>

(* while (isRunning()), outside any lock. *)
LoopTest ==
  /\ preview = "loop"
  /\ PreviewGoto(IF running THEN "wait" ELSE "stopStream")
  /\ UNCHANGED <<running, window, modeVars, frameVars, stream, history>>

(* The frame waitPreviewFrame returns goes to the decoder in MJPEG mode and
   to the surface in YUYV mode. *)
TakeFrame ==
  IF running /\ previewFrames # <<>>
  THEN /\ held' = [held EXCEPT ![IF frameMode = "mjpeg" THEN "frameMjpeg"
                                 ELSE "frame"] = Head(previewFrames)]
       /\ previewFrames' = Tail(previewFrames)
       /\ PreviewGoto(IF frameMode = "mjpeg" THEN "decode" ELSE "draw")
  ELSE PreviewGoto("loop") /\ UNCHANGED <<held, previewFrames>>

(* waitPreviewFrame: an empty queue is waited on once, whatever the flag
   says, and the wait is not repeated when it ends. *)
WaitPreviewFrame ==
  /\ preview = "wait"
  /\ IF previewFrames = <<>>
     THEN PreviewGoto("waiting") /\ UNCHANGED <<held, previewFrames>>
     ELSE TakeFrame
  /\ UNCHANGED <<running, window, modeVars, live, pool, picture, stream,
                 history>>

WakeUp ==
  /\ preview = "woken"
  /\ TakeFrame
  /\ UNCHANGED <<running, window, modeVars, live, pool, picture, stream,
                 history>>

(* POSIX lets pthread_cond_wait return without a signal. *)
SpuriousWakeUp ==
  /\ preview = "waiting"
  /\ PreviewGoto("woken")
  /\ UNCHANGED <<running, window, modeVars, frameVars, stream, history>>

(* MJPEG: getFrame and uvc_mjpeg2yuyv.  A picture that is not MJPEG, is
   damaged or was not copied does not decode.  A null frame is not tested for. *)
Decode ==
  /\ preview = "decode"
  /\ \E f \in Frames :
       /\ GetFrame(f)
       /\ held' = [held EXCEPT !["frame"] = f]
       /\ \/ /\ ctrlMode = "mjpeg" /\ picture[held["frameMjpeg"]] # 0
             /\ picture' = [picture EXCEPT ![f] = picture[held["frameMjpeg"]]]
             /\ PreviewGoto("decoded")
          \/ /\ PreviewGoto("undecoded")
             /\ UNCHANGED picture
  /\ UNCHANGED <<running, window, modeVars, previewFrames, stream, history>>

DecodeIntoNull ==
  /\ preview = "decode" /\ OutOfMemory
  /\ PreviewGoto("decodeCrash")
  /\ UNCHANGED <<running, window, modeVars, frameVars, stream, history>>

(* The compressed frame is recycled whether or not it was decoded. *)
RecycleMjpeg ==
  /\ preview \in {"decoded", "undecoded"}
  /\ RecycleFrame(held["frameMjpeg"])
  /\ held' = [held EXCEPT !["frameMjpeg"] = NoFrame]
  /\ PreviewGoto(IF preview = "decoded" THEN "draw" ELSE "dropFrame")
  /\ UNCHANGED <<running, window, modeVars, previewFrames, stream, history>>

RecycleUndecoded ==
  /\ preview = "dropFrame"
  /\ RecycleFrame(held["frame"])
  /\ held' = [held EXCEPT !["frame"] = NoFrame]
  /\ PreviewGoto("loop")
  /\ UNCHANGED <<running, window, modeVars, previewFrames, stream, history>>

(* drawPreviewOne reads the window, converts without the lock, and reads the
   window again in copyToSurface. *)
ReadWindow ==
  /\ preview = "draw" /\ PreviewMutexFree
  /\ PreviewGoto(IF window THEN "convert" ELSE "capture")
  /\ UNCHANGED <<running, window, modeVars, frameVars, stream, history>>

Convert ==
  /\ preview = "convert"
  /\ \/ \E f \in Frames :
          /\ GetFrame(f)
          /\ held' = [held EXCEPT !["converted"] = f]
          /\ \/ /\ picture[held["frame"]] # 0
                /\ picture' = [picture EXCEPT ![f] = picture[held["frame"]]]
                /\ PreviewGoto("paint")
             \/ PreviewGoto("dropConverted") /\ UNCHANGED picture
     \/ /\ OutOfMemory
        /\ PreviewGoto("capture")
        /\ UNCHANGED <<live, pool, held, picture>>
  /\ UNCHANGED <<running, window, modeVars, previewFrames, stream, history>>

(* The callback could not copy the picture: what the frame holds is null, and
   the conversion reads from it if the format an earlier use left there is one
   it knows. *)
ConvertFromNull ==
  /\ preview = "convert" /\ picture[held["frame"]] = 0
  /\ PreviewGoto("convertCrash")
  /\ UNCHANGED <<running, window, modeVars, frameVars, stream, history>>

(* copyToSurface under previewMutex; ANativeWindow_lock may fail. *)
CopyToSurface ==
  /\ preview = "paint" /\ PreviewMutexFree
  /\ \/ window /\ painted' = picture[held["converted"]]
     \/ UNCHANGED painted
  /\ PreviewGoto("dropConverted")
  /\ UNCHANGED <<running, window, modeVars, frameVars, stream, delivered,
                 sessions, base>>

RecycleConverted ==
  /\ preview = "dropConverted"
  /\ RecycleFrame(held["converted"])
  /\ held' = [held EXCEPT !["converted"] = NoFrame]
  /\ PreviewGoto("capture")
  /\ UNCHANGED <<running, window, modeVars, previewFrames, stream, history>>

(* addCaptureFrame: the latest frame replaces the one before it.  When the
   preview no longer runs nothing takes the frame, and it is lost. *)
AddCaptureFrame ==
  /\ preview = "capture"
  /\ IF ~running
     THEN /\ held' = [held EXCEPT !["frame"] = NoFrame]
          /\ UNCHANGED <<live, pool, picture>>
     ELSE /\ held' = [held EXCEPT !["captureQueue"] = held["frame"],
                                  !["frame"] = NoFrame]
          /\ IF held["captureQueue"] = NoFrame
             THEN UNCHANGED <<live, pool, picture>>
             ELSE RecycleFrame(held["captureQueue"])
  /\ PreviewGoto("loop")
  /\ UNCHANGED <<running, window, modeVars, previewFrames, stream, history>>

(* A thread that ends its loop and does not stop the stream. *)
LeaveStream ==
  /\ preview = "stopStream"
  /\ PreviewGoto("exited")
  /\ UNCHANGED <<running, window, modeVars, frameVars, stream, history>>

(* uvc_stop_streaming: no further callback begins; it returns when the
   callback thread has ended. *)
StopStream ==
  /\ preview = "stopStream"
  /\ stream' = "stopping"
  /\ PreviewGoto("joinCallback")
  /\ UNCHANGED <<running, window, modeVars, frameVars, history>>

StreamStopped ==
  /\ preview = "joinCallback" /\ callback = "idle"
  /\ stream' = "off"
  /\ PreviewGoto("exited")
  /\ UNCHANGED <<running, window, modeVars, frameVars, history>>

-----------------------------------------------------------------------------
(* The callback thread of the stream: uvcPreviewFrameCallback *)

(* _uvc_user_caller has found the stream running and a new picture in it. *)
Deliver ==
  /\ callback = "idle" /\ stream = "on"
  /\ delivered < MaxPictures
  /\ delivered' = delivered + 1
  /\ CallbackGoto("test")
  /\ UNCHANGED <<running, window, modeVars, frameVars, stream, painted,
                 sessions, base>>

(* The tests before the copy.  A picture is refused when the preview does not
   run, or when it is broken; one that is not MJPEG is found too short if it
   was negotiated as YUYV and measured by the size of the other mode. *)
TestPicture ==
  /\ callback = "test"
  /\ \/ /\ running /\ (ctrlMode = "mjpeg" \/ bytesMode = "yuyv")
        /\ CallbackGoto("duplicate")
     \/ CallbackGoto("idle")
  /\ UNCHANGED <<running, window, modeVars, frameVars, stream, history>>

(* getFrame and uvc_duplicate_frame, whose result is ignored: when a frame of
   the pool cannot be resized it goes on without a picture.  A new frame has
   the size already. *)
DuplicatePicture ==
  /\ callback = "duplicate"
  /\ \/ \E f \in Frames :
          /\ GetFrame(f)
          /\ held' = [held EXCEPT !["copy"] = f]
          /\ \/ picture' = [picture EXCEPT ![f] = delivered]
             \/ f \in pool /\ picture' = [picture EXCEPT ![f] = 0]
          /\ CallbackGoto("add")
     \/ /\ OutOfMemory
        /\ CallbackGoto("idle")
        /\ UNCHANGED <<live, pool, held, picture>>
  /\ UNCHANGED <<running, window, modeVars, previewFrames, stream, history>>

(* addPreviewFrame: queued and signalled under previewMutex ... *)
AddPreviewFrame ==
  /\ callback = "add" /\ PreviewMutexFree
  /\ IF running /\ Len(previewFrames) < MAX_FRAME
     THEN /\ previewFrames' = Append(previewFrames, held["copy"])
          /\ held' = [held EXCEPT !["copy"] = NoFrame]
          /\ callback' = "idle" /\ Signal /\ UNCHANGED app
     ELSE /\ CallbackGoto("drop")
          /\ UNCHANGED <<previewFrames, held>>
  /\ UNCHANGED <<running, window, modeVars, live, pool, picture, stream,
                 history>>

(* addPreviewFrame without the recycleFrame after the unlock. *)
ForgetCopy ==
  /\ callback = "drop"
  /\ held' = [held EXCEPT !["copy"] = NoFrame]
  /\ CallbackGoto("idle")
  /\ UNCHANGED <<running, window, modeVars, live, pool, previewFrames, picture,
                 stream, history>>

(* ... or recycled once the lock is released. *)
DropCopy ==
  /\ callback = "drop"
  /\ RecycleFrame(held["copy"])
  /\ held' = [held EXCEPT !["copy"] = NoFrame]
  /\ CallbackGoto("idle")
  /\ UNCHANGED <<running, window, modeVars, previewFrames, stream, history>>

-----------------------------------------------------------------------------
AppStep ==
  \/ \E w \in BOOLEAN : SetPreviewDisplay(w)
  \/ \E mode \in Modes : SetPreviewSize(mode)
  \/ StartPreview \/ CreateThread \/ CreateThreadFails
  \/ StopPreview \/ SignalStop \/ Join \/ ReleaseWindow
  \/ Destroy

PrepareStep ==
  \/ Negotiate \/ Configure \/ MeasureFrame \/ StartStream
  \/ LockPreview \/ ClearPreviewFrame \/ ClearDone

LoopStep ==
  \/ LoopTest \/ WaitPreviewFrame \/ WakeUp
  \/ Decode \/ DecodeIntoNull \/ RecycleMjpeg \/ RecycleUndecoded
  \/ ReadWindow \/ Convert \/ ConvertFromNull \/ CopyToSurface \/ RecycleConverted
  \/ AddCaptureFrame \/ StopStream \/ StreamStopped

PreviewStep == PrepareStep \/ LoopStep

CallbackStep ==
  Deliver \/ TestPicture \/ DuplicatePicture \/ AddPreviewFrame \/ DropCopy

Crashed == app = "crashed" \/ preview \in {"decodeCrash", "convertCrash"}

Next == ~Crashed /\ (AppStep \/ PreviewStep \/ SpuriousWakeUp \/ CallbackStep)

Spec == Init /\ [][Next]_vars

(* The scheduler runs every thread that can run.  What the application calls
   next and whether the camera delivers anything is up to them, but a call in
   progress goes on. *)
AppProgress == CreateThread \/ CreateThreadFails \/ SignalStop \/ Join \/ ReleaseWindow
CallbackProgress == TestPicture \/ DuplicatePicture \/ AddPreviewFrame \/ DropCopy

FairSpec ==
  /\ Spec
  /\ WF_vars(~Crashed /\ AppProgress)
  /\ WF_vars(~Crashed /\ PreviewStep)
  /\ WF_vars(~Crashed /\ CallbackProgress)

-----------------------------------------------------------------------------
(* Properties *)

AppPoints == {"idle", "create", "signal", "join", "release", "destroyed", "crashed"}
LoopPoints ==
  {"loop", "wait", "waiting", "woken", "decode", "decoded", "undecoded",
   "dropFrame", "draw", "convert", "paint", "dropConverted", "capture"}
StreamPoints == LoopPoints \cup {"started", "clear", "stopStream", "joinCallback"}
PreviewPoints ==
  StreamPoints \cup {"none", "prepare", "configure", "measure", "startStream",
                    "exited", "decodeCrash", "convertCrash"}
CallbackPoints == {"idle", "test", "duplicate", "add", "drop"}

ControlOK ==
  /\ running \in BOOLEAN /\ window \in BOOLEAN /\ resized \in BOOLEAN
  /\ requestMode \in Modes /\ ctrlMode \in Modes
  /\ frameMode \in Modes /\ bytesMode \in Modes
  /\ stream \in {"off", "on", "stopping"}
  /\ app \in AppPoints /\ preview \in PreviewPoints /\ callback \in CallbackPoints

FramesOK ==
  /\ live \in SUBSET Frames
  /\ pool \in SUBSET Frames /\ Cardinality(pool) <= FRAME_POOL_SZ
  /\ previewFrames \in Seq(Frames) /\ Len(previewFrames) <= MAX_FRAME
  /\ held \in [Pointers -> Frames \cup {NoFrame}]
  /\ picture \in [Frames -> Nat]

HistoryOK == delivered \in Nat /\ painted \in Nat /\ sessions \in Nat /\ base \in Nat

(* Every variable is of its type, and neither array of frames outgrows the
   limit its user tests for. *)
TypeOK == ControlOK /\ FramesOK /\ HistoryOK

(* Whatever the three threads do, a frame is referred to from one place only
   (the pool, one slot of the queue, or one pointer), and never after it was
   freed: getFrame, recycleFrame and the hand-over through the queue and
   captureQueue neither share a buffer nor free it twice. *)
SingleOwner ==
  /\ Reachable \subseteq live
  /\ pool \cap (QueuedFrames \cup HeldFrames) = {}
  /\ QueuedFrames \cap HeldFrames = {}
  /\ IsInjective(previewFrames)
  /\ \A p, q \in Pointers : held[p] = held[q] /\ held[p] # NoFrame => p = q

(* addCaptureFrame loses the frame it is given when the preview was stopped
   meanwhile, which happens at most once in a session; nothing else loses
   one, and the destructor leaves behind one more, the captureQueue. *)
LeakBound ==
  /\ Cardinality(Leaked) <= sessions
  /\ app = "destroyed" => Cardinality(live) <= sessions + 1

(* Frames are allocated only when the pool is empty, so that all the frames
   ever alive at once are those the queue, captureQueue and the two threads
   hold, however large the pool is. *)
Footprint == Cardinality(live) <= MAX_FRAME + 4 + sessions

(* Once stopPreview has returned, or startPreview has failed, no thread of
   the preview is left, the stream is off, and no thread holds a frame: the
   object can be deleted or started again. *)
Quiescent ==
  app \in {"idle", "release", "destroyed"} /\ ~running =>
    /\ preview = "none" /\ callback = "idle" /\ stream = "off"
    /\ \A p \in Pointers \ {"captureQueue"} : held[p] = NoFrame

(* A thread that waits for a frame has none to wait for: addPreviewFrame never
   queues one without waking the preview thread. *)
NoMissedFrame == preview = "waiting" => previewFrames = <<>>

(* The preview thread decodes what the camera was told to send, and measures
   a picture by the size of that mode, unless setPreviewSize changed the
   request between the three times preparePreview reads it. *)
ModesAgree ==
  preview \in StreamPoints /\ ~resized => frameMode = ctrlMode /\ bytesMode = ctrlMode

(* Pictures reach the surface in the order of their delivery, and a picture
   an earlier session left in the queue is never shown in a later one. *)
PaintedInOrder == [][painted' # painted => painted' > painted /\ painted' > base]_vars

(* stopPreview signalled a thread that had read isRunning() as true and was
   not waiting yet; it waits now, nobody will signal it, and pthread_join
   never returns. *)
LostWakeUp == app = "join" /\ preview = "waiting"

(* stopPreview returns, unless that signal was lost or the process crashed. *)
StopReturns == app = "signal" ~> app = "idle" \/ LostWakeUp \/ Crashed

(* A frame in the queue of a running preview does not stay there, also when
   an earlier session left it behind.  The exception is a preview whose thread
   gave up, the negotiation or the start of the stream having failed: the flag
   stays set, and the frame stays queued until the application stops it. *)
QueueDrains ==
  \A f \in Frames :
    f \in QueuedFrames ~>
      f \notin QueuedFrames \/ ~running \/ preview = "exited" \/ Crashed
=============================================================================
