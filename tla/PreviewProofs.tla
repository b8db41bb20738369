---------------------------- MODULE PreviewProofs ----------------------------
(***************************************************************************)
(* Theorems about Preview, for every set of frames and every capacity of   *)
(* the queue and the pool.                                                 *)
(*                                                                         *)
(* The inductive invariant has two parts.  CInv is about control: how the  *)
(* points the three threads are at, the flag bIsRunning and the state of   *)
(* the stream go together; no frame occurs in it.  FInv is about frames,   *)
(* and needs CInv to know which pointer is null at which point.  Two more   *)
(* invariants rest on them: LeakInv counts what a session may still lose,  *)
(* and OrderInv follows the pictures from the camera to the surface.       *)
(***************************************************************************)
EXTENDS Preview, FiniteSetTheorems, SequenceTheorems, TLAPS

IdlePoints == {"none", "prepare", "configure", "measure", "startStream", "exited"}
FramePoints ==
  {"decoded", "undecoded", "dropFrame", "draw", "convert", "paint", "dropConverted",
   "capture", "convertCrash"}
MjpegPoints == {"decode", "decoded", "undecoded", "decodeCrash"}

(* The flag is up exactly while a thread was created and not asked to stop;
   there is a preview thread until stopPreview has joined it. *)
ThreadInv ==
  /\ app = "create" => running
  /\ app \in {"signal", "join", "release", "destroyed", "crashed"} => ~running
  /\ app \in {"create", "release", "destroyed", "crashed"} => preview = "none"
  /\ app = "idle" /\ ~running => preview = "none"

(* Only the preview thread starts and stops the stream, and the callback
   thread lives no longer than the stream. *)
StreamInv ==
  /\ preview \in IdlePoints => stream = "off"
  /\ preview \in LoopPoints \cup {"started", "clear", "stopStream", "decodeCrash", "convertCrash"}
       => stream = "on"
  /\ preview = "joinCallback" => stream = "stopping"
  /\ stream = "off" => callback = "idle"

ModeInv ==
  /\ preview = "configure" /\ ~resized => ctrlMode = requestMode
  /\ preview = "measure" /\ ~resized => frameMode = ctrlMode /\ ctrlMode = requestMode
  /\ preview \in StreamPoints \cup {"startStream"} /\ ~resized =>
       frameMode = ctrlMode /\ bytesMode = ctrlMode

CInv == ControlOK /\ ThreadInv /\ StreamInv /\ ModeInv

(* Each local variable holds a frame at the points where its thread has one. *)
PointerInv ==
  /\ held["copy"] # NoFrame <=> callback \in {"add", "drop"}
  /\ held["frame"] # NoFrame <=> preview \in FramePoints
  /\ held["frameMjpeg"] # NoFrame <=> preview \in MjpegPoints
  /\ held["converted"] # NoFrame <=> preview \in {"paint", "dropConverted"}

(* SingleOwner, one frame at a time: L is live, P the pool, q the queue and h
   the pointers. *)
Exclusive(L, P, q, h) ==
  /\ P \subseteq L
  /\ \A i \in DOMAIN q : q[i] \in L /\ q[i] \notin P
  /\ \A i, j \in DOMAIN q : q[i] = q[j] => i = j
  /\ \A p \in Pointers : h[p] # NoFrame =>
       /\ h[p] \in L /\ h[p] \notin P
       /\ \A i \in DOMAIN q : q[i] # h[p]
       /\ \A r \in Pointers : h[r] = h[p] => r = p

Ownership == Exclusive(live, pool, previewFrames, held)

FInv == FramesOK /\ PointerInv /\ Ownership /\ NoMissedFrame /\ HistoryOK

-----------------------------------------------------------------------------
(* Control *)

LEMMA ControlInit == Init => CInv
BY DEF Init, CInv, ControlOK, ThreadInv, StreamInv, ModeInv, Modes, AppPoints,
       PreviewPoints, StreamPoints, LoopPoints, CallbackPoints, IdlePoints

LEMMA ControlStopPreview ==
  ASSUME CInv, StopPreview
  PROVE  CInv'
<1>1. ControlOK'
  BY DEF CInv, ControlOK, StopPreview, AppGoto, AppPoints, modeVars
<1>2. ThreadInv'
  BY DEF CInv, ControlOK, ThreadInv, StopPreview, AppGoto
<1>3. StreamInv' /\ ModeInv'
  BY DEF CInv, StreamInv, ModeInv, StopPreview, AppGoto, modeVars
<1>4. QED
  BY <1>1, <1>2, <1>3 DEF CInv

(* No call of the application leaves a thread behind or stops the stream. *)
LEMMA ControlAppStep ==
  ASSUME CInv, AppStep
  PROVE  CInv'
<1>. USE DEF CInv, ControlOK, ThreadInv, StreamInv, ModeInv, Modes, AppPoints, PreviewPoints,
             StreamPoints, LoopPoints, CallbackPoints, IdlePoints, AppGoto, PreviewGoto,
             CallbackGoto, Signal, modeVars, history, threads
<1>1. CASE \E w \in BOOLEAN : SetPreviewDisplay(w)
  BY <1>1 DEF SetPreviewDisplay
<1>2. CASE \E mode \in Modes : SetPreviewSize(mode)
  BY <1>2 DEF SetPreviewSize
<1>3. CASE StartPreview
  BY <1>3 DEF StartPreview
<1>4. CASE CreateThread
  BY <1>4 DEF CreateThread
<1>5. CASE CreateThreadFails
  BY <1>5 DEF CreateThreadFails
<1>6. CASE StopPreview
  BY <1>6, ControlStopPreview
<1>7. CASE SignalStop
  BY <1>7 DEF SignalStop
<1>8. CASE Join
  BY <1>8 DEF Join
<1>9. CASE ReleaseWindow
  BY <1>9 DEF ReleaseWindow
<1>10. CASE Destroy
  BY <1>10 DEF Destroy
<1>11. QED
  BY <1>1, <1>2, <1>3, <1>4, <1>5, <1>6, <1>7, <1>8, <1>9, <1>10 DEF AppStep

(* The preview thread up to its loop. *)
LEMMA ControlPrepareStep ==
  ASSUME CInv, PrepareStep
  PROVE  CInv'
<1>. USE DEF CInv, ControlOK, ThreadInv, StreamInv, ModeInv, Modes, AppPoints, PreviewPoints,
             StreamPoints, LoopPoints, CallbackPoints, IdlePoints, AppGoto, PreviewGoto,
             CallbackGoto, Signal, modeVars, history, threads
<1>1. CASE Negotiate
  BY <1>1 DEF Negotiate
<1>2. CASE Configure
  BY <1>2 DEF Configure
<1>3. CASE StartStream
  BY <1>3 DEF StartStream
<1>4. CASE ClearPreviewFrame
  BY <1>4 DEF ClearPreviewFrame
<1>5. CASE ClearDone
  BY <1>5 DEF ClearDone
<1>6. CASE LockPreview
  BY <1>6 DEF LockPreview
<1>7. CASE MeasureFrame
  BY <1>7 DEF MeasureFrame
<1>8. QED
  BY <1>1, <1>2, <1>3, <1>4, <1>5, <1>6, <1>7 DEF PrepareStep

(* The loop of the preview thread, and the end of the stream. *)
LEMMA ControlLoopStep ==
  ASSUME CInv, LoopStep
  PROVE  CInv'
<1>. USE DEF CInv, ControlOK, ThreadInv, StreamInv, ModeInv, Modes, AppPoints, PreviewPoints,
             StreamPoints, LoopPoints, CallbackPoints, IdlePoints, AppGoto, PreviewGoto,
             CallbackGoto, Signal, modeVars, history, threads
<1>1. CASE LoopTest
  BY <1>1 DEF LoopTest
<1>2. CASE WaitPreviewFrame
  BY <1>2 DEF WaitPreviewFrame, TakeFrame
<1>3. CASE WakeUp
  BY <1>3 DEF WakeUp, TakeFrame
<1>4. CASE Decode
  BY <1>4 DEF Decode
<1>5. CASE DecodeIntoNull
  BY <1>5 DEF DecodeIntoNull
<1>6. CASE RecycleMjpeg
  BY <1>6 DEF RecycleMjpeg
<1>7. CASE RecycleUndecoded
  BY <1>7 DEF RecycleUndecoded
<1>8. CASE ReadWindow
  BY <1>8 DEF ReadWindow
<1>9. CASE Convert
  BY <1>9 DEF Convert
<1>10. CASE CopyToSurface
  BY <1>10 DEF CopyToSurface
<1>11. CASE RecycleConverted
  BY <1>11 DEF RecycleConverted
<1>12. CASE AddCaptureFrame
  BY <1>12 DEF AddCaptureFrame
<1>13. CASE StopStream
  BY <1>13 DEF StopStream
<1>14. CASE StreamStopped
  BY <1>14 DEF StreamStopped
<1>15. CASE ConvertFromNull
  BY <1>15 DEF ConvertFromNull
<1>16. QED
  BY <1>15, <1>1, <1>2, <1>3, <1>4, <1>5, <1>6, <1>7, <1>8, <1>9, <1>10, <1>11, <1>12, <1>13,
     <1>14 DEF LoopStep

(* The callback thread. *)
LEMMA ControlCallbackStep ==
  ASSUME CInv, CallbackStep
  PROVE  CInv'
<1>. USE DEF CInv, ControlOK, ThreadInv, StreamInv, ModeInv, Modes, AppPoints, PreviewPoints,
             StreamPoints, LoopPoints, CallbackPoints, IdlePoints, AppGoto, PreviewGoto,
             CallbackGoto, Signal, modeVars, history, threads
<1>1. CASE Deliver
  BY <1>1 DEF Deliver
<1>2. CASE TestPicture
  BY <1>2 DEF TestPicture
<1>3. CASE DuplicatePicture
  BY <1>3 DEF DuplicatePicture
<1>4. CASE AddPreviewFrame
  BY <1>4 DEF AddPreviewFrame
<1>5. CASE DropCopy
  BY <1>5 DEF DropCopy
<1>6. QED
  BY <1>1, <1>2, <1>3, <1>4, <1>5 DEF CallbackStep

-----------------------------------------------------------------------------
(* Frames *)

LEMMA OwnershipIsSingleOwner ==
  ASSUME FramesOK
  PROVE  SingleOwner <=> Ownership
<1>1. DOMAIN held = Pointers /\ NoFrame \notin Frames
  BY ConstantsAssumption DEF FramesOK
<1>2. previewFrames \in Seq(Frames) /\ live \subseteq Frames /\ pool \subseteq Frames
  BY DEF FramesOK
<1>3. ASSUME SingleOwner
      PROVE  Ownership
  BY <1>1, <1>2, <1>3 DEF SingleOwner, Ownership, Exclusive, Reachable, QueuedFrames, HeldFrames,
     Range, IsInjective
<1>4. ASSUME Ownership
      PROVE  SingleOwner
  <2>1. Reachable \subseteq live
    BY <1>1, <1>4 DEF Ownership, Exclusive, Reachable, QueuedFrames, HeldFrames, Range
  <2>2. /\ pool \cap (QueuedFrames \cup HeldFrames) = {}
        /\ QueuedFrames \cap HeldFrames = {}
    BY <1>1, <1>4 DEF Ownership, Exclusive, QueuedFrames, HeldFrames, Range
  <2>3. IsInjective(previewFrames)
    BY <1>4 DEF Ownership, Exclusive, IsInjective
  <2>4. QED
    BY <1>4, <2>1, <2>2, <2>3 DEF SingleOwner, Ownership, Exclusive
<1>5. QED
  BY <1>3, <1>4

(* The pool is finite, and adding a frame to one that is not full keeps it
   within its capacity: what recycleFrame relies on. *)
LEMMA PoolBound ==
  ASSUME NEW P \in SUBSET Frames, NEW f \in Frames,
         Cardinality(P) <= FRAME_POOL_SZ
  PROVE  /\ Cardinality(P \ {f}) <= FRAME_POOL_SZ
         /\ Cardinality(P) < FRAME_POOL_SZ => Cardinality(P \cup {f}) <= FRAME_POOL_SZ
<1>1. IsFiniteSet(P)
  BY FS_Subset, ConstantsAssumption
<1>2. Cardinality(P) \in Nat
  BY <1>1, FS_CardinalityType
<1>3. Cardinality(P \ {f}) <= Cardinality(P)
  BY <1>1, <1>2, FS_RemoveElement
<1>4. Cardinality(P \cup {f}) <= Cardinality(P) + 1
  <2>1. Cardinality(P \cup {f}) = IF f \in P THEN Cardinality(P) ELSE Cardinality(P) + 1
    BY <1>1, FS_AddElement, Zenon
  <2> QED BY <1>2, <2>1
<1>5. /\ Cardinality(P \ {f}) \in Nat
      /\ Cardinality(P \cup {f}) \in Nat
  BY <1>1, FS_AddElement, FS_RemoveElement, FS_CardinalityType
<1>6. QED
  BY <1>2, <1>3, <1>4, <1>5, ConstantsAssumption

(* The frame getFrame returns is referred to from nowhere: it leaves the pool,
   or it is new. *)
LEMMA GetFrameUnused ==
  ASSUME FramesOK, Ownership, NEW f, GetFrame(f)
  PROVE  /\ f \in Frames /\ f \notin QueuedFrames /\ f \notin HeldFrames
         /\ f \in live' /\ f \notin pool'
         /\ live' \in SUBSET Frames /\ live \subseteq live'
         /\ pool' \in SUBSET pool /\ Cardinality(pool') <= FRAME_POOL_SZ
<1>. USE OwnershipIsSingleOwner
<1>1. CASE f \in Any(pool) /\ pool' = pool \ {f} /\ UNCHANGED live
  <2>1. f \in pool
    BY <1>1 DEF Any
  <2>2. f \in Frames /\ f \in live /\ f \notin QueuedFrames /\ f \notin HeldFrames
    BY <2>1 DEF FramesOK, SingleOwner, Reachable
  <2>3. Cardinality(pool') <= FRAME_POOL_SZ
    BY <1>1, <2>2, PoolBound DEF FramesOK
  <2>4. QED
    BY <1>1, <2>2, <2>3 DEF FramesOK
<1>2. CASE pool = {} /\ NewFrame(f)
  <2>1. f \in Frames /\ f \notin live
    BY <1>2 DEF NewFrame, Any
  <2>2. f \notin QueuedFrames /\ f \notin HeldFrames
    BY <2>1 DEF SingleOwner, Reachable
  <2>3. QED
    BY <1>2, <2>1, <2>2 DEF NewFrame, FramesOK
<1>3. QED
  BY <1>1, <1>2 DEF GetFrame

(* recycleFrame of a live frame that is not in the pool: every other frame
   stays as it was. *)
LEMMA RecycleFrameEffect ==
  ASSUME FramesOK, pool \subseteq live, NEW f \in live, f \notin pool, RecycleFrame(f)
  PROVE  /\ live' \in SUBSET Frames /\ live \ {f} \subseteq live'
         /\ pool' \in SUBSET live' /\ pool' \subseteq pool \cup {f}
         /\ Cardinality(pool') <= FRAME_POOL_SZ
         /\ picture' \in [Frames -> Nat]
<1>1. picture' \in [Frames -> Nat]
  BY DEF FramesOK, RecycleFrame, KeepFrame, FreeFrame
<1>2. CASE Cardinality(pool) < FRAME_POOL_SZ
  BY <1>1, <1>2, PoolBound DEF FramesOK, RecycleFrame, KeepFrame
<1>3. CASE ~(Cardinality(pool) < FRAME_POOL_SZ)
  BY <1>1, <1>3 DEF FramesOK, RecycleFrame, FreeFrame
<1>4. QED
  BY <1>2, <1>3

(* The five ways a frame changes hands. *)

LEMMA GetKeepsOwnership ==
  ASSUME FramesOK, Ownership, NEW f, GetFrame(f), NEW p \in Pointers,
         held' = [held EXCEPT ![p] = f], UNCHANGED previewFrames
  PROVE  Ownership'
<1>1. /\ f \in live' /\ f \notin pool' /\ live \subseteq live' /\ pool' \subseteq pool
      /\ \A i \in DOMAIN previewFrames : previewFrames[i] # f
      /\ \A r \in Pointers : held[r] # NoFrame => held[r] # f
      /\ f \in Frames
  BY GetFrameUnused DEF FramesOK, QueuedFrames, HeldFrames, Range
<1>2. \A r \in Pointers : held'[r] = IF r = p THEN f ELSE held[r]
  BY DEF FramesOK
<1>3. f # NoFrame
  BY <1>1, ConstantsAssumption
<1>4. QED
  BY <1>1, <1>2, <1>3 DEF Ownership, Exclusive

LEMMA RecycleKeepsOwnership ==
  ASSUME FramesOK, Ownership, NEW p \in Pointers, held[p] # NoFrame,
         RecycleFrame(held[p]), UNCHANGED previewFrames,
         held' = [held EXCEPT ![p] = NoFrame]
  PROVE  Ownership'
<1>1. held[p] \in live /\ held[p] \notin pool /\ pool \subseteq live
  BY DEF Ownership, Exclusive
<1>2. /\ live \ {held[p]} \subseteq live'
      /\ pool' \subseteq live' /\ pool' \subseteq pool \cup {held[p]}
  BY <1>1, RecycleFrameEffect
<1>3. \A r \in Pointers : held'[r] = IF r = p THEN NoFrame ELSE held[r]
  BY DEF FramesOK
<1>4. QED
  BY <1>2, <1>3 DEF Ownership, Exclusive

LEMMA TakeKeepsOwnership ==
  ASSUME FramesOK, Ownership, NEW p \in Pointers, previewFrames # <<>>,
         held' = [held EXCEPT ![p] = Head(previewFrames)],
         previewFrames' = Tail(previewFrames), UNCHANGED <<live, pool>>
  PROVE  Ownership'
<1>1. previewFrames \in Seq(Frames) /\ Len(previewFrames) \in Nat \ {0}
  BY EmptySeq, LenProperties DEF FramesOK
<1>2. /\ DOMAIN previewFrames = 1..Len(previewFrames)
      /\ DOMAIN previewFrames' = 1..(Len(previewFrames) - 1)
      /\ \A i \in DOMAIN previewFrames' : previewFrames'[i] = previewFrames[i + 1]
      /\ Head(previewFrames) = previewFrames[1]
  BY <1>1
<1>3. \A i \in DOMAIN previewFrames' : i + 1 \in DOMAIN previewFrames /\ i + 1 # 1
  BY <1>1, <1>2
<1>4. \A r \in Pointers : held'[r] = IF r = p THEN previewFrames[1] ELSE held[r]
  BY <1>2 DEF FramesOK
<1>5. 1 \in DOMAIN previewFrames
  BY <1>1, <1>2
<1>6. \A i, j \in DOMAIN previewFrames' : previewFrames'[i] = previewFrames'[j] => i = j
  BY <1>1, <1>2, <1>3 DEF Ownership, Exclusive
<1>7. QED
  BY <1>2, <1>3, <1>4, <1>5, <1>6 DEF Ownership, Exclusive

LEMMA AddKeepsOwnership ==
  ASSUME FramesOK, Ownership, NEW p \in Pointers, held[p] # NoFrame,
         previewFrames' = Append(previewFrames, held[p]),
         held' = [held EXCEPT ![p] = NoFrame], UNCHANGED <<live, pool>>
  PROVE  Ownership'
<1>1. /\ previewFrames \in Seq(Frames) /\ Len(previewFrames) \in Nat
      /\ held[p] \in Frames
  BY DEF FramesOK
<1>2. /\ DOMAIN previewFrames = 1..Len(previewFrames)
      /\ DOMAIN previewFrames' = 1..(Len(previewFrames) + 1)
      /\ \A i \in DOMAIN previewFrames' :
           previewFrames'[i] = IF i \in DOMAIN previewFrames THEN previewFrames[i]
                                                            ELSE held[p]
      /\ \A i \in DOMAIN previewFrames' :
           i \in DOMAIN previewFrames \/ i = Len(previewFrames) + 1
  BY <1>1
<1>3. \A r \in Pointers : held'[r] = IF r = p THEN NoFrame ELSE held[r]
  BY DEF FramesOK
<1>4. QED
  BY <1>2, <1>3 DEF Ownership, Exclusive

LEMMA ClearKeepsOwnership ==
  ASSUME FramesOK, Ownership, previewFrames # <<>>, RecycleFrame(Head(previewFrames)),
         previewFrames' = Tail(previewFrames), UNCHANGED held
  PROVE  Ownership'
<1>1. previewFrames \in Seq(Frames) /\ Len(previewFrames) \in Nat \ {0}
  BY EmptySeq, LenProperties DEF FramesOK
<1>2. /\ DOMAIN previewFrames = 1..Len(previewFrames)
      /\ DOMAIN previewFrames' = 1..(Len(previewFrames) - 1)
      /\ \A i \in DOMAIN previewFrames' : previewFrames'[i] = previewFrames[i + 1]
      /\ Head(previewFrames) = previewFrames[1]
  BY <1>1
<1>3. \A i \in DOMAIN previewFrames' : i + 1 \in DOMAIN previewFrames /\ i + 1 # 1
  BY <1>1, <1>2
<1>4. 1 \in DOMAIN previewFrames
  BY <1>1, <1>2
<1>5. Head(previewFrames) \in live /\ Head(previewFrames) \notin pool /\ pool \subseteq live
  BY <1>2, <1>4 DEF Ownership, Exclusive
<1>6. /\ live \ {Head(previewFrames)} \subseteq live'
      /\ pool' \subseteq live' /\ pool' \subseteq pool \cup {Head(previewFrames)}
  BY <1>5, RecycleFrameEffect
<1>7. \A i \in DOMAIN previewFrames' : previewFrames'[i] # Head(previewFrames)
  BY <1>2, <1>3, <1>4 DEF Ownership, Exclusive
<1>8. \A i, j \in DOMAIN previewFrames' : previewFrames'[i] = previewFrames'[j] => i = j
  BY <1>1, <1>2, <1>3 DEF Ownership, Exclusive
<1>9. QED
  BY <1>2, <1>3, <1>4, <1>6, <1>7, <1>8 DEF Ownership, Exclusive

(* The pointers are typed, whichever way a frame changes hands. *)
LEMMA HeldType ==
  ASSUME FramesOK, NEW p \in Pointers, NEW f \in Frames \cup {NoFrame},
         held' = [held EXCEPT ![p] = f]
  PROVE  /\ held' \in [Pointers -> Frames \cup {NoFrame}]
         /\ held'[p] = f
         /\ \A r \in Pointers \ {p} : held'[r] = held[r]
BY DEF FramesOK

LEMMA QueueType ==
  ASSUME FramesOK, previewFrames # <<>>, previewFrames' = Tail(previewFrames)
  PROVE  /\ Head(previewFrames) \in Frames
         /\ previewFrames' \in Seq(Frames) /\ Len(previewFrames') <= MAX_FRAME
<1>1. previewFrames \in Seq(Frames) /\ Len(previewFrames) <= MAX_FRAME
  BY DEF FramesOK
<1>2. /\ Head(previewFrames) \in Frames
      /\ previewFrames' \in Seq(Frames) /\ Len(previewFrames') = Len(previewFrames) - 1
      /\ Len(previewFrames) \in Nat
  BY <1>1, HeadTailProperties, LenProperties
<1>3. QED
  BY <1>1, <1>2, ConstantsAssumption

LEMMA FramesUnchanged ==
  ASSUME FramesOK, Ownership, UNCHANGED frameVars
  PROVE  FramesOK' /\ Ownership'
BY DEF FramesOK, Ownership, frameVars

(* A pointer other than captureQueue is one of four. *)
LEMMA PointerNames ==
  {"captureQueue", "copy", "frame", "frameMjpeg", "converted"} = Pointers
BY DEF Pointers

LEMMA FramesInit == Init => FInv
<1>. SUFFICES ASSUME Init PROVE FInv
  OBVIOUS
<1>1. FramesOK
  <2>1. Cardinality(pool) <= FRAME_POOL_SZ /\ pool \in SUBSET Frames
    BY FS_EmptySet, ConstantsAssumption DEF Init
  <2>2. previewFrames \in Seq(Frames) /\ Len(previewFrames) <= MAX_FRAME
    BY ConstantsAssumption DEF Init
  <2>3. QED
    BY <2>1, <2>2 DEF FramesOK, Init
<1>2. PointerInv
  BY DEF Init, PointerInv, Pointers, FramePoints, MjpegPoints
<1>3. Ownership
  BY DEF Init, Ownership, Exclusive
<1>4. NoMissedFrame /\ HistoryOK
  BY DEF Init, NoMissedFrame, HistoryOK
<1>5. QED
  BY <1>1, <1>2, <1>3, <1>4 DEF FInv

(* The application touches frames in the destructor alone. *)
LEMMA FramesAppStep ==
  ASSUME CInv, FInv, AppStep
  PROVE  FInv'
<1>. USE DEF FInv, PointerInv, NoMissedFrame, HistoryOK, FramePoints, MjpegPoints, AppGoto,
             Signal, history, frameVars
<1>1. CASE \E w \in BOOLEAN : SetPreviewDisplay(w)
  BY <1>1, FramesUnchanged DEF SetPreviewDisplay, threads
<1>2. CASE \E mode \in Modes : SetPreviewSize(mode)
  BY <1>2, FramesUnchanged DEF SetPreviewSize, threads
<1>3. CASE StartPreview
  BY <1>3, FramesUnchanged DEF StartPreview
<1>4. CASE CreateThread
  BY <1>4, FramesUnchanged DEF CreateThread, CInv, ThreadInv
<1>5. CASE CreateThreadFails
  BY <1>5, FramesUnchanged DEF CreateThreadFails
<1>6. CASE StopPreview
  BY <1>6, FramesUnchanged DEF StopPreview
<1>7. CASE SignalStop
  BY <1>7, FramesUnchanged DEF SignalStop
<1>8. CASE Join
  BY <1>8, FramesUnchanged DEF Join
<1>9. CASE ReleaseWindow
  BY <1>9, FramesUnchanged DEF ReleaseWindow
<1>10. CASE Destroy
  <2>1. preview = "none" /\ UNCHANGED <<preview, callback, held, history>>
    BY <1>10 DEF Destroy, CInv, ThreadInv
  <2>2. CASE UNCHANGED <<live, previewFrames, pool, picture>>
    BY <2>1, <2>2, FramesUnchanged
  <2>3. CASE /\ live' = live \ (QueuedFrames \cup pool)
             /\ previewFrames' = <<>> /\ pool' = {}
             /\ picture' = [f \in Frames |-> IF f \in QueuedFrames THEN 0 ELSE picture[f]]
    <3>1. Cardinality(pool') <= FRAME_POOL_SZ
      BY <2>3, FS_EmptySet, ConstantsAssumption
    <3>2. previewFrames' \in Seq(Frames) /\ Len(previewFrames') <= MAX_FRAME
      BY <2>3, ConstantsAssumption
    <3>3. picture' \in [Frames -> Nat]
      BY <2>3 DEF FramesOK
    <3>4. FramesOK'
      BY <2>1, <2>3, <3>1, <3>2, <3>3 DEF FramesOK
    <3>5. Ownership'
      BY <2>1, <2>3 DEF Ownership, Exclusive, QueuedFrames, Range
    <3>6. QED
      BY <2>1, <2>3, <3>4, <3>5
  <2>4. QED
    BY <1>10, <2>2, <2>3 DEF Destroy
<1>11. QED
  BY <1>1, <1>2, <1>3, <1>4, <1>5, <1>6, <1>7, <1>8, <1>9, <1>10 DEF AppStep

LEMMA FramesPrepareStep ==
  ASSUME CInv, FInv, PrepareStep
  PROVE  FInv'
<1>. USE DEF FInv, PointerInv, NoMissedFrame, HistoryOK, FramePoints, MjpegPoints,
             PreviewGoto, history, threads, frameVars
<1>1. CASE Negotiate
  BY <1>1, FramesUnchanged DEF Negotiate
<1>2. CASE Configure
  BY <1>2, FramesUnchanged DEF Configure
<1>3. CASE StartStream
  BY <1>3, FramesUnchanged DEF StartStream
<1>4. CASE ClearPreviewFrame
  <2>1. /\ previewFrames # <<>> /\ RecycleFrame(Head(previewFrames))
        /\ previewFrames' = Tail(previewFrames)
        /\ UNCHANGED <<held, preview, callback, delivered, painted, sessions, base>>
        /\ preview = "clear"
    BY <1>4 DEF ClearPreviewFrame
  <2>2. Ownership'
    BY <2>1, ClearKeepsOwnership
  <2>3. FramesOK'
    <3>1. Head(previewFrames) \in live /\ Head(previewFrames) \notin pool
          /\ pool \subseteq live
      BY <2>1, EmptySeq DEF FramesOK, Ownership, Exclusive
    <3>2. QED
      BY <2>1, <3>1, QueueType, RecycleFrameEffect DEF FramesOK
  <2>4. QED
    BY <2>1, <2>2, <2>3
<1>5. CASE ClearDone
  BY <1>5, FramesUnchanged DEF ClearDone
<1>6. CASE LockPreview
  BY <1>6, FramesUnchanged DEF LockPreview
<1>7. CASE MeasureFrame
  BY <1>7, FramesUnchanged DEF MeasureFrame
<1>8. QED
  BY <1>1, <1>2, <1>3, <1>4, <1>5, <1>6, <1>7 DEF PrepareStep

(* What recycleFrame and getFrame do to the invariant, for a pointer p. *)
LEMMA RecyclePointer ==
  ASSUME FramesOK, Ownership, NEW p \in Pointers, held[p] # NoFrame,
         RecycleFrame(held[p]), UNCHANGED previewFrames,
         held' = [held EXCEPT ![p] = NoFrame]
  PROVE  FramesOK' /\ Ownership'
<1>1. held[p] \in live /\ held[p] \notin pool /\ pool \subseteq live
  BY DEF Ownership, Exclusive
<1>2. QED
  BY <1>1, RecycleFrameEffect, RecycleKeepsOwnership, HeldType DEF FramesOK

LEMMA GetPointer ==
  ASSUME FramesOK, Ownership, NEW f, GetFrame(f), NEW p \in Pointers,
         held' = [held EXCEPT ![p] = f], UNCHANGED previewFrames,
         picture' \in [Frames -> Nat]
  PROVE  FramesOK' /\ Ownership' /\ f # NoFrame
<1>1. f \in Frames /\ f # NoFrame
  BY GetFrameUnused, ConstantsAssumption
<1>2. /\ live' \in SUBSET Frames /\ pool' \in SUBSET Frames
      /\ Cardinality(pool') <= FRAME_POOL_SZ
  BY GetFrameUnused DEF FramesOK
<1>3. QED
  BY <1>1, <1>2, GetKeepsOwnership, HeldType DEF FramesOK

LEMMA FramesCallbackStep ==
  ASSUME CInv, FInv, CallbackStep
  PROVE  FInv'
<1>. USE DEF FInv, PointerInv, NoMissedFrame, HistoryOK, FramePoints, MjpegPoints,
             CallbackGoto, Signal, history, threads, frameVars
<1>1. CASE Deliver
  BY <1>1, FramesUnchanged DEF Deliver
<1>2. CASE TestPicture
  BY <1>2, FramesUnchanged DEF TestPicture
<1>3. CASE DuplicatePicture
  <2>1. /\ callback = "duplicate"
        /\ UNCHANGED <<preview, previewFrames, delivered, painted, sessions, base>>
    BY <1>3 DEF DuplicatePicture
  <2>2. CASE \E f \in Frames :
               /\ GetFrame(f)
               /\ held' = [held EXCEPT !["copy"] = f]
               /\ \E n \in {0, delivered} : picture' = [picture EXCEPT ![f] = n]
               /\ CallbackGoto("add")
    <3>1. PICK f \in Frames :
            /\ GetFrame(f)
            /\ held' = [held EXCEPT !["copy"] = f]
            /\ \E n \in {0, delivered} : picture' = [picture EXCEPT ![f] = n]
            /\ callback' = "add"
      BY <2>2
    <3>2. picture' \in [Frames -> Nat]
      BY <3>1 DEF FramesOK
    <3>3. FramesOK' /\ Ownership' /\ f # NoFrame
      BY <2>1, <3>1, <3>2, GetPointer, PointerNames
    <3>4. /\ held'["copy"] = f
          /\ \A r \in Pointers \ {"copy"} : held'[r] = held[r]
      BY <3>1, HeldType, PointerNames
    <3>5. PointerInv'
      BY <2>1, <3>1, <3>3, <3>4 DEF Pointers
    <3>6. QED
      BY <2>1, <3>3, <3>5
  <2>3. CASE CallbackGoto("idle") /\ UNCHANGED <<live, pool, held, picture>>
    BY <2>1, <2>3, FramesUnchanged
  <2>4. QED
    BY <1>3, <2>2, <2>3 DEF DuplicatePicture
<1>4. CASE AddPreviewFrame
  <2>1. /\ callback = "add"
        /\ UNCHANGED <<live, pool, picture, delivered, painted, sessions, base>>
    BY <1>4 DEF AddPreviewFrame
  <2>2. CASE /\ Len(previewFrames) < MAX_FRAME
             /\ previewFrames' = Append(previewFrames, held["copy"])
             /\ held' = [held EXCEPT !["copy"] = NoFrame]
             /\ callback' = "idle" /\ Signal
    <3>1. held["copy"] # NoFrame /\ held["copy"] \in Frames
      BY <2>1, PointerNames DEF FramesOK
    <3>2. Ownership'
      BY <2>1, <2>2, <3>1, AddKeepsOwnership, PointerNames
    <3>3. previewFrames' \in Seq(Frames) /\ Len(previewFrames') <= MAX_FRAME
      BY <2>2, <3>1, ConstantsAssumption DEF FramesOK
    <3>4. /\ held' \in [Pointers -> Frames \cup {NoFrame}]
          /\ held'["copy"] = NoFrame
          /\ \A r \in Pointers \ {"copy"} : held'[r] = held[r]
      BY <2>2, HeldType, PointerNames
    <3>5. FramesOK'
      BY <2>1, <3>3, <3>4 DEF FramesOK
    <3>6. PointerInv' /\ NoMissedFrame'
      BY <2>2, <3>4 DEF Pointers
    <3>7. QED
      BY <2>1, <3>2, <3>5, <3>6
  <2>3. CASE CallbackGoto("drop") /\ UNCHANGED <<previewFrames, held>>
    BY <2>1, <2>3, FramesUnchanged
  <2>4. QED
    BY <1>4, <2>2, <2>3 DEF AddPreviewFrame
<1>5. CASE DropCopy
  <2>1. /\ callback = "drop" /\ callback' = "idle"
        /\ RecycleFrame(held["copy"]) /\ held' = [held EXCEPT !["copy"] = NoFrame]
        /\ UNCHANGED <<preview, previewFrames, delivered, painted, sessions, base>>
    BY <1>5 DEF DropCopy
  <2>2. FramesOK' /\ Ownership'
    BY <2>1, RecyclePointer, PointerNames
  <2>3. /\ held'["copy"] = NoFrame
        /\ \A r \in Pointers \ {"copy"} : held'[r] = held[r]
    BY <2>1, HeldType, PointerNames
  <2>4. PointerInv'
    BY <2>1, <2>3 DEF Pointers
  <2>5. QED
    BY <2>1, <2>2, <2>4
<1>6. QED
  BY <1>1, <1>2, <1>3, <1>4, <1>5 DEF CallbackStep

(* waitPreviewFrame hands the oldest frame to the pointer of the mode. *)
LEMMA FramesTakeFrame ==
  ASSUME CInv, FInv, preview \in {"wait", "woken"}, TakeFrame,
         UNCHANGED <<live, pool, picture, delivered, painted, sessions, base>>
  PROVE  FInv'
<1>. USE DEF FInv, PointerInv, NoMissedFrame, HistoryOK, FramePoints, MjpegPoints,
             PreviewGoto
<1>1. CASE ~(running /\ previewFrames # <<>>)
  BY <1>1, FramesUnchanged DEF TakeFrame, frameVars
<1>2. CASE running /\ previewFrames # <<>> /\ frameMode = "mjpeg"
  <2>1. /\ held' = [held EXCEPT !["frameMjpeg"] = Head(previewFrames)]
        /\ previewFrames' = Tail(previewFrames)
        /\ preview' = "decode" /\ UNCHANGED callback
    BY <1>2 DEF TakeFrame
  <2>2. Head(previewFrames) \in Frames /\ Head(previewFrames) # NoFrame
    BY <1>2, <2>1, QueueType, ConstantsAssumption
  <2>3. Ownership'
    BY <1>2, <2>1, TakeKeepsOwnership, PointerNames
  <2>4. /\ held' \in [Pointers -> Frames \cup {NoFrame}]
        /\ held'["frameMjpeg"] # NoFrame
        /\ \A r \in Pointers \ {"frameMjpeg"} : held'[r] = held[r]
    BY <2>1, <2>2, HeldType, PointerNames
  <2>5. FramesOK'
    BY <1>2, <2>1, <2>4, QueueType DEF FramesOK
  <2>6. PointerInv'
    BY <2>1, <2>4 DEF Pointers
  <2>7. QED
    BY <2>1, <2>3, <2>5, <2>6
<1>3. CASE running /\ previewFrames # <<>> /\ frameMode # "mjpeg"
  <2>1. /\ held' = [held EXCEPT !["frame"] = Head(previewFrames)]
        /\ previewFrames' = Tail(previewFrames)
        /\ preview' = "draw" /\ UNCHANGED callback
    BY <1>3 DEF TakeFrame
  <2>2. Head(previewFrames) \in Frames /\ Head(previewFrames) # NoFrame
    BY <1>3, <2>1, QueueType, ConstantsAssumption
  <2>3. Ownership'
    BY <1>3, <2>1, TakeKeepsOwnership, PointerNames
  <2>4. /\ held' \in [Pointers -> Frames \cup {NoFrame}]
        /\ held'["frame"] # NoFrame
        /\ \A r \in Pointers \ {"frame"} : held'[r] = held[r]
    BY <2>1, <2>2, HeldType, PointerNames
  <2>5. FramesOK'
    BY <1>3, <2>1, <2>4, QueueType DEF FramesOK
  <2>6. PointerInv'
    BY <2>1, <2>4 DEF Pointers
  <2>7. QED
    BY <2>1, <2>3, <2>5, <2>6
<1>4. QED
  BY <1>1, <1>2, <1>3

(* addCaptureFrame keeps the frame, or loses it. *)
LEMMA FramesAddCaptureFrame ==
  ASSUME CInv, FInv, AddCaptureFrame
  PROVE  FInv'
<1>. USE DEF FInv, PointerInv, NoMissedFrame, HistoryOK, FramePoints, MjpegPoints,
             PreviewGoto, history
<1>1. /\ preview = "capture" /\ preview' = "loop"
      /\ UNCHANGED <<previewFrames, callback, delivered, painted, sessions, base>>
  BY DEF AddCaptureFrame
<1>2. held["frame"] # NoFrame /\ held["frame"] \in Frames
  BY <1>1, PointerNames DEF FramesOK
<1>3. CASE /\ held' = [held EXCEPT !["frame"] = NoFrame]
           /\ UNCHANGED <<live, pool, picture>>
  <2>1. /\ held' \in [Pointers -> Frames \cup {NoFrame}]
        /\ held'["frame"] = NoFrame
        /\ \A r \in Pointers \ {"frame"} : held'[r] = held[r]
    BY <1>3, HeldType, PointerNames
  <2>2. FramesOK'
    BY <1>1, <1>3, <2>1 DEF FramesOK
  <2>3. Ownership'
    BY <1>1, <1>3, <2>1 DEF Ownership, Exclusive
  <2>4. PointerInv'
    BY <1>1, <2>1 DEF Pointers
  <2>5. QED
    BY <1>1, <2>2, <2>3, <2>4
<1>4. CASE held' = [held EXCEPT !["captureQueue"] = held["frame"], !["frame"] = NoFrame]
  <2>1. /\ held' \in [Pointers -> Frames \cup {NoFrame}]
        /\ held'["captureQueue"] = held["frame"] /\ held'["frame"] = NoFrame
        /\ \A r \in Pointers \ {"frame", "captureQueue"} : held'[r] = held[r]
    BY <1>4, <1>2 DEF FramesOK, Pointers
  <2>2. PointerInv'
    BY <1>1, <2>1 DEF Pointers
  <2>3. CASE UNCHANGED <<live, pool, picture>> /\ held["captureQueue"] = NoFrame
    <3>1. FramesOK'
      BY <1>1, <2>1, <2>3 DEF FramesOK
    <3>2. Ownership'
      BY <1>1, <1>2, <2>1, <2>3 DEF Ownership, Exclusive, Pointers
    <3>3. QED
      BY <1>1, <2>2, <3>1, <3>2
  <2>4. CASE RecycleFrame(held["captureQueue"]) /\ held["captureQueue"] # NoFrame
    <3>1. /\ held["captureQueue"] \in live /\ held["captureQueue"] \notin pool
          /\ pool \subseteq live
      BY <2>4, PointerNames DEF Ownership, Exclusive
    <3>2. /\ live' \in SUBSET Frames /\ live \ {held["captureQueue"]} \subseteq live'
          /\ pool' \in SUBSET live' /\ pool' \subseteq pool \cup {held["captureQueue"]}
          /\ Cardinality(pool') <= FRAME_POOL_SZ
          /\ picture' \in [Frames -> Nat]
      BY <2>4, <3>1, RecycleFrameEffect
    <3>3. FramesOK'
      BY <1>1, <2>1, <3>2 DEF FramesOK
    <3>4. Ownership'
      BY <1>1, <1>2, <2>1, <2>4, <3>2 DEF Ownership, Exclusive, Pointers
    <3>5. QED
      BY <1>1, <2>2, <3>3, <3>4
  <2>5. QED
    BY <1>4, <2>3, <2>4, <1>3 DEF AddCaptureFrame
<1>5. QED
  BY <1>3, <1>4 DEF AddCaptureFrame

LEMMA FramesLoopStep ==
  ASSUME CInv, FInv, LoopStep
  PROVE  FInv'
<1>. USE DEF FInv, PointerInv, NoMissedFrame, HistoryOK, FramePoints, MjpegPoints,
             PreviewGoto, history, frameVars
<1>1. CASE LoopTest
  BY <1>1, FramesUnchanged DEF LoopTest
<1>2. CASE WaitPreviewFrame
  <2>1. CASE previewFrames = <<>>
    BY <1>2, <2>1, FramesUnchanged DEF WaitPreviewFrame
  <2>2. CASE previewFrames # <<>>
    BY <1>2, <2>2, FramesTakeFrame DEF WaitPreviewFrame
  <2>3. QED
    BY <2>1, <2>2
<1>3. CASE WakeUp
  BY <1>3, FramesTakeFrame DEF WakeUp
<1>4. CASE Decode
  <2>1. PICK f \in Frames :
          /\ GetFrame(f)
          /\ held' = [held EXCEPT !["frame"] = f]
          /\ \/ picture' = [picture EXCEPT ![f] = picture[held["frameMjpeg"]]]
             \/ UNCHANGED picture
    BY <1>4 DEF Decode
  <2>2. /\ preview = "decode" /\ preview' \in {"decoded", "undecoded"}
        /\ UNCHANGED <<callback, previewFrames, delivered, painted, sessions, base>>
    BY <1>4 DEF Decode
  <2>3. held["frameMjpeg"] \in Frames
    BY <2>2, PointerNames DEF FramesOK
  <2>4. picture' \in [Frames -> Nat]
    BY <2>1, <2>3 DEF FramesOK
  <2>5. FramesOK' /\ Ownership' /\ f # NoFrame
    BY <2>1, <2>2, <2>4, GetPointer, PointerNames
  <2>6. held'["frame"] = f /\ \A r \in Pointers \ {"frame"} : held'[r] = held[r]
    BY <2>1, HeldType, PointerNames
  <2>7. PointerInv'
    BY <2>2, <2>5, <2>6 DEF Pointers
  <2>8. QED
    BY <2>2, <2>5, <2>7
<1>5. CASE DecodeIntoNull
  BY <1>5, FramesUnchanged DEF DecodeIntoNull
<1>6. CASE RecycleMjpeg
  <2>1. /\ preview \in {"decoded", "undecoded"} /\ preview' \in {"draw", "dropFrame"}
        /\ RecycleFrame(held["frameMjpeg"])
        /\ held' = [held EXCEPT !["frameMjpeg"] = NoFrame]
        /\ UNCHANGED <<callback, previewFrames, delivered, painted, sessions, base>>
    BY <1>6 DEF RecycleMjpeg
  <2>2. FramesOK' /\ Ownership'
    BY <2>1, RecyclePointer, PointerNames
  <2>3. /\ held'["frameMjpeg"] = NoFrame
        /\ \A r \in Pointers \ {"frameMjpeg"} : held'[r] = held[r]
    BY <2>1, HeldType, PointerNames
  <2>4. PointerInv'
    BY <2>1, <2>3 DEF Pointers
  <2>5. QED
    BY <2>1, <2>2, <2>4
<1>7. CASE RecycleUndecoded
  <2>1. /\ preview = "dropFrame" /\ preview' = "loop"
        /\ RecycleFrame(held["frame"])
        /\ held' = [held EXCEPT !["frame"] = NoFrame]
        /\ UNCHANGED <<callback, previewFrames, delivered, painted, sessions, base>>
    BY <1>7 DEF RecycleUndecoded
  <2>2. FramesOK' /\ Ownership'
    BY <2>1, RecyclePointer, PointerNames
  <2>3. /\ held'["frame"] = NoFrame
        /\ \A r \in Pointers \ {"frame"} : held'[r] = held[r]
    BY <2>1, HeldType, PointerNames
  <2>4. PointerInv'
    BY <2>1, <2>3 DEF Pointers
  <2>5. QED
    BY <2>1, <2>2, <2>4
<1>8. CASE ReadWindow
  BY <1>8, FramesUnchanged DEF ReadWindow
<1>9. CASE Convert
  <2>1. /\ preview = "convert"
        /\ UNCHANGED <<callback, previewFrames, delivered, painted, sessions, base>>
    BY <1>9 DEF Convert
  <2>2. CASE /\ preview' = "capture"
             /\ UNCHANGED <<live, pool, held, picture>>
    BY <2>1, <2>2, FramesUnchanged
  <2>3. CASE \E f \in Frames :
               /\ GetFrame(f)
               /\ held' = [held EXCEPT !["converted"] = f]
               /\ \/ /\ picture' = [picture EXCEPT ![f] = picture[held["frame"]]]
                     /\ PreviewGoto("paint")
                  \/ PreviewGoto("dropConverted") /\ UNCHANGED picture
    <3>1. PICK f \in Frames :
            /\ GetFrame(f)
            /\ held' = [held EXCEPT !["converted"] = f]
            /\ preview' \in {"paint", "dropConverted"}
            /\ \/ picture' = [picture EXCEPT ![f] = picture[held["frame"]]]
               \/ UNCHANGED picture
      BY <2>3
    <3>2. held["frame"] \in Frames
      BY <2>1, PointerNames DEF FramesOK
    <3>3. picture' \in [Frames -> Nat]
      BY <3>1, <3>2 DEF FramesOK
    <3>4. FramesOK' /\ Ownership' /\ f # NoFrame
      BY <2>1, <3>1, <3>3, GetPointer, PointerNames
    <3>5. held'["converted"] = f /\ \A r \in Pointers \ {"converted"} : held'[r] = held[r]
      BY <3>1, HeldType, PointerNames
    <3>6. PointerInv'
      BY <2>1, <3>1, <3>4, <3>5 DEF Pointers
    <3>7. QED
      BY <2>1, <3>1, <3>4, <3>6
  <2>4. QED
    BY <1>9, <2>2, <2>3 DEF Convert
<1>10. CASE CopyToSurface
  <2>1. /\ preview = "paint" /\ preview' = "dropConverted"
        /\ painted' = picture[held["converted"]] \/ UNCHANGED painted
        /\ UNCHANGED <<callback, frameVars, delivered, sessions, base>>
    BY <1>10 DEF CopyToSurface
  <2>2. held["converted"] \in Frames
    BY <2>1, PointerNames DEF FramesOK
  <2>3. painted' \in Nat
    BY <2>1, <2>2 DEF FramesOK
  <2>4. QED
    BY <2>1, <2>3, FramesUnchanged
<1>11. CASE RecycleConverted
  <2>1. /\ preview = "dropConverted" /\ preview' = "capture"
        /\ RecycleFrame(held["converted"])
        /\ held' = [held EXCEPT !["converted"] = NoFrame]
        /\ UNCHANGED <<callback, previewFrames, delivered, painted, sessions, base>>
    BY <1>11 DEF RecycleConverted
  <2>2. FramesOK' /\ Ownership'
    BY <2>1, RecyclePointer, PointerNames
  <2>3. /\ held'["converted"] = NoFrame
        /\ \A r \in Pointers \ {"converted"} : held'[r] = held[r]
    BY <2>1, HeldType, PointerNames
  <2>4. PointerInv'
    BY <2>1, <2>3 DEF Pointers
  <2>5. QED
    BY <2>1, <2>2, <2>4
<1>12. CASE AddCaptureFrame
  BY <1>12, FramesAddCaptureFrame
<1>13. CASE StopStream
  BY <1>13, FramesUnchanged DEF StopStream
<1>14. CASE StreamStopped
  BY <1>14, FramesUnchanged DEF StreamStopped
<1>15. CASE ConvertFromNull
  BY <1>15, FramesUnchanged DEF ConvertFromNull
<1>16. QED
  BY <1>15, <1>1, <1>2, <1>3, <1>4, <1>5, <1>6, <1>7, <1>8, <1>9, <1>10, <1>11, <1>12, <1>13,
     <1>14 DEF LoopStep

-----------------------------------------------------------------------------
(* The theorems *)

(* The two parts of the invariant hold initially and every step of the
   specification preserves them. *)
THEOREM Invariance == Spec => [](CInv /\ FInv)
<1>1. Init => CInv /\ FInv
  BY ControlInit, FramesInit
<1>2. CInv /\ FInv /\ [Next]_vars => (CInv /\ FInv)'
  <2>. SUFFICES ASSUME CInv, FInv, [Next]_vars
                PROVE  CInv' /\ FInv'
    OBVIOUS
  <2>1. CASE AppStep
    BY <2>1, ControlAppStep, FramesAppStep
  <2>2. CASE PrepareStep
    BY <2>2, ControlPrepareStep, FramesPrepareStep
  <2>3. CASE LoopStep
    BY <2>3, ControlLoopStep, FramesLoopStep
  <2>4. CASE CallbackStep
    BY <2>4, ControlCallbackStep, FramesCallbackStep
  <2>5. CASE SpuriousWakeUp
    <3>1. CInv'
      BY <2>5 DEF SpuriousWakeUp, CInv, ControlOK, ThreadInv, StreamInv, ModeInv, PreviewGoto,
         PreviewPoints, StreamPoints, LoopPoints, IdlePoints, modeVars
    <3>2. FInv'
      BY <2>5, FramesUnchanged DEF SpuriousWakeUp, FInv, PointerInv, NoMissedFrame, HistoryOK,
         PreviewGoto, FramePoints, MjpegPoints, history, frameVars
    <3>3. QED
      BY <3>1, <3>2
  <2>6. CASE UNCHANGED vars
    <3>1. CInv'
      BY <2>6 DEF vars, threads, modeVars, CInv, ControlOK, ThreadInv, StreamInv, ModeInv
    <3>2. FInv'
      BY <2>6, FramesUnchanged DEF vars, threads, history, FInv, PointerInv, NoMissedFrame,
         HistoryOK, frameVars
    <3>3. QED
      BY <3>1, <3>2
  <2>7. QED
    BY <2>1, <2>2, <2>3, <2>4, <2>5, <2>6 DEF Next, PreviewStep
<1>3. QED
  BY <1>1, <1>2, PTL DEF Spec

(* Every variable of UVCPreview keeps its type; the pool and the queue keep
   their capacities. *)
THEOREM TypeCorrect == Spec => []TypeOK
<1>1. CInv /\ FInv => TypeOK
  BY DEF CInv, FInv, TypeOK
<1>2. QED
  BY <1>1, Invariance, PTL

(* No frame has two owners, and none is used after it was freed. *)
THEOREM SingleOwnerTheorem == Spec => []SingleOwner
<1>1. FInv => SingleOwner
  BY OwnershipIsSingleOwner DEF FInv
<1>2. QED
  BY <1>1, Invariance, PTL

(* A preview that was stopped, or could not be started, is quiescent. *)
THEOREM QuiescentTheorem == Spec => []Quiescent
<1>1. CInv /\ FInv => Quiescent
  BY DEF CInv, FInv, ThreadInv, StreamInv, PointerInv, Quiescent, Pointers, IdlePoints,
     FramePoints, MjpegPoints
<1>2. QED
  BY <1>1, Invariance, PTL

(* The preview thread never waits while a frame is queued. *)
THEOREM NoMissedFrameTheorem == Spec => []NoMissedFrame
<1>1. FInv => NoMissedFrame
  BY DEF FInv
<1>2. QED
  BY <1>1, Invariance, PTL

(* The mode of the loop is the mode that was negotiated, unless the request
   changed in between. *)
THEOREM ModesAgreeTheorem == Spec => []ModesAgree
<1>1. CInv => ModesAgree
  BY DEF CInv, ModeInv, ModesAgree
<1>2. QED
  BY <1>1, Invariance, PTL

-----------------------------------------------------------------------------
(* The stream: what UVCPreview sees of it is the service Stream implements *)

Busy == callback # "idle"

Service == INSTANCE StreamService WITH state <- stream, busy <- Busy

ServiceVars == <<stream, Busy>>

(* The preview thread starts the stream when it is off and stops it when it is on. *)
LEMMA PreviewUsesService ==
  ASSUME CInv, PreviewStep
  PROVE  [Service!Next]_ServiceVars
<1>. USE DEF ServiceVars, Busy, PreviewGoto
<1>1. CASE StartStream
  <2>1. stream = "off" /\ callback = "idle"
    BY <1>1 DEF StartStream, CInv, StreamInv, IdlePoints
  <2>2. Service!Start \/ UNCHANGED ServiceVars
    BY <1>1, <2>1 DEF StartStream, Service!Start
  <2> QED BY <2>2 DEF Service!Next
<1>2. CASE StopStream
  <2>1. stream = "on"
    BY <1>2 DEF StopStream, CInv, StreamInv
  <2>2. Service!Stop
    BY <1>2, <2>1 DEF StopStream, Service!Stop
  <2> QED BY <2>2 DEF Service!Next
<1>3. CASE StreamStopped
  <2>1. stream = "stopping"
    BY <1>3 DEF StreamStopped, CInv, StreamInv
  <2>2. Service!Stopped
    BY <1>3, <2>1 DEF StreamStopped, Service!Stopped
  <2> QED BY <2>2 DEF Service!Next
<1>4. CASE PrepareStep /\ ~StartStream
  BY <1>4 DEF PrepareStep, Negotiate, Configure, MeasureFrame, LockPreview, ClearPreviewFrame,
     ClearDone, threads
<1>5. CASE LoopStep /\ ~StopStream /\ ~StreamStopped
  BY <1>5 DEF LoopStep, LoopTest, WaitPreviewFrame, WakeUp, TakeFrame, Decode, DecodeIntoNull,
     RecycleMjpeg, RecycleUndecoded, ReadWindow, Convert, ConvertFromNull, CopyToSurface,
     RecycleConverted,
     AddCaptureFrame
<1> QED BY <1>1, <1>2, <1>3, <1>4, <1>5 DEF PreviewStep

(* The callback thread is called by the stream and returns to it. *)
LEMMA CallbackUsesService ==
  ASSUME CallbackStep
  PROVE  [Service!Next]_ServiceVars
<1>. USE DEF ServiceVars, Busy, CallbackGoto
<1>1. CASE Deliver
  <2>1. Service!Deliver
    BY <1>1 DEF Deliver, Service!Deliver
  <2> QED BY <2>1 DEF Service!Next
<1>2. CASE callback # "idle" /\ callback' = "idle"
  <2>1. UNCHANGED stream
    BY <1>2 DEF CallbackStep, Deliver, TestPicture, DuplicatePicture, AddPreviewFrame, DropCopy
  <2>2. Service!Return
    BY <1>2, <2>1 DEF Service!Return
  <2> QED BY <2>2 DEF Service!Next
<1>3. CASE ~Deliver /\ callback' # "idle"
  BY <1>3 DEF CallbackStep, TestPicture, DuplicatePicture, AddPreviewFrame, DropCopy
<1>4. ~Deliver => callback # "idle"
  BY DEF CallbackStep, TestPicture, DuplicatePicture, AddPreviewFrame, DropCopy
<1> QED BY <1>1, <1>2, <1>3, <1>4

(* UVCPreview uses the stream as StreamService allows, which Stream implements: it
   starts a stream when the one before is off and no callback is left of it, stops it
   once, and works on one picture of the callback at a time. *)
THEOREM PreviewUsesTheService == Spec => Service!Spec
<1>1. Init => Service!Init
  BY DEF Init, Service!Init, Busy
<1>2. CInv /\ FInv /\ [Next]_vars => [Service!Next]_ServiceVars
  <2>. SUFFICES ASSUME CInv, [Next]_vars PROVE [Service!Next]_ServiceVars
    OBVIOUS
  <2>1. CASE AppStep
    BY <2>1 DEF AppStep, SetPreviewDisplay, SetPreviewSize, StartPreview, CreateThread,
       CreateThreadFails, StopPreview, SignalStop, Join, ReleaseWindow, Destroy, AppGoto,
       Signal, ServiceVars, Busy, threads
  <2>2. CASE PreviewStep
    BY <2>2, PreviewUsesService
  <2>3. CASE CallbackStep
    BY <2>3, CallbackUsesService
  <2>4. CASE SpuriousWakeUp
    BY <2>4 DEF SpuriousWakeUp, PreviewGoto, ServiceVars, Busy
  <2>5. CASE UNCHANGED vars
    BY <2>5 DEF vars, threads, ServiceVars, Busy
  <2>6. QED
    BY <2>1, <2>2, <2>3, <2>4, <2>5 DEF Next
<1>3. QED
  BY <1>1, <1>2, Invariance, PTL DEF Spec, Service!Spec, ServiceVars, Busy

-----------------------------------------------------------------------------
(* Memory: which steps allocate, and which lose a frame *)

(* The ways a frame changes hands: a pointer p gets one, recycles it, takes it
   from the queue or adds it there; the queue is cleared by one; the capture
   frame is replaced, or lost; the destructor frees what the arrays hold. *)
Gets(p) ==
  /\ held[p] = NoFrame /\ UNCHANGED previewFrames
  /\ \E f \in Frames : GetFrame(f) /\ held' = [held EXCEPT ![p] = f]
Recycles(p) ==
  /\ held[p] # NoFrame /\ RecycleFrame(held[p])
  /\ held' = [held EXCEPT ![p] = NoFrame] /\ UNCHANGED previewFrames
Takes(p) ==
  /\ held[p] = NoFrame /\ previewFrames # <<>>
  /\ held' = [held EXCEPT ![p] = Head(previewFrames)]
  /\ previewFrames' = Tail(previewFrames) /\ UNCHANGED <<live, pool>>
Adds(p) ==
  /\ held[p] # NoFrame
  /\ previewFrames' = Append(previewFrames, held[p])
  /\ held' = [held EXCEPT ![p] = NoFrame] /\ UNCHANGED <<live, pool>>
Clears ==
  /\ previewFrames # <<>> /\ RecycleFrame(Head(previewFrames))
  /\ previewFrames' = Tail(previewFrames) /\ UNCHANGED held
Replaces ==
  /\ held["frame"] # NoFrame
  /\ held' = [held EXCEPT !["captureQueue"] = held["frame"], !["frame"] = NoFrame]
  /\ IF held["captureQueue"] = NoFrame THEN UNCHANGED <<live, pool>>
                                       ELSE RecycleFrame(held["captureQueue"])
  /\ UNCHANGED previewFrames
Loses ==
  /\ AddCaptureFrame /\ ~running
  /\ held["frame"] # NoFrame /\ held' = [held EXCEPT !["frame"] = NoFrame]
  /\ UNCHANGED <<live, pool, previewFrames>>
Frees ==
  /\ live' = live \ (QueuedFrames \cup pool)
  /\ previewFrames' = <<>> /\ pool' = {} /\ UNCHANGED held

HandsOver ==
  \/ UNCHANGED <<live, pool, previewFrames, held>>
  \/ \E p \in Pointers : Gets(p) \/ Recycles(p) \/ Takes(p) \/ Adds(p)
  \/ Clears \/ Replaces \/ Frees

(* Leaked, one frame at a time. *)
LEMMA LeakedMember ==
  ASSUME NEW L \in SUBSET Frames, NEW P, NEW q \in Seq(Frames),
         NEW h \in [Pointers -> Frames \cup {NoFrame}], NEW x
  PROVE  x \in L \ (P \cup Range(q) \cup (Range(h) \ {NoFrame})) <=>
           /\ x \in L /\ x \notin P
           /\ \A i \in DOMAIN q : q[i] # x
           /\ \A p \in Pointers : h[p] # x
<1>1. NoFrame \notin Frames
  BY ConstantsAssumption
<1>2. x \in Range(q) <=> \E i \in DOMAIN q : q[i] = x
  BY DEF Range
<1>3. x \in Range(h) <=> \E p \in Pointers : h[p] = x
  BY DEF Range
<1>4. QED
  BY <1>1, <1>2, <1>3

LEMMA LeakedPointwise ==
  ASSUME FramesOK, FramesOK', NEW x
  PROVE  /\ x \in Leaked <=>
              /\ x \in live /\ x \notin pool
              /\ \A i \in DOMAIN previewFrames : previewFrames[i] # x
              /\ \A p \in Pointers : held[p] # x
         /\ x \in Leaked' <=>
              /\ x \in live' /\ x \notin pool'
              /\ \A i \in DOMAIN previewFrames' : previewFrames'[i] # x
              /\ \A p \in Pointers : held'[p] # x
<1>1. Leaked = live \ (pool \cup Range(previewFrames) \cup (Range(held) \ {NoFrame}))
  BY DEF Leaked, Reachable, QueuedFrames, HeldFrames
<1>2. Leaked' = live' \ (pool' \cup Range(previewFrames') \cup (Range(held') \ {NoFrame}))
  BY DEF Leaked, Reachable, QueuedFrames, HeldFrames
<1>3. /\ live \in SUBSET Frames /\ previewFrames \in Seq(Frames)
      /\ held \in [Pointers -> Frames \cup {NoFrame}]
  BY DEF FramesOK
<1>4. /\ live' \in SUBSET Frames /\ previewFrames' \in Seq(Frames)
      /\ held' \in [Pointers -> Frames \cup {NoFrame}]
  BY DEF FramesOK
<1>5. x \in Leaked <=>
         /\ x \in live /\ x \notin pool
         /\ \A i \in DOMAIN previewFrames : previewFrames[i] # x
         /\ \A p \in Pointers : held[p] # x
  BY <1>1, <1>3, LeakedMember
<1>6. x \in live' \ (pool' \cup Range(previewFrames') \cup (Range(held') \ {NoFrame})) <=>
         /\ x \in live' /\ x \notin pool'
         /\ \A i \in DOMAIN previewFrames' : previewFrames'[i] # x
         /\ \A p \in Pointers : held'[p] # x
  BY <1>4, LeakedMember
<1>7. QED
  BY <1>2, <1>5, <1>6

(* What the tail of a queue, or the queue with one frame more, says of it. *)
LEMMA TailKeeps ==
  ASSUME NEW q \in Seq(Frames), q # <<>>, NEW i \in DOMAIN q, NEW x,
         x # Head(q), \A j \in DOMAIN Tail(q) : Tail(q)[j] # x
  PROVE  q[i] # x
<1>1. /\ DOMAIN q = 1..Len(q) /\ Len(q) \in Nat \ {0}
      /\ DOMAIN Tail(q) = 1..(Len(q) - 1)
      /\ \A j \in DOMAIN Tail(q) : Tail(q)[j] = q[j + 1]
      /\ Head(q) = q[1]
  BY EmptySeq, LenProperties
<1>2. CASE i = 1
  BY <1>1, <1>2
<1>3. CASE i # 1
  <2>1. i - 1 \in DOMAIN Tail(q) /\ (i - 1) + 1 = i
    BY <1>1, <1>3
  <2>2. Tail(q)[i - 1] = q[i]
    BY <1>1, <2>1
  <2>3. QED
    BY <2>1, <2>2
<1>4. QED
  BY <1>2, <1>3

LEMMA AppendKeeps ==
  ASSUME NEW q \in Seq(Frames), NEW f \in Frames, NEW x,
         \A j \in DOMAIN Append(q, f) : Append(q, f)[j] # x
  PROVE  x # f /\ \A i \in DOMAIN q : q[i] # x
<1>1. /\ DOMAIN q = 1..Len(q) /\ Len(q) \in Nat
      /\ DOMAIN Append(q, f) = 1..(Len(q) + 1)
      /\ Append(q, f)[Len(q) + 1] = f
      /\ \A i \in 1..Len(q) : Append(q, f)[i] = q[i]
  BY AppendProperties, LenProperties
<1>2. \A i \in DOMAIN q : i \in DOMAIN Append(q, f)
  BY <1>1
<1>3. Len(q) + 1 \in DOMAIN Append(q, f)
  BY <1>1
<1>4. QED
  BY <1>1, <1>2, <1>3

(* recycleFrame puts the frame into the pool or frees it: no other way out. *)
LEMMA RecycleAccounts ==
  ASSUME NEW f, RecycleFrame(f), NEW x, x \in live', x \notin pool'
  PROVE  x \in live /\ x \notin pool /\ x # f
BY DEF RecycleFrame, KeepFrame, FreeFrame

(* getFrame takes the frame out of the pool, or allocates it. *)
LEMMA GetAccounts ==
  ASSUME NEW f, GetFrame(f), NEW x, x \in live', x \notin pool', x # f
  PROVE  x \in live /\ x \notin pool
BY DEF GetFrame, NewFrame

(* No hand-over forgets a frame. *)
LEMMA HandOverLeaksNothing ==
  ASSUME FInv, FramesOK', HandsOver
  PROVE  Leaked' \subseteq Leaked
<1>. SUFFICES ASSUME NEW x \in Leaked' PROVE x \in Leaked
  OBVIOUS
<1>a. FramesOK
  BY DEF FInv
<1>b. /\ x \in live' /\ x \notin pool'
      /\ \A i \in DOMAIN previewFrames' : previewFrames'[i] # x
      /\ \A p \in Pointers : held'[p] # x
  BY <1>a, LeakedPointwise
<1>c. x # NoFrame
  BY <1>b, ConstantsAssumption DEF FramesOK
<1>. SUFFICES /\ x \in live /\ x \notin pool
              /\ \A i \in DOMAIN previewFrames : previewFrames[i] # x
              /\ \A p \in Pointers : held[p] # x
  BY <1>a, LeakedPointwise
<1>d. previewFrames \in Seq(Frames) /\ DOMAIN held = Pointers
  BY <1>a DEF FramesOK
<1>1. CASE UNCHANGED <<live, pool, previewFrames, held>>
  BY <1>1, <1>b
<1>2. ASSUME NEW p \in Pointers, Gets(p)
      PROVE  /\ x \in live /\ x \notin pool
             /\ \A i \in DOMAIN previewFrames : previewFrames[i] # x
             /\ \A r \in Pointers : held[r] # x
  <2>1. PICK f \in Frames : GetFrame(f) /\ held' = [held EXCEPT ![p] = f]
    BY <1>2 DEF Gets
  <2>2. x # f
    BY <2>1, <1>b, <1>d
  <2>3. x \in live /\ x \notin pool
    BY <2>1, <2>2, <1>b, GetAccounts
  <2>4. \A r \in Pointers : r # p => held'[r] = held[r]
    BY <2>1, <1>d
  <2>5. QED
    BY <2>3, <2>4, <1>2, <1>b, <1>c DEF Gets
<1>3. ASSUME NEW p \in Pointers, Recycles(p)
      PROVE  /\ x \in live /\ x \notin pool
             /\ \A i \in DOMAIN previewFrames : previewFrames[i] # x
             /\ \A r \in Pointers : held[r] # x
  <2>1. x \in live /\ x \notin pool /\ x # held[p]
    BY <1>3, <1>b, RecycleAccounts DEF Recycles
  <2>2. \A r \in Pointers : r # p => held'[r] = held[r]
    BY <1>3, <1>d DEF Recycles
  <2>3. QED
    BY <2>1, <2>2, <1>3, <1>b DEF Recycles
<1>4. ASSUME NEW p \in Pointers, Takes(p)
      PROVE  /\ x \in live /\ x \notin pool
             /\ \A i \in DOMAIN previewFrames : previewFrames[i] # x
             /\ \A r \in Pointers : held[r] # x
  <2>1. x # Head(previewFrames)
    BY <1>4, <1>b, <1>d DEF Takes
  <2>2. \A i \in DOMAIN previewFrames : previewFrames[i] # x
    BY <2>1, <1>4, <1>b, <1>d, TailKeeps DEF Takes
  <2>3. \A r \in Pointers : r # p => held'[r] = held[r]
    BY <1>4, <1>d DEF Takes
  <2>4. QED
    BY <2>2, <2>3, <1>4, <1>b, <1>c DEF Takes
<1>5. ASSUME NEW p \in Pointers, Adds(p)
      PROVE  /\ x \in live /\ x \notin pool
             /\ \A i \in DOMAIN previewFrames : previewFrames[i] # x
             /\ \A r \in Pointers : held[r] # x
  <2>1. held[p] \in Frames
    BY <1>5, <1>a DEF FramesOK, Adds
  <2>2. x # held[p] /\ \A i \in DOMAIN previewFrames : previewFrames[i] # x
    BY <2>1, <1>5, <1>b, <1>d, AppendKeeps DEF Adds
  <2>3. \A r \in Pointers : r # p => held'[r] = held[r]
    BY <1>5, <1>d DEF Adds
  <2>4. QED
    BY <2>2, <2>3, <1>5, <1>b DEF Adds
<1>6. CASE Clears
  <2>1. x \in live /\ x \notin pool /\ x # Head(previewFrames)
    BY <1>6, <1>b, RecycleAccounts DEF Clears
  <2>2. \A i \in DOMAIN previewFrames : previewFrames[i] # x
    BY <2>1, <1>6, <1>b, <1>d, TailKeeps DEF Clears
  <2>3. QED
    BY <2>1, <2>2, <1>6, <1>b DEF Clears
<1>7. CASE Replaces
  <2>1. /\ held'["captureQueue"] = held["frame"]
        /\ \A r \in Pointers \ {"frame", "captureQueue"} : held'[r] = held[r]
    BY <1>7, <1>d DEF Replaces, Pointers
  <2>2. x # held["frame"]
    BY <2>1, <1>b DEF Pointers
  <2>3. x \in live /\ x \notin pool /\ x # held["captureQueue"]
    BY <1>7, <1>b, <1>c, RecycleAccounts DEF Replaces
  <2>4. QED
    BY <2>1, <2>2, <2>3, <1>7, <1>b DEF Replaces
<1>8. CASE Frees
  <2>1. \A i \in DOMAIN previewFrames : previewFrames[i] \in QueuedFrames
    BY DEF QueuedFrames, Range
  <2>2. QED
    BY <1>8, <1>b, <2>1 DEF Frees
<1>9. QED
  BY <1>1, <1>2, <1>3, <1>4, <1>5, <1>6, <1>7, <1>8 DEF HandsOver

(* Every step hands frames over, except that addCaptureFrame may lose one. *)
LEMMA StepHandsOver ==
  ASSUME CInv, FInv, ~Crashed, [Next]_vars
  PROVE  HandsOver \/ Loses
<1>. USE DEF frameVars
<1>. PointerInv
  BY DEF FInv
<1>1. CASE UNCHANGED frameVars \/ UNCHANGED vars
  BY <1>1 DEF vars, HandsOver
<1>2. CASE Destroy
  BY <1>2 DEF Destroy, HandsOver, Frees
<1>3. CASE ClearPreviewFrame
  BY <1>3 DEF ClearPreviewFrame, HandsOver, Clears
<1>4. ASSUME TakeFrame, preview \in {"wait", "woken"}, UNCHANGED <<live, pool>>
      PROVE  HandsOver
  <2>1. held["frame"] = NoFrame /\ held["frameMjpeg"] = NoFrame
    BY <1>4 DEF PointerInv, FramePoints, MjpegPoints
  <2>2. CASE UNCHANGED <<held, previewFrames>>
    BY <1>4, <2>2 DEF HandsOver
  <2>3. CASE ~UNCHANGED <<held, previewFrames>>
    <3>1. Takes("frame") \/ Takes("frameMjpeg")
      BY <1>4, <2>1, <2>3 DEF TakeFrame, Takes
    <3>2. QED
      BY <3>1, PointerNames DEF HandsOver
  <2>4. QED
    BY <2>2, <2>3
<1>5. CASE WaitPreviewFrame \/ WakeUp
  BY <1>5, <1>4 DEF WaitPreviewFrame, WakeUp, HandsOver
<1>6. CASE Decode
  <2>1. Gets("frame")
    BY <1>6 DEF Decode, Gets, PointerInv, FramePoints
  <2>2. QED
    BY <2>1, PointerNames DEF HandsOver
<1>7. CASE RecycleMjpeg
  <2>1. Recycles("frameMjpeg")
    BY <1>7 DEF RecycleMjpeg, Recycles, PointerInv, MjpegPoints
  <2>2. QED
    BY <2>1, PointerNames DEF HandsOver
<1>8. CASE RecycleUndecoded
  <2>1. Recycles("frame")
    BY <1>8 DEF RecycleUndecoded, Recycles, PointerInv, FramePoints
  <2>2. QED
    BY <2>1, PointerNames DEF HandsOver
<1>9. CASE Convert
  <2>1. Gets("converted") \/ UNCHANGED <<live, pool, previewFrames, held>>
    BY <1>9 DEF Convert, Gets, PointerInv
  <2>2. QED
    BY <2>1, PointerNames DEF HandsOver
<1>10. CASE RecycleConverted
  <2>1. Recycles("converted")
    BY <1>10 DEF RecycleConverted, Recycles, PointerInv
  <2>2. QED
    BY <2>1, PointerNames DEF HandsOver
<1>11. CASE AddCaptureFrame
  <2>1. held["frame"] # NoFrame
    BY <1>11 DEF AddCaptureFrame, PointerInv, FramePoints
  <2>2. CASE running
    BY <1>11, <2>1, <2>2 DEF AddCaptureFrame, HandsOver, Replaces
  <2>3. CASE ~running
    BY <1>11, <2>1, <2>3 DEF AddCaptureFrame, Loses
  <2>4. QED
    BY <2>2, <2>3
<1>12. CASE DuplicatePicture
  <2>1. Gets("copy") \/ UNCHANGED <<live, pool, previewFrames, held>>
    BY <1>12 DEF DuplicatePicture, Gets, PointerInv
  <2>2. QED
    BY <2>1, PointerNames DEF HandsOver
<1>13. CASE AddPreviewFrame
  <2>1. Adds("copy") \/ UNCHANGED <<live, pool, previewFrames, held>>
    BY <1>13 DEF AddPreviewFrame, Adds, PointerInv
  <2>2. QED
    BY <2>1, PointerNames DEF HandsOver
<1>14. CASE DropCopy
  <2>1. Recycles("copy")
    BY <1>14 DEF DropCopy, Recycles, PointerInv
  <2>2. QED
    BY <2>1, PointerNames DEF HandsOver
<1>15. ASSUME AppStep, ~Destroy
       PROVE  UNCHANGED frameVars
  BY <1>15 DEF AppStep, SetPreviewDisplay, SetPreviewSize, StartPreview, CreateThread,
     CreateThreadFails, StopPreview, SignalStop, Join, ReleaseWindow
<1>16. ASSUME PrepareStep, ~ClearPreviewFrame
       PROVE  UNCHANGED frameVars
  BY <1>16 DEF PrepareStep, Negotiate, Configure, MeasureFrame, StartStream, LockPreview,
     ClearDone
<1>17. ASSUME LoopTest \/ DecodeIntoNull \/ ReadWindow \/ ConvertFromNull \/ CopyToSurface
               \/ StopStream \/ StreamStopped \/ SpuriousWakeUp \/ Deliver \/ TestPicture
       PROVE  UNCHANGED frameVars
  BY <1>17 DEF LoopTest, DecodeIntoNull, ReadWindow, ConvertFromNull, CopyToSurface, StopStream,
     StreamStopped, SpuriousWakeUp, Deliver, TestPicture
<1>18. QED
  BY <1>1, <1>2, <1>3, <1>5, <1>6, <1>7, <1>8, <1>9, <1>10, <1>11, <1>12, <1>13, <1>14,
     <1>15, <1>16, <1>17 DEF Next, PreviewStep, LoopStep, CallbackStep

(* A session may still lose a frame until its thread has found bIsRunning
   down at the head of the loop. *)
MayLose ==
  \/ preview \in {"prepare", "configure", "measure", "startStream", "started", "clear"}
  \/ preview \in LoopPoints /\ (preview = "loop" => running)

(* One frame is lost at most for each session over, and none yet in a session
   that may still lose one. *)
LeakInv ==
  /\ Cardinality(Leaked) + (IF MayLose THEN 1 ELSE 0) <= sessions
  /\ app = "destroyed" => pool = {} /\ previewFrames = <<>>

(* Only a new thread may lose a frame again. *)
LEMMA MayLoseStep ==
  ASSUME CInv, ~Crashed, [Next]_vars
  PROVE  \/ sessions' = sessions /\ (MayLose' => MayLose)
         \/ sessions' = sessions + 1 /\ ~MayLose
<1>. USE DEF MayLose, LoopPoints, PreviewGoto, CallbackGoto, AppGoto, Signal, history, threads
<1>1. CASE AppStep
  BY <1>1 DEF CInv, ThreadInv, AppStep, SetPreviewDisplay, SetPreviewSize, StartPreview,
     CreateThread, CreateThreadFails, StopPreview, SignalStop, Join, ReleaseWindow, Destroy
<1>2. CASE PrepareStep
  BY <1>2 DEF PrepareStep, Negotiate, Configure, MeasureFrame, StartStream, LockPreview,
     ClearPreviewFrame,
     ClearDone
<1>3. CASE LoopStep
  BY <1>3 DEF LoopStep, LoopTest, WaitPreviewFrame, WakeUp, TakeFrame, Decode, DecodeIntoNull,
     RecycleMjpeg, RecycleUndecoded, ReadWindow, Convert, ConvertFromNull, CopyToSurface,
     RecycleConverted,
     AddCaptureFrame, StopStream, StreamStopped
<1>4. CASE CallbackStep
  BY <1>4 DEF CallbackStep, Deliver, TestPicture, DuplicatePicture, AddPreviewFrame, DropCopy
<1>5. CASE SpuriousWakeUp \/ UNCHANGED vars
  BY <1>5 DEF SpuriousWakeUp, vars
<1>6. QED
  BY <1>1, <1>2, <1>3, <1>4, <1>5 DEF Next, PreviewStep

(* A set of frames is finite, and one frame more counts one more at most. *)
LEMMA FramesCount ==
  ASSUME NEW S \in SUBSET Frames, NEW T \in SUBSET Frames, NEW f
  PROVE  /\ Cardinality(S) \in Nat
         /\ S \subseteq T => Cardinality(S) <= Cardinality(T)
         /\ S \subseteq T \cup {f} => Cardinality(S) <= Cardinality(T) + 1
<1>1. IsFiniteSet(S) /\ IsFiniteSet(T)
  BY FS_Subset, ConstantsAssumption
<1>2. Cardinality(S) \in Nat /\ Cardinality(T) \in Nat
  BY <1>1, FS_CardinalityType
<1>3. ASSUME S \subseteq T PROVE Cardinality(S) <= Cardinality(T)
  BY <1>1, <1>3, FS_Subset
<1>4. ASSUME S \subseteq T \cup {f} PROVE Cardinality(S) <= Cardinality(T) + 1
  <2>1. /\ IsFiniteSet(T \cup {f})
        /\ Cardinality(T \cup {f}) = IF f \in T THEN Cardinality(T) ELSE Cardinality(T) + 1
    BY <1>1, FS_AddElement, Zenon
  <2>2. Cardinality(S) <= Cardinality(T \cup {f})
    BY <1>4, <2>1, FS_Subset
  <2>3. QED
    BY <1>2, <2>1, <2>2
<1>5. QED
  BY <1>2, <1>3, <1>4

LEMMA UnionCount ==
  ASSUME NEW S \in SUBSET Frames, NEW T \in SUBSET Frames, NEW m \in Nat, NEW n \in Nat,
         Cardinality(S) <= m, Cardinality(T) <= n
  PROVE  Cardinality(S \cup T) <= m + n
<1>1. IsFiniteSet(S) /\ IsFiniteSet(T)
  BY FS_Subset, ConstantsAssumption
<1>2. Cardinality(S \cup T) = Cardinality(S) + Cardinality(T) - Cardinality(S \cap T)
  BY <1>1, FS_Union
<1>3. /\ Cardinality(S) \in Nat /\ Cardinality(T) \in Nat
      /\ Cardinality(S \cap T) \in Nat
  BY FramesCount
<1>4. QED
  BY <1>2, <1>3

LEMMA LeakedType ==
  ASSUME FramesOK
  PROVE  Leaked \in SUBSET Frames
BY DEF FramesOK, Leaked

LEMMA LosesOne ==
  ASSUME FInv, FramesOK', Loses
  PROVE  Leaked' \subseteq Leaked \cup {held["frame"]}
<1>. SUFFICES ASSUME NEW x \in Leaked', x # held["frame"] PROVE x \in Leaked
  OBVIOUS
<1>1. FramesOK
  BY DEF FInv
<1>2. /\ x \in live' /\ x \notin pool'
      /\ \A i \in DOMAIN previewFrames' : previewFrames'[i] # x
      /\ \A p \in Pointers : held'[p] # x
  BY <1>1, LeakedPointwise
<1>3. \A p \in Pointers \ {"frame"} : held'[p] = held[p]
  BY <1>1 DEF Loses, FramesOK
<1>4. /\ x \in live /\ x \notin pool
      /\ \A i \in DOMAIN previewFrames : previewFrames[i] # x
      /\ \A p \in Pointers : held[p] # x
  BY <1>2, <1>3 DEF Loses
<1>5. QED
  BY <1>1, <1>4, LeakedPointwise

(* The object is not used after its destructor has run. *)
LEMMA DestroyedStep ==
  ASSUME CInv, LeakInv, ~Crashed, [Next]_vars
  PROVE  app' = "destroyed" => pool' = {} /\ previewFrames' = <<>>
<1>1. CASE app = "destroyed"
  <2>1. preview = "none" /\ stream = "off" /\ callback = "idle"
    BY <1>1 DEF CInv, ThreadInv, StreamInv, IdlePoints
  <2>2. ~AppStep
    BY <1>1 DEF AppStep, SetPreviewDisplay, SetPreviewSize, StartPreview, CreateThread,
       CreateThreadFails, StopPreview, SignalStop, Join, ReleaseWindow, Destroy
  <2>3. ~PrepareStep /\ ~SpuriousWakeUp
    BY <2>1 DEF PrepareStep, Negotiate, Configure, MeasureFrame, StartStream, LockPreview,
       ClearPreviewFrame,
       ClearDone, SpuriousWakeUp
  <2>4. ~LoopStep
    BY <2>1 DEF LoopStep, LoopTest, WaitPreviewFrame, WakeUp, TakeFrame, Decode, DecodeIntoNull,
       RecycleMjpeg, RecycleUndecoded, ReadWindow, Convert, ConvertFromNull, CopyToSurface,
       RecycleConverted,
       AddCaptureFrame, StopStream, StreamStopped
  <2>5. ~CallbackStep
    BY <2>1 DEF CallbackStep, Deliver, TestPicture, DuplicatePicture, AddPreviewFrame, DropCopy
  <2>6. UNCHANGED vars
    BY <2>2, <2>3, <2>4, <2>5 DEF Next, PreviewStep
  <2>7. QED
    BY <1>1, <2>6 DEF LeakInv, vars, frameVars
<1>2. CASE app # "destroyed"
  <2>1. CASE Destroy
    BY <2>1 DEF Destroy, AppGoto
  <2>2. CASE AppStep /\ ~Destroy
    BY <1>2, <2>2 DEF AppStep, SetPreviewDisplay, SetPreviewSize, StartPreview, CreateThread,
       CreateThreadFails, StopPreview, SignalStop, Join, ReleaseWindow, AppGoto, threads
  <2>3. CASE ~AppStep
    <3>1. app' = app
      BY <2>3 DEF Next, PreviewStep, PrepareStep, Negotiate, Configure, MeasureFrame,
         StartStream, LockPreview,
         ClearPreviewFrame, ClearDone, SpuriousWakeUp, LoopStep, LoopTest, WaitPreviewFrame,
         WakeUp, TakeFrame, Decode, DecodeIntoNull, RecycleMjpeg, RecycleUndecoded, ReadWindow,
         Convert, ConvertFromNull, CopyToSurface, RecycleConverted, AddCaptureFrame, StopStream,
         StreamStopped,
         CallbackStep, Deliver, TestPicture, DuplicatePicture, AddPreviewFrame, DropCopy,
         PreviewGoto, CallbackGoto, threads, vars
    <3>2. QED
      BY <1>2, <3>1
  <2>4. QED
    BY <2>1, <2>2, <2>3
<1>3. QED
  BY <1>1, <1>2

LEMMA LeakStep ==
  ASSUME CInv, FInv, FInv', LeakInv, ~Crashed, [Next]_vars
  PROVE  LeakInv'
<1>1. Leaked \in SUBSET Frames /\ Leaked' \in SUBSET Frames /\ FramesOK'
  BY LeakedType DEF FInv, Leaked, FramesOK
<1>2. Cardinality(Leaked) \in Nat /\ Cardinality(Leaked') \in Nat /\ sessions \in Nat
  BY <1>1, FramesCount DEF FInv, HistoryOK
<1>3. Cardinality(Leaked) + (IF MayLose THEN 1 ELSE 0) <= sessions
  BY DEF LeakInv
<1>4. CASE HandsOver
  <2>1. Cardinality(Leaked') <= Cardinality(Leaked)
    BY <1>1, <1>4, HandOverLeaksNothing, FramesCount
  <2>2. Cardinality(Leaked') + (IF MayLose' THEN 1 ELSE 0) <= sessions'
    BY <1>2, <1>3, <2>1, MayLoseStep
  <2>3. QED
    BY <2>2, DestroyedStep DEF LeakInv, MayLose
<1>5. CASE Loses
  <2>1. Cardinality(Leaked') <= Cardinality(Leaked) + 1
    BY <1>1, <1>5, LosesOne, FramesCount
  <2>2. MayLose
    BY <1>5 DEF Loses, AddCaptureFrame, MayLose, LoopPoints
  <2>3. ~MayLose' /\ sessions' = sessions
    BY <1>5 DEF Loses, AddCaptureFrame, PreviewGoto, history, MayLose, LoopPoints
  <2>4. Cardinality(Leaked') + (IF MayLose' THEN 1 ELSE 0) <= sessions'
    BY <1>2, <1>3, <2>1, <2>2, <2>3
  <2>5. QED
    BY <2>4, DestroyedStep DEF LeakInv, MayLose
<1>6. QED
  BY <1>4, <1>5, StepHandsOver

(* The queue holds no more frames than it is long. *)
LEMMA QueueCount ==
  ASSUME FramesOK
  PROVE  /\ QueuedFrames \in SUBSET Frames
         /\ Cardinality(QueuedFrames) <= MAX_FRAME
<1>1. /\ previewFrames \in [1..Len(previewFrames) -> Frames]
      /\ Len(previewFrames) \in Nat /\ Len(previewFrames) <= MAX_FRAME
  BY LenProperties DEF FramesOK
<1>2. QueuedFrames \in SUBSET Frames
  BY <1>1 DEF QueuedFrames, Range
<1>3. previewFrames \in Surjection(1..Len(previewFrames), QueuedFrames)
  BY <1>1 DEF Surjection, QueuedFrames, Range
<1>4. Cardinality(QueuedFrames) <= Len(previewFrames)
  BY <1>1, <1>3, FS_SurjCardinalityBound DEF ExistsSurjection
<1>5. Cardinality(QueuedFrames) \in Nat
  BY <1>2, FramesCount
<1>6. QED
  BY <1>1, <1>2, <1>4, <1>5, ConstantsAssumption

(* What no more than three pointers refer to. *)
LEMMA ThreeFrames ==
  ASSUME NEW S \in SUBSET Frames, NEW a, NEW b, NEW c, S \subseteq {a, b, c}
  PROVE  Cardinality(S) <= 3
<1>1. Cardinality(S) <= Cardinality(S \ {a}) + 1
  BY FramesCount
<1>2. Cardinality(S \ {a}) <= Cardinality((S \ {a}) \ {b}) + 1
  BY FramesCount
<1>3. Cardinality((S \ {a}) \ {b}) <= Cardinality({}) + 1
  BY FramesCount
<1>4. Cardinality({}) = 0
  BY FS_EmptySet
<1>5. /\ Cardinality(S) \in Nat /\ Cardinality(S \ {a}) \in Nat
      /\ Cardinality((S \ {a}) \ {b}) \in Nat
  BY FramesCount
<1>6. QED
  BY <1>1, <1>2, <1>3, <1>4, <1>5

(* When getFrame is called three pointers at most refer to a frame: those
   that do at the points of decoding, converting and duplicating. *)
LEMMA HeldCount ==
  ASSUME FInv, NEW p \in {"copy", "frame", "converted"}, held[p] = NoFrame,
         p = "frame" => preview = "decode", p = "converted" => preview = "convert"
  PROVE  /\ HeldFrames \in SUBSET Frames
         /\ Cardinality(HeldFrames) <= 3
<1>1. held \in [Pointers -> Frames \cup {NoFrame}] /\ NoFrame \notin Frames
  BY ConstantsAssumption DEF FInv, FramesOK
<1>2. HeldFrames \in SUBSET Frames
  BY <1>1 DEF HeldFrames, Range
<1>3. HeldFrames = {held[q] : q \in {r \in Pointers : held[r] # NoFrame}}
  BY <1>1 DEF HeldFrames, Range
<1>4. /\ held["frame"] # NoFrame <=> preview \in FramePoints
      /\ held["frameMjpeg"] # NoFrame <=> preview \in MjpegPoints
      /\ held["converted"] # NoFrame <=> preview \in {"paint", "dropConverted"}
  BY DEF FInv, PointerInv
<1>5. CASE p = "frame"
  <2>1. held["converted"] = NoFrame /\ held["frame"] = NoFrame
    BY <1>4, <1>5
  <2>2. HeldFrames \subseteq {held["captureQueue"], held["copy"], held["frameMjpeg"]}
    BY <1>3, <2>1 DEF Pointers
  <2>3. QED
    BY <1>2, <2>2, ThreeFrames
<1>6. CASE p = "converted"
  <2>1. held["converted"] = NoFrame /\ held["frameMjpeg"] = NoFrame
    BY <1>4, <1>6 DEF MjpegPoints
  <2>2. HeldFrames \subseteq {held["captureQueue"], held["copy"], held["frame"]}
    BY <1>3, <2>1 DEF Pointers
  <2>3. QED
    BY <1>2, <2>2, ThreeFrames
<1>7. CASE p = "copy"
  <2>1. held["converted"] = NoFrame \/ held["frameMjpeg"] = NoFrame
    BY <1>4 DEF MjpegPoints
  <2>2. \/ HeldFrames \subseteq {held["captureQueue"], held["frame"], held["frameMjpeg"]}
        \/ HeldFrames \subseteq {held["captureQueue"], held["frame"], held["converted"]}
    BY <1>3, <1>7, <2>1 DEF Pointers
  <2>3. QED
    BY <1>2, <2>2, ThreeFrames
<1>8. QED
  BY <1>5, <1>6, <1>7

(* Allocating is the only way the memory in use grows. *)
LEMMA AllocatesWhenPoolEmpty ==
  ASSUME NEW f, GetFrame(f)
  PROVE  live' = live \/ (pool = {} /\ live' = live \cup {f})
<1>1. CASE f \in Any(pool) /\ pool' = pool \ {f} /\ UNCHANGED live
  BY <1>1
<1>2. CASE pool = {} /\ NewFrame(f)
  BY <1>2 DEF NewFrame
<1>3. QED
  BY <1>1, <1>2 DEF GetFrame

LEMMA GetsFootprint ==
  ASSUME FInv, FramesOK', Footprint, LeakBound,
         NEW f, GetFrame(f), UNCHANGED sessions,
         NEW p \in {"copy", "frame", "converted"}, held[p] = NoFrame,
         p = "frame" => preview = "decode", p = "converted" => preview = "convert"
  PROVE  Footprint'
<1>1. live \in SUBSET Frames /\ live' \in SUBSET Frames /\ sessions \in Nat
  BY DEF FInv, FramesOK, HistoryOK
<1>2. CASE live' = live
  BY <1>2 DEF Footprint
<1>3. CASE pool = {} /\ live' = live \cup {f}
  <2>1. /\ QueuedFrames \in SUBSET Frames /\ Cardinality(QueuedFrames) <= MAX_FRAME
    BY QueueCount DEF FInv
  <2>2. HeldFrames \in SUBSET Frames /\ Cardinality(HeldFrames) <= 3
    BY HeldCount
  <2>3. Leaked \in SUBSET Frames /\ Cardinality(Leaked) <= sessions
    BY LeakedType DEF FInv, LeakBound
  <2>4. live \subseteq (QueuedFrames \cup HeldFrames) \cup Leaked
    BY <1>3 DEF Leaked, Reachable
  <2>5. Cardinality(live) <= MAX_FRAME + 3 + sessions
    <3>1. Cardinality(QueuedFrames \cup HeldFrames) <= MAX_FRAME + 3
      BY <2>1, <2>2, UnionCount, ConstantsAssumption
    <3>2. QueuedFrames \cup HeldFrames \in SUBSET Frames
      BY <2>1, <2>2
    <3>3. Cardinality((QueuedFrames \cup HeldFrames) \cup Leaked) <= MAX_FRAME + 3 + sessions
      <4>1. MAX_FRAME + 3 \in Nat
        BY ConstantsAssumption
      <4>2. QED
        BY <1>1, <2>3, <3>1, <3>2, <4>1, UnionCount
    <3>4. (QueuedFrames \cup HeldFrames) \cup Leaked \in SUBSET Frames
      BY <2>3, <3>2
    <3>5. QED
      BY <1>1, <2>4, <3>3, <3>4, FramesCount, ConstantsAssumption
  <2>6. Cardinality(live') <= Cardinality(live) + 1
    BY <1>1, <1>3, FramesCount
  <2>7. Cardinality(live) \in Nat /\ Cardinality(live') \in Nat
    BY <1>1, FramesCount
  <2>8. QED
    BY <1>1, <2>5, <2>6, <2>7, ConstantsAssumption DEF Footprint
<1>4. QED
  BY <1>2, <1>3, AllocatesWhenPoolEmpty

(* Every step that does not call getFrame leaves the memory in use no larger. *)
LEMMA FootprintStep ==
  ASSUME CInv, FInv, FInv', Footprint, LeakBound, ~Crashed, [Next]_vars
  PROVE  Footprint'
<1>1. /\ live \in SUBSET Frames /\ live' \in SUBSET Frames
      /\ sessions \in Nat /\ sessions' \in Nat /\ FramesOK'
  BY DEF FInv, FramesOK, HistoryOK
<1>2. sessions <= sessions'
  BY <1>1, MayLoseStep
<1>3. ASSUME live' \subseteq live
      PROVE  Footprint'
  <2>1. Cardinality(live') <= Cardinality(live)
    BY <1>1, <1>3, FramesCount
  <2>2. Cardinality(live) \in Nat /\ Cardinality(live') \in Nat
    BY <1>1, FramesCount
  <2>3. QED
    BY <1>1, <1>2, <2>1, <2>2, ConstantsAssumption DEF Footprint
<1>4. CASE Decode
  <2>1. PICK f \in Frames : GetFrame(f)
    BY <1>4 DEF Decode
  <2>2. held["frame"] = NoFrame /\ preview = "decode" /\ UNCHANGED sessions
    BY <1>4 DEF Decode, FInv, PointerInv, FramePoints, history
  <2>3. QED
    BY <1>1, <2>1, <2>2, GetsFootprint
<1>5. CASE Convert
  <2>1. CASE live' = live
    BY <2>1, <1>3
  <2>2. CASE \E f \in Frames : GetFrame(f)
    <3>1. held["converted"] = NoFrame /\ preview = "convert" /\ UNCHANGED sessions
      BY <1>5 DEF Convert, FInv, PointerInv, history
    <3>2. QED
      BY <1>1, <2>2, <3>1, GetsFootprint
  <2>3. QED
    BY <1>5, <2>1, <2>2 DEF Convert
<1>6. CASE DuplicatePicture
  <2>1. CASE live' = live
    BY <2>1, <1>3
  <2>2. CASE \E f \in Frames : GetFrame(f)
    <3>1. held["copy"] = NoFrame /\ UNCHANGED sessions
      BY <1>6 DEF DuplicatePicture, FInv, PointerInv, history
    <3>2. QED
      BY <1>1, <2>2, <3>1, GetsFootprint
  <2>3. QED
    BY <1>6, <2>1, <2>2 DEF DuplicatePicture
<1>7. CASE ~(Decode \/ Convert \/ DuplicatePicture)
  <2>. USE DEF frameVars, RecycleFrame, KeepFrame, FreeFrame
  <2>1. CASE AppStep
    BY <1>3, <2>1 DEF AppStep, SetPreviewDisplay, SetPreviewSize, StartPreview, CreateThread,
       CreateThreadFails, StopPreview, SignalStop, Join, ReleaseWindow, Destroy
  <2>2. CASE PrepareStep
    BY <1>3, <2>2 DEF PrepareStep, Negotiate, Configure, MeasureFrame, StartStream, LockPreview,
       ClearDone,
       ClearPreviewFrame
  <2>3. CASE LoopStep
    BY <1>3, <1>7, <2>3 DEF LoopStep, LoopTest, WaitPreviewFrame, WakeUp, DecodeIntoNull,
       RecycleMjpeg, RecycleUndecoded, ReadWindow, ConvertFromNull, CopyToSurface,
       RecycleConverted,
       AddCaptureFrame, StopStream, StreamStopped
  <2>4. CASE CallbackStep
    BY <1>3, <1>7, <2>4 DEF CallbackStep, Deliver, TestPicture, AddPreviewFrame, DropCopy
  <2>5. CASE SpuriousWakeUp \/ UNCHANGED vars
    BY <1>3, <2>5 DEF SpuriousWakeUp, vars
  <2>6. QED
    BY <2>1, <2>2, <2>3, <2>4, <2>5 DEF Next, PreviewStep
<1>8. QED
  BY <1>4, <1>5, <1>6, <1>7

(* After the destructor only captureQueue refers to a frame. *)
LEMMA LeakInvBounds ==
  ASSUME CInv, FInv, LeakInv
  PROVE  LeakBound
<1>1. Leaked \in SUBSET Frames /\ live \in SUBSET Frames /\ sessions \in Nat
  BY LeakedType DEF FInv, FramesOK, HistoryOK
<1>2. Cardinality(Leaked) \in Nat /\ Cardinality(live) \in Nat
  BY <1>1, FramesCount
<1>3. Cardinality(Leaked) <= sessions
  BY <1>1, <1>2 DEF LeakInv
<1>4. ASSUME app = "destroyed"
      PROVE  Cardinality(live) <= sessions + 1
  <2>1. pool = {} /\ QueuedFrames = {}
    BY <1>4 DEF LeakInv, QueuedFrames, Range
  <2>2. \A p \in Pointers \ {"captureQueue"} : held[p] = NoFrame
    <3>1. preview = "none" /\ callback = "idle"
      BY <1>4 DEF CInv, ThreadInv, StreamInv, IdlePoints
    <3>2. QED
      BY <3>1 DEF FInv, PointerInv, Pointers, FramePoints, MjpegPoints
  <2>3. HeldFrames \subseteq {held["captureQueue"]}
    BY <2>2 DEF HeldFrames, Range, FInv, FramesOK
  <2>4. live \subseteq Leaked \cup {held["captureQueue"]}
    BY <2>1, <2>3 DEF Leaked, Reachable
  <2>5. Cardinality(live) <= Cardinality(Leaked) + 1
    BY <1>1, <2>4, FramesCount
  <2>6. QED
    BY <1>1, <1>2, <1>3, <2>5
<1>5. QED
  BY <1>3, <1>4 DEF LeakBound

(* Both bounds on the memory of the preview are kept by every step. *)
THEOREM MemoryInvariance == Spec => [](LeakInv /\ Footprint)
<1>1. Init => LeakInv /\ Footprint
  <2>. SUFFICES ASSUME Init PROVE LeakInv /\ Footprint
    OBVIOUS
  <2>1. Leaked = {} /\ live = {}
    BY DEF Init, Leaked
  <2>2. Cardinality({}) = 0
    BY FS_EmptySet
  <2>3. QED
    BY <2>1, <2>2, ConstantsAssumption DEF Init, LeakInv, MayLose, LoopPoints, Footprint
<1>2. /\ LeakInv /\ Footprint /\ CInv /\ FInv /\ FInv' /\ [Next]_vars
      => (LeakInv /\ Footprint)'
  <2>. SUFFICES ASSUME LeakInv, Footprint, CInv, FInv, FInv', [Next]_vars
                PROVE  LeakInv' /\ Footprint'
    OBVIOUS
  <2>1. CASE ~Crashed
    BY <2>1, LeakStep, FootprintStep, LeakInvBounds
  <2>2. CASE UNCHANGED vars
    BY <2>2 DEF vars, frameVars, history, threads, LeakInv, MayLose, Footprint, Leaked, Reachable,
       QueuedFrames, HeldFrames
  <2>3. QED
    BY <2>1, <2>2 DEF Next
<1>3. QED
  BY <1>1, <1>2, Invariance, PTL DEF Spec

(* However often the preview is stopped while it draws, a session leaks one
   frame at most, and the destructor leaves one more. *)
THEOREM LeakBoundTheorem == Spec => []LeakBound
<1>1. CInv /\ FInv /\ LeakInv => LeakBound
  BY LeakInvBounds
<1>2. QED
  BY <1>1, Invariance, MemoryInvariance, PTL

(* The memory in use is bounded by the queue, the pointers and the leaks,
   whatever the capacity of the pool. *)
THEOREM FootprintTheorem == Spec => []Footprint
BY MemoryInvariance, PTL

-----------------------------------------------------------------------------
(* Order: the pictures on their way to the surface *)

(* The newest picture the callback thread can have queued. *)
Latest == IF callback = "idle" THEN delivered ELSE delivered - 1

CallbackOrder ==
  /\ base <= Latest /\ painted <= Latest
  /\ callback \in {"add", "drop"} => picture[held["copy"]] \in {0, delivered}

(* The slots of the queue whose frame holds a picture: one whose copy failed
   holds none. *)
Filled == {i \in DOMAIN previewFrames : picture[previewFrames[i]] # 0}

(* The queue is in the order of delivery, and all of it is newer than what is
   shown; once cleared it is newer than the stream. *)
QueueOrder ==
  /\ \A i \in Filled :
       /\ painted < picture[previewFrames[i]] /\ picture[previewFrames[i]] <= Latest
       /\ preview \in LoopPoints => base < picture[previewFrames[i]]
  /\ \A i, j \in Filled :
       i < j => picture[previewFrames[i]] < picture[previewFrames[j]]

(* Picture n is none, or newer than the one shown and older than all that are
   queued. *)
ComesNext(n) ==
  n # 0 => /\ painted < n /\ base < n /\ n <= Latest
           /\ \A i \in Filled : n < picture[previewFrames[i]]

HandOrder ==
  /\ preview \in {"decode", "decoded", "undecoded"} => ComesNext(picture[held["frameMjpeg"]])
  /\ preview = "decoded" => picture[held["frame"]] = picture[held["frameMjpeg"]]
  /\ preview \in {"draw", "convert", "paint"} => ComesNext(picture[held["frame"]])
  /\ preview = "paint" =>
       picture[held["converted"]] # 0 /\ picture[held["converted"]] = picture[held["frame"]]

(* What was shown is still in the hand of the thread, or older than all that
   is queued; the invariant that keeps the pictures in order. *)
OrderInv == CallbackOrder /\ QueueOrder /\ HandOrder

(* A step that touches frame f alone keeps the pictures of all others. *)
SamePictures(f) == \A g \in Frames \ {f} : picture'[g] = picture[g]

LEMMA OtherFrames ==
  ASSUME FInv, NEW f \in Frames, SamePictures(f)
  PROVE  /\ f \notin QueuedFrames =>
              \A i \in DOMAIN previewFrames :
                picture'[previewFrames[i]] = picture[previewFrames[i]]
         /\ \A p \in Pointers : held[p] # NoFrame /\ held[p] # f =>
              picture'[held[p]] = picture[held[p]]
BY DEF FInv, FramesOK, QueuedFrames, Range, SamePictures

LEMMA RecyclePictures ==
  ASSUME FInv, NEW p \in Pointers, held[p] # NoFrame, RecycleFrame(held[p])
  PROVE  /\ \A i \in DOMAIN previewFrames :
              picture'[previewFrames[i]] = picture[previewFrames[i]]
         /\ \A r \in Pointers \ {p} : held[r] # NoFrame =>
              picture'[held[r]] = picture[held[r]]
<1>1. held[p] \in Frames
  BY DEF FInv, FramesOK
<1>2. SamePictures(held[p])
  BY DEF FInv, FramesOK, RecycleFrame, KeepFrame, FreeFrame, SamePictures
<1>3. held[p] \notin QueuedFrames
  BY DEF FInv, Ownership, Exclusive, QueuedFrames, Range
<1>4. \A r \in Pointers \ {p} : held[r] # NoFrame => held[r] # held[p]
  BY DEF FInv, Ownership, Exclusive
<1>5. QED
  BY <1>1, <1>2, <1>3, <1>4, OtherFrames

LEMMA GetPictures ==
  ASSUME FInv, NEW f \in Frames, GetFrame(f), NEW n,
         UNCHANGED picture \/ picture' = [picture EXCEPT ![f] = n]
  PROVE  /\ \A i \in DOMAIN previewFrames :
              picture'[previewFrames[i]] = picture[previewFrames[i]]
         /\ \A r \in Pointers : held[r] # NoFrame =>
              picture'[held[r]] = picture[held[r]]
<1>1. SamePictures(f)
  BY DEF FInv, FramesOK, SamePictures
<1>2. f \notin QueuedFrames /\ f \notin HeldFrames
  BY GetFrameUnused DEF FInv
<1>3. \A r \in Pointers : held[r] # NoFrame => held[r] # f
  BY <1>2 DEF HeldFrames, Range, FInv, FramesOK
<1>4. QED
  BY <1>1, <1>2, <1>3, OtherFrames

(* A step of the preview thread that neither paints nor takes a frame. *)
LEMMA ThreadKeepsOrder ==
  ASSUME OrderInv, UNCHANGED <<painted, base, delivered, callback, previewFrames>>,
         held'["copy"] = held["copy"],
         callback \in {"add", "drop"} => picture'[held["copy"]] = picture[held["copy"]],
         \A i \in DOMAIN previewFrames :
           picture'[previewFrames[i]] = picture[previewFrames[i]],
         preview' \in LoopPoints => preview \in LoopPoints
  PROVE  /\ CallbackOrder' /\ QueueOrder'
         /\ \A n : ComesNext(n) => ComesNext(n)'
<1>1. CallbackOrder'
  BY DEF OrderInv, CallbackOrder, Latest
<1>2. QueueOrder'
  BY DEF OrderInv, QueueOrder, Latest, Filled
<1>3. \A n : ComesNext(n) => ComesNext(n)'
  BY DEF ComesNext, Latest, Filled
<1>4. QED
  BY <1>1, <1>2, <1>3

HandPoints == {"decode", "decoded", "undecoded", "draw", "convert", "paint"}

(* A step that touches no frame, no picture and none of the counters. *)
LEMMA OrderUnchanged ==
  ASSUME OrderInv, UNCHANGED <<painted, base, delivered, callback, previewFrames, held, picture>>,
         preview' = preview \/ (preview' \notin HandPoints
                                /\ (preview' \in LoopPoints => preview \in LoopPoints))
  PROVE  OrderInv'
<1>1. /\ CallbackOrder' /\ QueueOrder'
      /\ \A n : ComesNext(n) => ComesNext(n)'
  BY ThreadKeepsOrder
<1>2. HandOrder'
  BY <1>1 DEF OrderInv, HandOrder, HandPoints
<1>3. QED
  BY <1>1, <1>2 DEF OrderInv

(* No call of the application reorders pictures; the destructor has no
   thread to race with. *)
LEMMA OrderAppStep ==
  ASSUME CInv, FInv, OrderInv, AppStep
  PROVE  OrderInv'
<1>1. CASE Destroy
  <2>1. preview = "none" /\ callback = "idle" /\ preview' = "none" /\ callback' = "idle"
        /\ UNCHANGED <<painted, base, delivered>>
    BY <1>1 DEF Destroy, CInv, ThreadInv, StreamInv, IdlePoints, AppGoto, history
  <2>2. previewFrames' = <<>> \/ UNCHANGED <<previewFrames, held, picture>>
    BY <1>1 DEF Destroy
  <2>3. CASE previewFrames' = <<>>
    <3>1. DOMAIN previewFrames' = {}
      BY <2>3
    <3>2. QueueOrder'
      BY <3>1 DEF QueueOrder, Filled
    <3>3. CallbackOrder' /\ HandOrder'
      BY <2>1 DEF OrderInv, CallbackOrder, HandOrder, Latest
    <3>4. QED
      BY <3>2, <3>3 DEF OrderInv
  <2>4. CASE UNCHANGED <<previewFrames, held, picture>>
    BY <2>1, <2>4, OrderUnchanged
  <2>5. QED
    BY <2>2, <2>3, <2>4
<1>2. CASE AppStep /\ ~Destroy
  <2>1. UNCHANGED <<painted, base, delivered, callback, previewFrames, held, picture>>
    BY <1>2 DEF AppStep, SetPreviewDisplay, SetPreviewSize, StartPreview, CreateThread,
       CreateThreadFails, StopPreview, SignalStop, Join, ReleaseWindow, AppGoto, threads, history,
       frameVars
  <2>2. \/ preview' = preview \/ preview' \in {"prepare", "none"}
        \/ preview = "waiting" /\ preview' = "woken"
    BY <1>2 DEF AppStep, SetPreviewDisplay, SetPreviewSize, StartPreview, CreateThread,
       CreateThreadFails, StopPreview, SignalStop, Join, ReleaseWindow, AppGoto, threads, Signal
  <2>3. QED
    BY <2>1, <2>2, OrderUnchanged DEF HandPoints, LoopPoints
<1>3. QED
  BY <1>1, <1>2

(* A session starts with every picture delivered so far out of date, and
   reaches its loop with none of them in the queue. *)
LEMMA OrderPrepareStep ==
  ASSUME CInv, FInv, OrderInv, PrepareStep
  PROVE  OrderInv'
<1>1. CASE Negotiate \/ Configure \/ MeasureFrame \/ LockPreview
  <2>1. UNCHANGED <<painted, base, delivered, callback, previewFrames, held, picture>>
    BY <1>1 DEF Negotiate, Configure, MeasureFrame, LockPreview, PreviewGoto, history, frameVars
  <2>2. preview' \in {"configure", "exited", "measure", "startStream", "clear"}
    BY <1>1 DEF Negotiate, Configure, MeasureFrame, LockPreview, PreviewGoto
  <2>3. QED
    BY <2>1, <2>2, OrderUnchanged DEF HandPoints, LoopPoints
<1>2. CASE StartStream
  <2>1. /\ UNCHANGED <<painted, delivered, callback, previewFrames, held, picture>>
        /\ preview' \in {"started", "exited"} /\ base' \in {base, delivered}
    BY <1>2 DEF StartStream, PreviewGoto, frameVars
  <2>2. callback = "idle"
    BY <1>2 DEF StartStream, CInv, StreamInv, IdlePoints
  <2>3. CallbackOrder'
    BY <2>1, <2>2 DEF OrderInv, CallbackOrder, Latest, FInv, HistoryOK
  <2>4. QueueOrder'
    BY <2>1 DEF OrderInv, QueueOrder, Latest, LoopPoints, Filled
  <2>5. HandOrder'
    BY <2>1 DEF HandOrder
  <2>6. QED
    BY <2>3, <2>4, <2>5 DEF OrderInv
<1>3. CASE ClearPreviewFrame
  <2>1. /\ previewFrames # <<>> /\ previewFrames' = Tail(previewFrames)
        /\ RecycleFrame(Head(previewFrames))
        /\ preview' = "clear" /\ preview = "clear"
        /\ UNCHANGED <<painted, base, delivered, callback, held>>
    BY <1>3 DEF ClearPreviewFrame, threads, history
  <2>2. previewFrames \in Seq(Frames) /\ Head(previewFrames) \in Frames
    BY <2>1, QueueType DEF FInv, FramesOK
  <2>3. SamePictures(Head(previewFrames))
    BY <2>1, <2>2 DEF FInv, FramesOK, RecycleFrame, KeepFrame, FreeFrame, SamePictures
  <2>4. \A i \in DOMAIN previewFrames' :
          /\ i \in Nat /\ i + 1 \in DOMAIN previewFrames
          /\ previewFrames'[i] = previewFrames[i + 1]
          /\ previewFrames[i + 1] # Head(previewFrames)
    <3>1. /\ DOMAIN previewFrames = 1..Len(previewFrames) /\ Len(previewFrames) \in Nat \ {0}
          /\ DOMAIN previewFrames' = 1..(Len(previewFrames) - 1)
          /\ \A i \in DOMAIN previewFrames' : previewFrames'[i] = previewFrames[i + 1]
          /\ Head(previewFrames) = previewFrames[1]
      BY <2>1, <2>2, EmptySeq, LenProperties
    <3>2. \A i \in DOMAIN previewFrames' :
            /\ i \in Nat /\ i + 1 \in DOMAIN previewFrames /\ 1 \in DOMAIN previewFrames
            /\ i + 1 # 1
      BY <3>1
    <3>3. QED
      BY <3>1, <3>2 DEF FInv, Ownership, Exclusive
  <2>5. \A i \in DOMAIN previewFrames' :
          picture'[previewFrames'[i]] = picture[previewFrames[i + 1]]
    BY <2>2, <2>3, <2>4 DEF SamePictures
  <2>6. QueueOrder'
    <3>1. /\ \A i \in Filled :
               painted < picture[previewFrames[i]] /\ picture[previewFrames[i]] <= Latest
          /\ \A i, j \in Filled :
               i < j => picture[previewFrames[i]] < picture[previewFrames[j]]
      BY DEF OrderInv, QueueOrder
    <3>2. preview' \notin LoopPoints /\ Latest' = Latest
      BY <2>1 DEF LoopPoints, Latest
    <3>3. \A i \in Filled' : i \in DOMAIN previewFrames' /\ i + 1 \in Filled
      BY <2>4, <2>5 DEF Filled
    <3>4. \A i \in Filled' :
            painted' < picture'[previewFrames'[i]] /\ picture'[previewFrames'[i]] <= Latest'
      BY <2>1, <2>5, <3>1, <3>2, <3>3
    <3>5. \A i, j \in Filled' : i < j => i + 1 < j + 1
      BY <2>4, <3>3
    <3>6. \A i, j \in Filled' :
            i < j => picture'[previewFrames'[i]] < picture'[previewFrames'[j]]
      BY <2>5, <3>1, <3>3, <3>5
    <3>7. QED
      BY <3>2, <3>4, <3>6 DEF QueueOrder
  <2>7. CallbackOrder'
    <3>1. callback \in {"add", "drop"} =>
            held["copy"] \in Frames /\ held["copy"] # Head(previewFrames)
      <4>1. 1 \in DOMAIN previewFrames /\ Head(previewFrames) = previewFrames[1]
        BY <2>1, <2>2, EmptySeq, LenProperties
      <4>2. QED
        BY <4>1, PointerNames DEF FInv, FramesOK, PointerInv, Ownership, Exclusive
    <3>2. QED
      BY <2>1, <2>3, <3>1 DEF OrderInv, CallbackOrder, Latest, SamePictures
  <2>8. HandOrder'
    BY <2>1 DEF HandOrder
  <2>9. QED
    BY <2>6, <2>7, <2>8 DEF OrderInv
<1>4. CASE ClearDone
  <2>1. /\ UNCHANGED <<painted, base, delivered, callback, previewFrames, held, picture>>
        /\ preview' = "loop" /\ previewFrames = <<>>
    BY <1>4 DEF ClearDone, PreviewGoto, history, frameVars
  <2>2. DOMAIN previewFrames = {}
    BY <2>1
  <2>3. CallbackOrder' /\ QueueOrder' /\ HandOrder'
    BY <2>1, <2>2 DEF OrderInv, CallbackOrder, QueueOrder, HandOrder, Latest, Filled
  <2>4. QED
    BY <2>3 DEF OrderInv
<1>5. QED
  BY <1>1, <1>2, <1>3, <1>4 DEF PrepareStep

(* The callback thread numbers a picture higher than all before it. *)
LEMMA OrderCallbackStep ==
  ASSUME CInv, FInv, OrderInv, CallbackStep
  PROVE  OrderInv'
<1>. delivered \in Nat /\ painted \in Nat /\ base \in Nat /\ picture \in [Frames -> Nat]
  BY DEF FInv, HistoryOK, FramesOK
<1>q. \A i \in DOMAIN previewFrames : previewFrames[i] \in Frames
  BY DEF FInv, FramesOK
<1>1. CASE Deliver
  <2>1. /\ callback = "idle" /\ callback' = "test" /\ delivered' = delivered + 1
        /\ UNCHANGED <<painted, base, preview, previewFrames, held, picture>>
    BY <1>1 DEF Deliver, CallbackGoto, frameVars
  <2>2. Latest = delivered /\ Latest' = delivered
    BY <2>1 DEF Latest
  <2>3. QED
    BY <2>1, <2>2 DEF OrderInv, CallbackOrder, QueueOrder, HandOrder, ComesNext, Filled
<1>2. ASSUME callback # "idle", callback' = "idle",
             UNCHANGED <<painted, base, delivered, preview, previewFrames>>,
             \A r \in Pointers \ {"copy"} : held'[r] = held[r],
             \A r \in Pointers \ {"copy"} : held[r] # NoFrame =>
               picture'[held[r]] = picture[held[r]],
             \A i \in DOMAIN previewFrames :
               picture'[previewFrames[i]] = picture[previewFrames[i]]
      PROVE  OrderInv'
  <2>1. Latest = delivered - 1 /\ Latest' = delivered
    BY <1>2 DEF Latest
  <2>2. CallbackOrder'
    BY <1>2, <2>1 DEF OrderInv, CallbackOrder
  <2>3. QueueOrder'
    BY <1>2, <1>q, <2>1 DEF OrderInv, QueueOrder, Filled
  <2>4. \A n \in Nat : ComesNext(n) => ComesNext(n)'
    BY <1>2, <2>1 DEF ComesNext, Filled
  <2>5. /\ preview \in MjpegPoints => held["frameMjpeg"] \in Frames
        /\ preview \in FramePoints => held["frame"] \in Frames
        /\ preview = "paint" => held["converted"] \in Frames
    BY PointerNames DEF FInv, PointerInv, FramesOK
  <2>6. HandOrder'
    BY <1>2, <2>4, <2>5, PointerNames, ConstantsAssumption
       DEF OrderInv, HandOrder, MjpegPoints, FramePoints
  <2>7. QED
    BY <2>2, <2>3, <2>6 DEF OrderInv
<1>3. CASE TestPicture
  <2>1. /\ callback = "test" /\ callback' \in {"duplicate", "idle"}
        /\ UNCHANGED <<painted, base, delivered, preview, previewFrames, held, picture>>
    BY <1>3 DEF TestPicture, CallbackGoto, history, frameVars
  <2>2. CASE callback' = "idle"
    BY <1>2, <2>1, <2>2
  <2>3. CASE callback' = "duplicate"
    BY <2>1, <2>3 DEF OrderInv, CallbackOrder, QueueOrder, HandOrder, ComesNext, Latest, Filled
  <2>4. QED
    BY <2>1, <2>2, <2>3
<1>4. CASE DuplicatePicture
  <2>1. /\ callback = "duplicate"
        /\ UNCHANGED <<painted, base, delivered, preview, previewFrames>>
    BY <1>4 DEF DuplicatePicture, CallbackGoto, history
  <2>2. CASE callback' = "idle" /\ UNCHANGED <<held, picture>>
    BY <1>2, <2>1, <2>2
  <2>3. ASSUME NEW f \in Frames, GetFrame(f), held' = [held EXCEPT !["copy"] = f],
               NEW n \in {0, delivered},
               picture' = [picture EXCEPT ![f] = n], callback' = "add"
        PROVE  OrderInv'
    <3>1. /\ \A i \in DOMAIN previewFrames :
                picture'[previewFrames[i]] = picture[previewFrames[i]]
          /\ \A r \in Pointers : held[r] # NoFrame => picture'[held[r]] = picture[held[r]]
      BY <2>3, GetPictures
    <3>2. /\ held'["copy"] = f /\ picture'[f] = n
          /\ \A r \in Pointers \ {"copy"} : held'[r] = held[r]
      BY <2>3, PointerNames DEF FInv, FramesOK
    <3>3. Latest' = Latest
      BY <2>1, <2>3 DEF Latest
    <3>4. CallbackOrder' /\ QueueOrder'
      BY <2>1, <2>3, <3>1, <3>2, <3>3 DEF OrderInv, CallbackOrder, QueueOrder, Filled
    <3>5. \A m : ComesNext(m) => ComesNext(m)'
      BY <2>1, <3>1, <3>3 DEF ComesNext, Filled
    <3>6. /\ preview \in MjpegPoints => held["frameMjpeg"] # NoFrame
          /\ preview \in FramePoints => held["frame"] # NoFrame
          /\ preview = "paint" => held["converted"] # NoFrame
      BY DEF FInv, PointerInv
    <3>7. HandOrder'
      BY <2>1, <3>1, <3>2, <3>5, <3>6, PointerNames
         DEF OrderInv, HandOrder, MjpegPoints, FramePoints
    <3>8. QED
      BY <3>4, <3>7 DEF OrderInv
  <2>4. QED
    BY <1>4, <2>2, <2>3 DEF DuplicatePicture, CallbackGoto
<1>5. CASE AddPreviewFrame
  <2>1. /\ callback = "add"
        /\ UNCHANGED <<painted, base, delivered, picture>>
    BY <1>5 DEF AddPreviewFrame, history
  <2>2. CASE callback' = "drop" /\ UNCHANGED <<previewFrames, held, preview>>
    BY <2>1, <2>2 DEF OrderInv, CallbackOrder, QueueOrder, HandOrder, ComesNext, Latest, Filled
  <2>3. CASE /\ previewFrames' = Append(previewFrames, held["copy"])
             /\ held' = [held EXCEPT !["copy"] = NoFrame]
             /\ callback' = "idle" /\ Signal
    <3>1. /\ Latest = delivered - 1 /\ Latest' = delivered
          /\ picture[held["copy"]] \in {0, delivered} /\ held["copy"] \in Frames
      BY <2>1, <2>3, PointerNames DEF OrderInv, CallbackOrder, Latest, FInv, FramesOK, PointerInv
    <3>2. /\ DOMAIN previewFrames = 1..Len(previewFrames) /\ Len(previewFrames) \in Nat
          /\ DOMAIN previewFrames' = 1..(Len(previewFrames) + 1)
          /\ \A i \in DOMAIN previewFrames : previewFrames'[i] = previewFrames[i]
          /\ previewFrames'[Len(previewFrames) + 1] = held["copy"]
      BY <2>3, <3>1, AppendProperties, LenProperties DEF FInv, FramesOK
    <3>3. \A i \in Filled' :
            \/ i \in Filled /\ previewFrames'[i] = previewFrames[i]
            \/ /\ i \notin DOMAIN previewFrames /\ picture'[previewFrames'[i]] = delivered
               /\ \A j \in Filled' : ~(i < j)
      BY <2>1, <3>1, <3>2 DEF Filled
    <3>4. /\ base < delivered /\ painted < delivered
          /\ \A i \in Filled :
               /\ picture[previewFrames[i]] \in Nat
               /\ painted < picture[previewFrames[i]] /\ picture[previewFrames[i]] < delivered
               /\ preview \in LoopPoints => base < picture[previewFrames[i]]
          /\ \A i, j \in Filled :
               i < j => picture[previewFrames[i]] < picture[previewFrames[j]]
      BY <1>q, <3>1 DEF OrderInv, CallbackOrder, QueueOrder, Filled
    <3>5. CallbackOrder'
      BY <2>1, <2>3, <3>1, <3>4 DEF CallbackOrder
    <3>6. preview' \in LoopPoints => preview \in LoopPoints
      BY <2>3 DEF Signal, LoopPoints
    <3>7. QueueOrder'
      <4>1. \A i \in Filled' :
              /\ painted' < picture'[previewFrames'[i]] /\ picture'[previewFrames'[i]] <= Latest'
              /\ preview' \in LoopPoints => base' < picture'[previewFrames'[i]]
        BY <2>1, <1>q, <3>1, <3>3, <3>4, <3>6
      <4>2. \A i, j \in Filled' :
              i < j => picture'[previewFrames'[i]] < picture'[previewFrames'[j]]
        BY <2>1, <3>1, <3>3, <3>4
      <4>3. QED
        BY <4>1, <4>2 DEF QueueOrder
    <3>8. ASSUME NEW n \in Nat, ComesNext(n)
          PROVE  ComesNext(n)'
      <4>. SUFFICES ASSUME n # 0 PROVE ComesNext(n)'
        BY DEF ComesNext
      <4>1. /\ painted < n /\ base < n /\ n < delivered
            /\ \A i \in Filled : n < picture[previewFrames[i]]
        BY <3>1, <3>8 DEF ComesNext
      <4>2. \A i \in Filled' : n < picture'[previewFrames'[i]]
        BY <2>1, <3>1, <3>3, <4>1
      <4>3. QED
        BY <2>1, <3>1, <4>1, <4>2 DEF ComesNext
    <3>9. /\ \A r \in Pointers \ {"copy"} : held'[r] = held[r]
          /\ preview \in MjpegPoints => held["frameMjpeg"] \in Frames
          /\ preview \in FramePoints => held["frame"] \in Frames
      BY <2>3, PointerNames DEF FInv, FramesOK, PointerInv
    <3>10. preview' \in HandPoints \cup {"decoded"} => preview' = preview
      BY <2>3 DEF Signal, HandPoints
    <3>11. HandOrder'
      BY <2>1, <3>8, <3>9, <3>10, PointerNames
         DEF OrderInv, HandOrder, HandPoints, MjpegPoints, FramePoints
    <3>12. QED
      BY <3>5, <3>7, <3>11 DEF OrderInv
  <2>4. QED
    BY <1>5, <2>2, <2>3 DEF AddPreviewFrame, CallbackGoto
<1>6. CASE DropCopy
  <2>1. /\ callback = "drop" /\ callback' = "idle"
        /\ RecycleFrame(held["copy"]) /\ held' = [held EXCEPT !["copy"] = NoFrame]
        /\ UNCHANGED <<painted, base, delivered, preview, previewFrames>>
    BY <1>6 DEF DropCopy, CallbackGoto, history
  <2>2. held["copy"] # NoFrame
    BY <2>1 DEF FInv, PointerInv
  <2>3. /\ \A i \in DOMAIN previewFrames :
              picture'[previewFrames[i]] = picture[previewFrames[i]]
        /\ \A r \in Pointers \ {"copy"} : held[r] # NoFrame =>
              picture'[held[r]] = picture[held[r]]
    BY <2>1, <2>2, RecyclePictures, PointerNames
  <2>4. \A r \in Pointers \ {"copy"} : held'[r] = held[r]
    BY <2>1, PointerNames DEF FInv, FramesOK
  <2>5. QED
    BY <1>2, <2>1, <2>3, <2>4
<1>7. QED
  BY <1>1, <1>3, <1>4, <1>5, <1>6 DEF CallbackStep

(* The oldest frame of the queue comes next. *)
LEMMA OrderTakeFrame ==
  ASSUME CInv, FInv, OrderInv, preview \in {"wait", "woken"}, TakeFrame,
         UNCHANGED <<picture, painted, base, delivered>>
  PROVE  OrderInv'
<1>1. CASE UNCHANGED <<held, previewFrames>> /\ preview' = "loop"
  <2>1. UNCHANGED callback
    BY <1>1 DEF TakeFrame, PreviewGoto
  <2>2. QED
    BY <1>1, <2>1, OrderUnchanged DEF HandPoints, LoopPoints
<1>2. ASSUME NEW p \in {"frame", "frameMjpeg"}, previewFrames # <<>>,
             held' = [held EXCEPT ![p] = Head(previewFrames)],
             previewFrames' = Tail(previewFrames),
             preview' = IF p = "frame" THEN "draw" ELSE "decode", UNCHANGED callback
      PROVE  OrderInv'
  <2>1. previewFrames \in Seq(Frames) /\ held \in [Pointers -> Frames \cup {NoFrame}]
        /\ picture \in [Frames -> Nat]
    BY DEF FInv, FramesOK
  <2>2. /\ DOMAIN previewFrames = 1..Len(previewFrames) /\ Len(previewFrames) \in Nat \ {0}
        /\ DOMAIN previewFrames' = 1..(Len(previewFrames) - 1)
        /\ \A i \in DOMAIN previewFrames' : previewFrames'[i] = previewFrames[i + 1]
        /\ Head(previewFrames) = previewFrames[1] /\ Head(previewFrames) \in Frames
    BY <1>2, <2>1, EmptySeq, LenProperties, HeadTailProperties
  <2>3. \A i \in DOMAIN previewFrames' :
          /\ i + 1 \in DOMAIN previewFrames /\ 1 < i + 1
          /\ \A j \in DOMAIN previewFrames' : i < j => i + 1 < j + 1
    BY <2>2
  <2>4. 1 \in DOMAIN previewFrames
    BY <2>2
  <2>5. /\ \A i \in Filled :
             /\ painted < picture[previewFrames[i]] /\ picture[previewFrames[i]] <= Latest
             /\ base < picture[previewFrames[i]]
        /\ \A i, j \in Filled :
             i < j => picture[previewFrames[i]] < picture[previewFrames[j]]
    BY DEF OrderInv, QueueOrder, LoopPoints
  <2>6. Latest' = Latest
    BY <1>2 DEF Latest
  <2>f. \A i \in Filled' : i \in DOMAIN previewFrames' /\ i + 1 \in Filled
    BY <2>2, <2>3 DEF Filled
  <2>7. QueueOrder'
    BY <2>2, <2>3, <2>5, <2>6, <2>f DEF QueueOrder
  <2>8. held'["copy"] = held["copy"] /\ held'[p] = Head(previewFrames)
    BY <1>2, <2>1, PointerNames
  <2>9. CallbackOrder'
    BY <1>2, <2>6, <2>8 DEF OrderInv, CallbackOrder
  <2>10. ComesNext(picture[held[p]])'
    <3>1. picture[previewFrames[1]] # 0 =>
            /\ painted < picture[previewFrames[1]] /\ base < picture[previewFrames[1]]
            /\ picture[previewFrames[1]] <= Latest
            /\ \A i \in Filled' : picture[previewFrames[1]] < picture[previewFrames'[i]]
      <4>1. picture[previewFrames[1]] # 0 => 1 \in Filled
        BY <2>4 DEF Filled
      <4>2. QED
        BY <2>2, <2>3, <2>5, <2>f, <4>1
    <3>2. picture'[held'[p]] = picture[previewFrames[1]]
      BY <2>2, <2>8
    <3>3. QED
      BY <2>6, <3>1, <3>2 DEF ComesNext
  <2>11. HandOrder'
    BY <1>2, <2>10 DEF HandOrder
  <2>12. QED
    BY <2>7, <2>9, <2>11 DEF OrderInv
<1>3. QED
  BY <1>1, <1>2 DEF TakeFrame, PreviewGoto

(* What is converted and shown is the picture that was taken. *)
LEMMA OrderLoopStep ==
  ASSUME CInv, FInv, OrderInv, LoopStep
  PROVE  OrderInv'
<1>a. /\ callback \in {"add", "drop"} => held["copy"] # NoFrame
      /\ preview \in FramePoints => held["frame"] # NoFrame
      /\ preview \in MjpegPoints => held["frameMjpeg"] # NoFrame
      /\ preview \in {"paint", "dropConverted"} => held["converted"] # NoFrame
      /\ held \in [Pointers -> Frames \cup {NoFrame}] /\ picture \in [Frames -> Nat]
  BY DEF FInv, PointerInv, FramesOK
<1>1. CASE LoopTest \/ DecodeIntoNull \/ ConvertFromNull \/ StopStream \/ StreamStopped
  <2>1. /\ UNCHANGED <<painted, base, delivered, callback, previewFrames, held, picture>>
        /\ preview' \in {"wait", "stopStream", "decodeCrash", "convertCrash", "joinCallback",
                       "exited"}
        /\ preview' = "wait" => preview = "loop"
    BY <1>1 DEF LoopTest, DecodeIntoNull, ConvertFromNull, StopStream, StreamStopped,
       PreviewGoto, history, frameVars
  <2>2. QED
    BY <2>1, OrderUnchanged DEF HandPoints, LoopPoints
<1>2. CASE WaitPreviewFrame
  <2>1. CASE previewFrames = <<>>
    <3>1. /\ UNCHANGED <<painted, base, delivered, callback, previewFrames, held, picture>>
          /\ preview' = "waiting" /\ preview = "wait"
      BY <1>2, <2>1 DEF WaitPreviewFrame, PreviewGoto, history
    <3>2. QED
      BY <3>1, OrderUnchanged DEF HandPoints, LoopPoints
  <2>2. CASE previewFrames # <<>>
    BY <1>2, <2>2, OrderTakeFrame DEF WaitPreviewFrame, history
  <2>3. QED
    BY <2>1, <2>2
<1>3. CASE WakeUp
  BY <1>3, OrderTakeFrame DEF WakeUp, history
<1>4. CASE Decode
  <2>1. PICK f \in Frames :
          /\ GetFrame(f) /\ held' = [held EXCEPT !["frame"] = f]
          /\ \/ /\ picture' = [picture EXCEPT ![f] = picture[held["frameMjpeg"]]]
                /\ preview' = "decoded"
             \/ preview' = "undecoded" /\ UNCHANGED picture
    BY <1>4 DEF Decode, PreviewGoto
  <2>2. /\ UNCHANGED <<painted, base, delivered, callback, previewFrames>>
        /\ preview = "decode"
    BY <1>4 DEF Decode, PreviewGoto, history
  <2>3. /\ \A i \in DOMAIN previewFrames :
              picture'[previewFrames[i]] = picture[previewFrames[i]]
        /\ \A r \in Pointers : held[r] # NoFrame => picture'[held[r]] = picture[held[r]]
    BY <2>1, GetPictures
  <2>4. /\ held'["frame"] = f /\ held'["copy"] = held["copy"]
        /\ held'["frameMjpeg"] = held["frameMjpeg"]
    BY <1>a, <2>1, PointerNames
  <2>5. /\ CallbackOrder' /\ QueueOrder' /\ \A n : ComesNext(n) => ComesNext(n)'
    BY <1>a, <2>2, <2>3, <2>4, PointerNames, ThreadKeepsOrder DEF LoopPoints
  <2>6. picture'[held["frameMjpeg"]] = picture[held["frameMjpeg"]]
    BY <1>a, <2>2, <2>3, PointerNames DEF MjpegPoints
  <2>7. HandOrder'
    BY <1>a, <2>1, <2>2, <2>4, <2>5, <2>6 DEF OrderInv, HandOrder
  <2>8. QED
    BY <2>5, <2>7 DEF OrderInv
<1>5. ASSUME NEW p \in {"frame", "frameMjpeg", "converted"}, held[p] # NoFrame,
             RecycleFrame(held[p]), held' = [held EXCEPT ![p] = NoFrame],
             UNCHANGED <<painted, base, delivered, callback, previewFrames>>,
             preview \in LoopPoints
      PROVE  /\ CallbackOrder' /\ QueueOrder' /\ \A n : ComesNext(n) => ComesNext(n)'
             /\ \A r \in Pointers \ {p} : held[r] # NoFrame =>
                  held'[r] = held[r] /\ picture'[held[r]] = picture[held[r]]
  <2>1. /\ \A i \in DOMAIN previewFrames :
              picture'[previewFrames[i]] = picture[previewFrames[i]]
        /\ \A r \in Pointers \ {p} : held[r] # NoFrame =>
              picture'[held[r]] = picture[held[r]]
    BY <1>5, RecyclePictures, PointerNames
  <2>2. \A r \in Pointers \ {p} : held'[r] = held[r]
    BY <1>a, <1>5
  <2>3. held'["copy"] = held["copy"]
    BY <2>2, PointerNames
  <2>4. callback \in {"add", "drop"} => picture'[held["copy"]] = picture[held["copy"]]
    BY <1>a, <2>1, PointerNames
  <2>5. /\ CallbackOrder' /\ QueueOrder' /\ \A n : ComesNext(n) => ComesNext(n)'
    BY <1>5, <2>1, <2>3, <2>4, ThreadKeepsOrder
  <2>6. QED
    BY <2>1, <2>2, <2>5
<1>6. CASE RecycleMjpeg
  <2>1. /\ preview \in {"decoded", "undecoded"} /\ RecycleFrame(held["frameMjpeg"])
        /\ held' = [held EXCEPT !["frameMjpeg"] = NoFrame]
        /\ UNCHANGED <<painted, base, delivered, callback, previewFrames>>
        /\ preview' = IF preview = "decoded" THEN "draw" ELSE "dropFrame"
    BY <1>6 DEF RecycleMjpeg, PreviewGoto, history
  <2>2. held["frameMjpeg"] # NoFrame /\ held["frame"] # NoFrame /\ preview \in LoopPoints
    BY <1>a, <2>1 DEF MjpegPoints, FramePoints, LoopPoints
  <2>3. /\ CallbackOrder' /\ QueueOrder' /\ \A n : ComesNext(n) => ComesNext(n)'
        /\ held'["frame"] = held["frame"] /\ picture'[held["frame"]] = picture[held["frame"]]
    BY <1>5, <2>1, <2>2, PointerNames
  <2>4. HandOrder'
    BY <2>1, <2>3 DEF OrderInv, HandOrder
  <2>5. QED
    BY <2>3, <2>4 DEF OrderInv
<1>7. CASE RecycleUndecoded
  <2>1. /\ preview = "dropFrame" /\ RecycleFrame(held["frame"]) /\ preview' = "loop"
        /\ held' = [held EXCEPT !["frame"] = NoFrame]
        /\ UNCHANGED <<painted, base, delivered, callback, previewFrames>>
    BY <1>7 DEF RecycleUndecoded, PreviewGoto, history
  <2>2. held["frame"] # NoFrame /\ preview \in LoopPoints
    BY <1>a, <2>1 DEF FramePoints, LoopPoints
  <2>3. CallbackOrder' /\ QueueOrder'
    BY <1>5, <2>1, <2>2
  <2>4. HandOrder'
    BY <2>1 DEF HandOrder
  <2>5. QED
    BY <2>3, <2>4 DEF OrderInv
<1>8. CASE ReadWindow
  <2>1. /\ UNCHANGED <<painted, base, delivered, callback, previewFrames, held, picture>>
        /\ preview = "draw" /\ preview' \in {"convert", "capture"}
    BY <1>8 DEF ReadWindow, PreviewGoto, history, frameVars
  <2>2. /\ CallbackOrder' /\ QueueOrder' /\ \A n : ComesNext(n) => ComesNext(n)'
    BY <2>1, ThreadKeepsOrder DEF LoopPoints
  <2>3. HandOrder'
    BY <2>1, <2>2 DEF OrderInv, HandOrder
  <2>4. QED
    BY <2>2, <2>3 DEF OrderInv
<1>9. CASE Convert
  <2>1. /\ UNCHANGED <<painted, base, delivered, callback, previewFrames>>
        /\ preview = "convert"
    BY <1>9 DEF Convert, PreviewGoto, history
  <2>2. CASE preview' = "capture" /\ UNCHANGED <<held, picture>>
    BY <2>1, <2>2, OrderUnchanged DEF HandPoints, LoopPoints
  <2>3. ASSUME NEW f \in Frames, GetFrame(f), held' = [held EXCEPT !["converted"] = f],
               \/ /\ picture' = [picture EXCEPT ![f] = picture[held["frame"]]]
                  /\ picture[held["frame"]] # 0 /\ preview' = "paint"
               \/ preview' = "dropConverted" /\ UNCHANGED picture
        PROVE  OrderInv'
    <3>1. /\ \A i \in DOMAIN previewFrames :
                picture'[previewFrames[i]] = picture[previewFrames[i]]
          /\ \A r \in Pointers : held[r] # NoFrame => picture'[held[r]] = picture[held[r]]
      BY <2>3, GetPictures
    <3>2. /\ held'["converted"] = f /\ held'["copy"] = held["copy"]
          /\ held'["frame"] = held["frame"]
      BY <1>a, <2>3, PointerNames
    <3>3. /\ CallbackOrder' /\ QueueOrder' /\ \A n : ComesNext(n) => ComesNext(n)'
      BY <1>a, <2>1, <2>3, <3>1, <3>2, PointerNames, ThreadKeepsOrder DEF LoopPoints
    <3>4. picture'[held["frame"]] = picture[held["frame"]]
      BY <1>a, <2>1, <3>1, PointerNames DEF FramePoints
    <3>5. HandOrder'
      BY <1>a, <2>1, <2>3, <3>2, <3>3, <3>4 DEF OrderInv, HandOrder
    <3>6. QED
      BY <3>3, <3>5 DEF OrderInv
  <2>4. QED
    BY <1>9, <2>2, <2>3 DEF Convert, PreviewGoto
<1>10. CASE CopyToSurface
  <2>1. /\ UNCHANGED <<base, delivered, callback, previewFrames, held, picture>>
        /\ preview = "paint" /\ preview' = "dropConverted"
        /\ painted' = picture[held["converted"]] \/ UNCHANGED painted
    BY <1>10 DEF CopyToSurface, PreviewGoto, frameVars
  <2>2. CASE UNCHANGED painted
    BY <2>1, <2>2, OrderUnchanged DEF HandPoints, LoopPoints
  <2>3. CASE painted' = picture[held["converted"]]
    <3>1. ComesNext(painted') /\ painted' # 0
      BY <2>1, <2>3 DEF OrderInv, HandOrder
    <3>2. Latest' = Latest
      BY <2>1 DEF Latest
    <3>3. CallbackOrder'
      BY <2>1, <3>1, <3>2 DEF OrderInv, CallbackOrder, ComesNext
    <3>4. QueueOrder'
      BY <2>1, <3>1, <3>2 DEF OrderInv, QueueOrder, ComesNext, LoopPoints, Filled
    <3>5. HandOrder'
      BY <2>1 DEF HandOrder
    <3>6. QED
      BY <3>3, <3>4, <3>5 DEF OrderInv
  <2>4. QED
    BY <2>1, <2>2, <2>3
<1>11. CASE RecycleConverted
  <2>1. /\ preview = "dropConverted" /\ RecycleFrame(held["converted"]) /\ preview' = "capture"
        /\ held' = [held EXCEPT !["converted"] = NoFrame]
        /\ UNCHANGED <<painted, base, delivered, callback, previewFrames>>
    BY <1>11 DEF RecycleConverted, PreviewGoto, history
  <2>2. held["converted"] # NoFrame /\ preview \in LoopPoints
    BY <1>a, <2>1 DEF LoopPoints
  <2>3. CallbackOrder' /\ QueueOrder'
    BY <1>5, <2>1, <2>2
  <2>4. HandOrder'
    BY <2>1 DEF HandOrder
  <2>5. QED
    BY <2>3, <2>4 DEF OrderInv
<1>12. CASE AddCaptureFrame
  <2>1. /\ preview = "capture" /\ preview' = "loop"
        /\ UNCHANGED <<painted, base, delivered, callback, previewFrames>>
        /\ \A r \in Pointers \ {"captureQueue", "frame"} : held'[r] = held[r]
        /\ \/ UNCHANGED picture
           \/ held["captureQueue"] # NoFrame /\ RecycleFrame(held["captureQueue"])
    BY <1>12, <1>a DEF AddCaptureFrame, PreviewGoto, history
  <2>2. /\ \A i \in DOMAIN previewFrames :
              picture'[previewFrames[i]] = picture[previewFrames[i]]
        /\ held["copy"] # NoFrame => picture'[held["copy"]] = picture[held["copy"]]
    BY <2>1, RecyclePictures, PointerNames
  <2>3. held'["copy"] = held["copy"]
    BY <2>1, PointerNames
  <2>4. CallbackOrder' /\ QueueOrder'
    BY <1>a, <2>1, <2>2, <2>3, ThreadKeepsOrder DEF LoopPoints
  <2>5. HandOrder'
    BY <2>1 DEF HandOrder
  <2>6. QED
    BY <2>4, <2>5 DEF OrderInv
<1>13. QED
  BY <1>1, <1>2, <1>3, <1>4, <1>6, <1>7, <1>8, <1>9, <1>10, <1>11, <1>12 DEF LoopStep

(* The pictures stay in the order of delivery on their way through the queue
   and the hands of the preview thread. *)
THEOREM OrderInvariance == Spec => []OrderInv
<1>1. Init => OrderInv
  <2>. SUFFICES ASSUME Init PROVE OrderInv
    OBVIOUS
  <2>1. DOMAIN previewFrames = {}
    BY DEF Init
  <2>2. QED
    BY <2>1 DEF Init, OrderInv, CallbackOrder, QueueOrder, HandOrder, Latest, Filled
<1>2. CInv /\ FInv /\ OrderInv /\ [Next]_vars => OrderInv'
  <2>. SUFFICES ASSUME CInv, FInv, OrderInv, [Next]_vars
                PROVE  OrderInv'
    OBVIOUS
  <2>1. CASE SpuriousWakeUp \/ UNCHANGED vars
    <3>1. /\ UNCHANGED <<painted, base, delivered, callback, previewFrames, held, picture>>
          /\ preview' = preview \/ (preview = "waiting" /\ preview' = "woken")
      BY <2>1 DEF SpuriousWakeUp, PreviewGoto, vars, frameVars, history, threads
    <3>2. QED
      BY <3>1, OrderUnchanged DEF HandPoints, LoopPoints
  <2>2. QED
    BY <2>1, OrderAppStep, OrderPrepareStep, OrderLoopStep, OrderCallbackStep
       DEF Next, PreviewStep
<1>3. QED
  BY <1>1, <1>2, Invariance, PTL DEF Spec

(* No picture is shown after a later one, and none of an earlier session. *)
THEOREM PaintedInOrderTheorem == Spec => PaintedInOrder
<1>1. OrderInv /\ [Next]_vars
        => [painted' # painted => painted' > painted /\ painted' > base]_vars
  <2>. SUFFICES ASSUME OrderInv, Next, painted' # painted
                PROVE  painted' > painted /\ painted' > base
    OBVIOUS
  <2>1. CopyToSurface
    BY DEF Next, AppStep, SetPreviewDisplay, SetPreviewSize, StartPreview, CreateThread,
       CreateThreadFails, StopPreview, SignalStop, Join, ReleaseWindow, Destroy,
       PreviewStep, PrepareStep, Negotiate, Configure, MeasureFrame, StartStream, LockPreview,
       ClearPreviewFrame, ClearDone, SpuriousWakeUp, LoopStep, LoopTest, WaitPreviewFrame,
       WakeUp, Decode, DecodeIntoNull, RecycleMjpeg, RecycleUndecoded, ReadWindow,
       Convert, ConvertFromNull, RecycleConverted, AddCaptureFrame, StopStream, StreamStopped,
       CallbackStep, Deliver, TestPicture, DuplicatePicture, AddPreviewFrame, DropCopy,
       history
  <2>2. preview = "paint" /\ painted' = picture[held["converted"]]
    BY <2>1 DEF CopyToSurface
  <2>3. ComesNext(painted') /\ painted' # 0
    BY <2>2 DEF OrderInv, HandOrder
  <2>4. QED
    BY <2>3 DEF ComesNext
<1>2. QED
  BY <1>1, OrderInvariance, PTL DEF Spec, PaintedInOrder
==============================================================================
