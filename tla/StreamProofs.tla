---------------------------- MODULE StreamProofs ----------------------------
(***************************************************************************)
(* Theorems about Stream, for any number of transfers, frames and sessions. *)
(*                                                                         *)
(* The inductive invariant has a part for each question, about a few        *)
(* variables each: who is where while the flag is up (CallerInv), who has   *)
(* which transfer (TransferInv), which buffer has which frame (FrameInv),   *)
(* who sleeps (NoLostWakeUp) and what a stop leaves in flight (EscapeInv).  *)
(* Each part has a lemma for each thread, and the lemma a case for each     *)
(* action.                                                                  *)
(***************************************************************************)
EXTENDS Stream, FiniteSetTheorems, TLAPS

(* The flag and the control points have their types. *)
ControlOK ==
  /\ running \in BOOLEAN
  /\ caller \in CallerPoints /\ event \in EventPoints /\ user \in UserPoints

(* The flag is up from the start of the stream to the call that stops it, and
   there is a user thread only between the start and the join. *)
CallerInv ==
  /\ running <=> caller \in {"submit", "streaming"}
  /\ caller \in {"start", "closed"} => user = "none"
  /\ caller = "close" => user \in {"none", "exited"}

(* A transfer in flight, or in a callback, is in its slot, and never both; the
   loop that submits finds the rest in their slots; a stop that has waited
   leaves none. *)
TransferInv ==
  /\ slots \subseteq Transfers /\ inFlight \subseteq slots /\ cancelled \subseteq inFlight
  /\ next \in 1..(NumTransfers + 1) /\ transfer \in Nat
  /\ event # "idle" => transfer \in slots /\ transfer \notin inFlight
  /\ caller = "submit" =>
       \A t \in Transfers : t >= next =>
         t \in slots /\ t \notin inFlight /\ (event # "idle" => t # transfer)
  /\ caller \in {"start", "join", "close", "closed", "crashed"} => slots = {}

(* The types of what the frames are made of. *)
FrameTypes ==
  /\ seq \in 0..(MaxFrames + 1) /\ gotData \in BOOLEAN /\ spoiled \in BOOLEAN
  /\ outbuf \in Buffers /\ image \in [Buffers -> 0..MaxFrames]
  /\ hold \in [seq : 0..MaxFrames, err : BOOLEAN]
  /\ lastSeq \in 0..MaxFrames
  /\ frame \in [seq : 0..MaxFrames, image : 0..MaxFrames, err : BOOLEAN]

(* A frame that ends has data, or is spoiled; the data in a buffer are of the
   frame its number says. *)
BufferInv ==
  /\ caller = "start" => ~gotData
  /\ event = "swap" => seq <= MaxFrames /\ (gotData \/ spoiled)
  /\ gotData => image[outbuf] = seq
  /\ ~hold.err => image[holdbuf] = hold.seq

(* While the user thread has cb_mutex the frame on hold is the one it took. *)
CopyInv ==
  /\ user \in {"populate", "copy"} => hold.seq = lastSeq
  /\ user = "copy" => frame.seq = hold.seq /\ frame.err = hold.err
  /\ FrameIntact

FrameInv == FrameTypes /\ BufferInv /\ CopyInv

(* What uvc_stream_stop did not cancel is the one transfer that a callback was
   about to resubmit. *)
EscapeInv ==
  caller \in {"waiting", "woken"} =>
    /\ event = "submit" => inFlight \subseteq cancelled
    /\ \A s, t \in inFlight \ cancelled : s = t

(* The bound of the model is kept. *)
SessionsOK == sessions \in 0..MaxSessions

Inv == /\ ControlOK /\ CallerInv /\ TransferInv /\ FrameInv /\ NoLostWakeUp
       /\ EscapeInv /\ SessionsOK

-----------------------------------------------------------------------------
(* outbuf and holdbuf are exchanged: the other of the other is the one. *)
LEMMA BuffersAlternate ==
  ASSUME NEW b \in Buffers
  PROVE  Other(b) \in Buffers /\ Other(b) # b /\ Other(Other(b)) = b
BY DEF Buffers, Other

(* No stream is open yet: everything is empty. *)
LEMMA InitInv == Init => Inv
<1>. SUFFICES ASSUME Init PROVE Inv
  OBVIOUS
<1>. USE StreamAssumption DEF Init
<1>1. ControlOK /\ CallerInv /\ NoLostWakeUp /\ EscapeInv
  BY DEF ControlOK, CallerInv, NoLostWakeUp, EscapeInv, CallerPoints, EventPoints,
     UserPoints
<1>2. TransferInv /\ SessionsOK
  BY DEF TransferInv, SessionsOK
<1>3. FrameTypes
  <2>1. 0 \in 0..MaxFrames /\ 0 \in 0..(MaxFrames + 1)
    OBVIOUS
  <2>2. hold \in [seq : 0..MaxFrames, err : BOOLEAN]
    BY <2>1
  <2>3. frame \in [seq : 0..MaxFrames, image : 0..MaxFrames, err : BOOLEAN]
    BY <2>1
  <2>4. image \in [Buffers -> 0..MaxFrames]
    BY <2>1
  <2>5. QED
    BY <2>1, <2>2, <2>3, <2>4 DEF FrameTypes, Buffers
<1>4. BufferInv /\ CopyInv
  BY DEF BufferInv, CopyInv, FrameIntact, holdbuf, Other, Buffers
<1>5. QED
  BY <1>1, <1>2, <1>3, <1>4 DEF Inv, FrameInv
-----------------------------------------------------------------------------
(* Control *)

(* Only the caller raises and clears the flag. *)
LEMMA ControlCallerStep ==
  ASSUME ControlOK, CallerInv, CallerStep
  PROVE  (ControlOK /\ CallerInv)'
<1>. USE DEF CallerInv, ControlOK, CallerPoints, EventPoints, UserPoints, usb,
      assembly
<1>1. CASE OpenStream
  BY <1>1 DEF OpenStream
<1>2. CASE StartStream
  BY <1>2 DEF StartStream
<1>3. CASE StartFails
  BY <1>3 DEF StartFails
<1>4. CASE SubmitTransfer
  BY <1>4 DEF SubmitTransfer
<1>5. CASE AllSubmitted
  BY <1>5 DEF AllSubmitted
<1>6. CASE SubmitFails
  BY <1>6 DEF SubmitFails
<1>7. CASE StopStream
  BY <1>7 DEF StopStream
<1>8. CASE CancelTransfers
  BY <1>8 DEF CancelTransfers, AwaitTransfers, Awake
<1>9. CASE CallerWakesUp
  BY <1>9 DEF CallerWakesUp, AwaitTransfers, Awake
<1>10. CASE JoinUser
  BY <1>10 DEF JoinUser
<1>11. CASE CloseStream
  BY <1>11 DEF CloseStream
<1>12. QED
  BY <1>1, <1>2, <1>3, <1>4, <1>5, <1>6, <1>7, <1>8, <1>9, <1>10, <1>11
     DEF CallerStep, CallInProgress

(* The event thread wakes the others and nothing more. *)
LEMMA ControlEventStep ==
  ASSUME ControlOK, CallerInv, EventStep
  PROVE  (ControlOK /\ CallerInv)'
<1>. USE DEF CallerInv, ControlOK, CallerPoints, EventPoints, UserPoints, usb,
      assembly
<1>1. CASE \E t \in Transfers : Complete(t)
  BY <1>1 DEF Complete
<1>2. CASE AddData
  BY <1>2 DEF AddData
<1>3. CASE SpoilFrame
  BY <1>3 DEF SpoilFrame
<1>4. CASE FrameIdFlips
  BY <1>4 DEF FrameIdFlips
<1>5. CASE SwapBuffers
  BY <1>5 DEF SwapBuffers, Broadcast, Awake
<1>6. CASE PacketsDone
  BY <1>6 DEF PacketsDone
<1>7. CASE TestRunning
  BY <1>7 DEF TestRunning
<1>8. CASE Resubmit
  BY <1>8 DEF Resubmit
<1>9. CASE FreeTransfer
  BY <1>9 DEF FreeTransfer, Broadcast, Awake
<1>10. QED
  BY <1>1, <1>2, <1>3, <1>4, <1>5, <1>6, <1>7, <1>8, <1>9 DEF EventStep

(* The user thread moves alone. *)
LEMMA ControlUserStep ==
  ASSUME ControlOK, CallerInv, UserStep
  PROVE  (ControlOK /\ CallerInv)'
<1>. USE DEF CallerInv, ControlOK, CallerPoints, EventPoints, UserPoints, usb,
      assembly
<1>1. CASE TestFrame
  BY <1>1 DEF TestFrame
<1>2. CASE PopulateFrame
  BY <1>2 DEF PopulateFrame
<1>3. CASE CopyImage
  BY <1>3 DEF CopyImage
<1>4. CASE CallbackReturns
  BY <1>4 DEF CallbackReturns
<1>5. QED
  BY <1>1, <1>2, <1>3, <1>4 DEF UserStep

-----------------------------------------------------------------------------
(* Transfers *)

(* A transfer is submitted from its slot, and all slots are filled at once, when
   none is left in flight. *)
LEMMA TransferCallerStep ==
  ASSUME ControlOK, CallerInv, TransferInv, CallerStep
  PROVE  TransferInv'
<1>. USE StreamAssumption DEF ControlOK, CallerInv, TransferInv, Transfers, usb,
      assembly
<1>1. CASE OpenStream
  BY <1>1 DEF OpenStream
<1>2. CASE StartStream
  BY <1>2 DEF StartStream
<1>3. CASE StartFails
  BY <1>3 DEF StartFails
<1>4. CASE SubmitTransfer
  BY <1>4 DEF SubmitTransfer
<1>5. CASE AllSubmitted
  BY <1>5 DEF AllSubmitted
<1>6. CASE SubmitFails
  BY <1>6 DEF SubmitFails
<1>7. CASE StopStream
  BY <1>7 DEF StopStream
<1>8. CASE CancelTransfers
  BY <1>8 DEF CancelTransfers, AwaitTransfers, Awake
<1>9. CASE CallerWakesUp
  BY <1>9 DEF CallerWakesUp, AwaitTransfers, Awake
<1>10. CASE JoinUser
  BY <1>10 DEF JoinUser
<1>11. CASE CloseStream
  BY <1>11 DEF CloseStream
<1>12. QED
  BY <1>1, <1>2, <1>3, <1>4, <1>5, <1>6, <1>7, <1>8, <1>9, <1>10, <1>11
     DEF CallerStep, CallInProgress

(* A callback has its transfer to itself, until it gives it back to libusb or
   empties its slot. *)
LEMMA TransferEventStep ==
  ASSUME ControlOK, CallerInv, TransferInv, EventStep
  PROVE  TransferInv'
<1>. USE StreamAssumption DEF ControlOK, CallerInv, TransferInv, Transfers, usb,
      assembly
<1>1. CASE \E t \in Transfers : Complete(t)
  BY <1>1 DEF Complete
<1>2. CASE AddData
  BY <1>2 DEF AddData
<1>3. CASE SpoilFrame
  BY <1>3 DEF SpoilFrame
<1>4. CASE FrameIdFlips
  BY <1>4 DEF FrameIdFlips
<1>5. CASE SwapBuffers
  BY <1>5 DEF SwapBuffers, Broadcast, Awake
<1>6. CASE PacketsDone
  BY <1>6 DEF PacketsDone
<1>7. CASE TestRunning
  BY <1>7 DEF TestRunning
<1>8. CASE Resubmit
  BY <1>8 DEF Resubmit
<1>9. CASE FreeTransfer
  BY <1>9 DEF FreeTransfer, Broadcast, Awake
<1>10. QED
  BY <1>1, <1>2, <1>3, <1>4, <1>5, <1>6, <1>7, <1>8, <1>9 DEF EventStep

(* The user thread has nothing to do with the transfers. *)
LEMMA TransferUserStep ==
  ASSUME ControlOK, CallerInv, TransferInv, UserStep
  PROVE  TransferInv'
<1>. USE StreamAssumption DEF ControlOK, CallerInv, TransferInv, Transfers, usb,
      assembly
<1>1. CASE TestFrame
  BY <1>1 DEF TestFrame
<1>2. CASE PopulateFrame
  BY <1>2 DEF PopulateFrame
<1>3. CASE CopyImage
  BY <1>3 DEF CopyImage
<1>4. CASE CallbackReturns
  BY <1>4 DEF CallbackReturns
<1>5. QED
  BY <1>1, <1>2, <1>3, <1>4 DEF UserStep

-----------------------------------------------------------------------------
(* Sleepers *)

(* A stop wakes the user thread when it need not wait any longer, and sleeps only
   when a slot is left. *)
LEMMA AwakeCallerStep ==
  ASSUME ControlOK, CallerInv, NoLostWakeUp, SessionsOK, CallerStep
  PROVE  (NoLostWakeUp /\ SessionsOK)'
<1>. USE StreamAssumption DEF ControlOK, CallerInv, CallerPoints, UserPoints,
      NoLostWakeUp, SessionsOK, usb, assembly
<1>1. CASE OpenStream
  BY <1>1 DEF OpenStream
<1>2. CASE StartStream
  BY <1>2 DEF StartStream
<1>3. CASE StartFails
  BY <1>3 DEF StartFails
<1>4. CASE SubmitTransfer
  BY <1>4 DEF SubmitTransfer
<1>5. CASE AllSubmitted
  BY <1>5 DEF AllSubmitted
<1>6. CASE SubmitFails
  BY <1>6 DEF SubmitFails
<1>7. CASE StopStream
  BY <1>7 DEF StopStream
<1>8. CASE CancelTransfers
  BY <1>8 DEF CancelTransfers, AwaitTransfers, Awake
<1>9. CASE CallerWakesUp
  BY <1>9 DEF CallerWakesUp, AwaitTransfers, Awake
<1>10. CASE JoinUser
  BY <1>10 DEF JoinUser
<1>11. CASE CloseStream
  BY <1>11 DEF CloseStream
<1>12. QED
  BY <1>1, <1>2, <1>3, <1>4, <1>5, <1>6, <1>7, <1>8, <1>9, <1>10, <1>11
     DEF CallerStep, CallInProgress

(* Whoever puts a frame on hold, or empties a slot, wakes everybody. *)
LEMMA AwakeEventStep ==
  ASSUME ControlOK, CallerInv, NoLostWakeUp, SessionsOK, EventStep
  PROVE  (NoLostWakeUp /\ SessionsOK)'
<1>. USE DEF ControlOK, CallerInv, CallerPoints, UserPoints, NoLostWakeUp,
      SessionsOK, usb, assembly
<1>1. CASE \E t \in Transfers : Complete(t)
  BY <1>1 DEF Complete
<1>2. CASE AddData
  BY <1>2 DEF AddData
<1>3. CASE SpoilFrame
  BY <1>3 DEF SpoilFrame
<1>4. CASE FrameIdFlips
  BY <1>4 DEF FrameIdFlips
<1>5. CASE SwapBuffers
  BY <1>5 DEF SwapBuffers, Broadcast, Awake
<1>6. CASE PacketsDone
  BY <1>6 DEF PacketsDone
<1>7. CASE TestRunning
  BY <1>7 DEF TestRunning
<1>8. CASE Resubmit
  BY <1>8 DEF Resubmit
<1>9. CASE FreeTransfer
  BY <1>9 DEF FreeTransfer, Broadcast, Awake
<1>10. QED
  BY <1>1, <1>2, <1>3, <1>4, <1>5, <1>6, <1>7, <1>8, <1>9 DEF EventStep

(* The user thread sleeps only when there is no new frame and the stream runs. *)
LEMMA AwakeUserStep ==
  ASSUME ControlOK, CallerInv, NoLostWakeUp, SessionsOK, UserStep
  PROVE  (NoLostWakeUp /\ SessionsOK)'
<1>. USE DEF ControlOK, CallerInv, CallerPoints, UserPoints, NoLostWakeUp,
      SessionsOK, usb, assembly
<1>1. CASE TestFrame
  BY <1>1 DEF TestFrame
<1>2. CASE PopulateFrame
  BY <1>2 DEF PopulateFrame
<1>3. CASE CopyImage
  BY <1>3 DEF CopyImage
<1>4. CASE CallbackReturns
  BY <1>4 DEF CallbackReturns
<1>5. QED
  BY <1>1, <1>2, <1>3, <1>4 DEF UserStep

-----------------------------------------------------------------------------
(* What a stop leaves in flight *)

(* A stop cancels all that is in flight. *)
LEMMA EscapeCallerStep ==
  ASSUME ControlOK, CallerInv, TransferInv, EscapeInv, CallerStep
  PROVE  EscapeInv'
<1>. USE DEF ControlOK, CallerInv, TransferInv, EscapeInv, Transfers, usb, assembly
<1>1. CASE OpenStream
  BY <1>1 DEF OpenStream
<1>2. CASE StartStream
  BY <1>2 DEF StartStream
<1>3. CASE StartFails
  BY <1>3 DEF StartFails
<1>4. CASE SubmitTransfer
  BY <1>4 DEF SubmitTransfer
<1>5. CASE AllSubmitted
  BY <1>5 DEF AllSubmitted
<1>6. CASE SubmitFails
  BY <1>6 DEF SubmitFails
<1>7. CASE StopStream
  BY <1>7 DEF StopStream
<1>8. CASE CancelTransfers
  BY <1>8 DEF CancelTransfers, AwaitTransfers, Awake
<1>9. CASE CallerWakesUp
  BY <1>9 DEF CallerWakesUp, AwaitTransfers, Awake
<1>10. CASE JoinUser
  BY <1>10 DEF JoinUser
<1>11. CASE CloseStream
  BY <1>11 DEF CloseStream
<1>12. QED
  BY <1>1, <1>2, <1>3, <1>4, <1>5, <1>6, <1>7, <1>8, <1>9, <1>10, <1>11
     DEF CallerStep, CallInProgress

(* The one callback that had tested the flag before can resubmit its transfer,
   and no other can after it. *)
LEMMA EscapeEventStep ==
  ASSUME ControlOK, CallerInv, TransferInv, EscapeInv, EventStep
  PROVE  EscapeInv'
<1>. USE DEF ControlOK, CallerInv, TransferInv, EscapeInv, Transfers, usb, assembly
<1>1. CASE \E t \in Transfers : Complete(t)
  BY <1>1 DEF Complete
<1>2. CASE AddData
  BY <1>2 DEF AddData
<1>3. CASE SpoilFrame
  BY <1>3 DEF SpoilFrame
<1>4. CASE FrameIdFlips
  BY <1>4 DEF FrameIdFlips
<1>5. CASE SwapBuffers
  BY <1>5 DEF SwapBuffers, Broadcast, Awake
<1>6. CASE PacketsDone
  BY <1>6 DEF PacketsDone
<1>7. CASE TestRunning
  BY <1>7 DEF TestRunning
<1>8. CASE Resubmit
  BY <1>8 DEF Resubmit
<1>9. CASE FreeTransfer
  BY <1>9 DEF FreeTransfer, Broadcast, Awake
<1>10. QED
  BY <1>1, <1>2, <1>3, <1>4, <1>5, <1>6, <1>7, <1>8, <1>9 DEF EventStep

(* The user thread has nothing to do with it. *)
LEMMA EscapeUserStep ==
  ASSUME ControlOK, CallerInv, TransferInv, EscapeInv, UserStep
  PROVE  EscapeInv'
<1>. USE DEF ControlOK, CallerInv, TransferInv, EscapeInv, Transfers, usb, assembly
<1>1. CASE TestFrame
  BY <1>1 DEF TestFrame
<1>2. CASE PopulateFrame
  BY <1>2 DEF PopulateFrame
<1>3. CASE CopyImage
  BY <1>3 DEF CopyImage
<1>4. CASE CallbackReturns
  BY <1>4 DEF CallbackReturns
<1>5. QED
  BY <1>1, <1>2, <1>3, <1>4 DEF UserStep

-----------------------------------------------------------------------------
(* Frames *)

(* The facts about numbers and about the two buffers that every step below
   uses. *)
LEMMA FrameFacts ==
  ASSUME FrameTypes
  PROVE  /\ 0 \in 0..MaxFrames /\ 0 \in 0..(MaxFrames + 1) /\ 1 \in 0..(MaxFrames + 1)
         /\ holdbuf \in Buffers /\ holdbuf # outbuf /\ Other(holdbuf) = outbuf
         /\ hold.seq \in 0..MaxFrames /\ hold.err \in BOOLEAN
         /\ frame.seq \in 0..MaxFrames /\ frame.image \in 0..MaxFrames /\ frame.err \in BOOLEAN
         /\ \A b \in Buffers : image[b] \in 0..MaxFrames
<1>1. 0 \in 0..MaxFrames /\ 0 \in 0..(MaxFrames + 1) /\ 1 \in 0..(MaxFrames + 1)
  BY StreamAssumption
<1>2. outbuf \in Buffers
  BY DEF FrameTypes
<1>3. holdbuf \in Buffers /\ holdbuf # outbuf /\ Other(holdbuf) = outbuf
  BY <1>2, BuffersAlternate DEF holdbuf
<1>4. hold.seq \in 0..MaxFrames /\ hold.err \in BOOLEAN
  BY DEF FrameTypes
<1>5. frame.seq \in 0..MaxFrames /\ frame.image \in 0..MaxFrames /\ frame.err \in BOOLEAN
  BY DEF FrameTypes
<1>6. \A b \in Buffers : image[b] \in 0..MaxFrames
  BY DEF FrameTypes
<1>7. QED
  BY <1>1, <1>3, <1>4, <1>5, <1>6

(* Only an open touches buffers and frames, when there is no user thread; a start
   finds an empty frame. *)
LEMMA FrameCallerStep ==
  ASSUME ControlOK, CallerInv, TransferInv, FrameInv, CallerStep
  PROVE  FrameInv'
<1>. USE FrameFacts DEF ControlOK, CallerInv, FrameInv, FrameTypes, BufferInv,
      CopyInv, FrameIntact, holdbuf, usb, assembly
<1>0. caller \in {"closed", "start"} => event = "idle" /\ user = "none"
  BY DEF TransferInv
<1>1. CASE OpenStream
  <2>1. /\ image' \in [Buffers -> 0..MaxFrames] /\ image'["a"] = 0 /\ image'["b"] = 0
        /\ hold' \in [seq : 0..MaxFrames, err : BOOLEAN] /\ hold'.seq = 0
        /\ frame' \in [seq : 0..MaxFrames, image : 0..MaxFrames, err : BOOLEAN]
    BY <1>1 DEF OpenStream, Buffers
  <2>2. FrameTypes'
    BY <1>1, <2>1 DEF OpenStream, Buffers
  <2>3. (BufferInv /\ CopyInv)'
    BY <1>0, <1>1, <2>1 DEF OpenStream, Other
  <2>4. QED
    BY <2>2, <2>3
<1>2. CASE StartStream
  BY <1>0, <1>2 DEF StartStream
<1>3. CASE StartFails
  BY <1>0, <1>3 DEF StartFails
<1>4. CASE SubmitTransfer
  BY <1>4 DEF SubmitTransfer
<1>5. CASE AllSubmitted
  BY <1>5 DEF AllSubmitted
<1>6. CASE SubmitFails
  BY <1>6 DEF SubmitFails
<1>7. CASE StopStream
  BY <1>7 DEF StopStream
<1>8. CASE CancelTransfers
  BY <1>8 DEF CancelTransfers, AwaitTransfers, Awake
<1>9. CASE CallerWakesUp
  BY <1>9 DEF CallerWakesUp, AwaitTransfers, Awake
<1>10. CASE JoinUser
  BY <1>10 DEF JoinUser
<1>11. CASE CloseStream
  BY <1>11 DEF CloseStream
<1>12. QED
  BY <1>1, <1>2, <1>3, <1>4, <1>5, <1>6, <1>7, <1>8, <1>9, <1>10, <1>11
     DEF CallerStep, CallInProgress

(* Data go to the buffer that is not on hold, and the buffers are exchanged only
   while the user thread does not have the mutex. *)
LEMMA FrameEventStep ==
  ASSUME ControlOK, CallerInv, TransferInv, FrameInv, EventStep
  PROVE  FrameInv'
<1>. USE FrameFacts DEF ControlOK, CallerInv, FrameInv, FrameTypes, BufferInv,
      CopyInv, FrameIntact, holdbuf, usb, assembly
<1>1. CASE \E t \in Transfers : Complete(t)
  BY <1>1 DEF Complete
<1>2. CASE AddData
  <2>1. seq \in 0..MaxFrames
    BY <1>2, StreamAssumption DEF AddData
  <2>2. /\ image' \in [Buffers -> 0..MaxFrames]
        /\ image'[outbuf] = seq /\ image'[holdbuf] = image[holdbuf]
    BY <1>2, <2>1 DEF AddData
  <2>3. FrameTypes'
    BY <1>2, <2>2 DEF AddData
  <2>4. BufferInv'
    <3>1. UNCHANGED <<seq, outbuf, hold, caller>> /\ gotData'
      BY <1>2 DEF AddData
    <3>2. seq <= MaxFrames
      BY <1>2 DEF AddData
    <3>3. (caller # "start")'
      BY <1>2 DEF AddData, TransferInv
    <3>4. QED
      BY <2>2, <3>1, <3>2, <3>3
  <2>5. CopyInv'
    BY <1>2 DEF AddData
  <2>6. QED
    BY <2>3, <2>4, <2>5
<1>3. CASE SpoilFrame
  BY <1>3 DEF SpoilFrame
<1>4. CASE FrameIdFlips
  BY <1>4 DEF FrameIdFlips
<1>5. CASE SwapBuffers
  <2>1. seq \in 0..MaxFrames /\ seq + 1 \in 0..(MaxFrames + 1)
    BY <1>5, StreamAssumption DEF SwapBuffers
  <2>2. /\ hold' \in [seq : 0..MaxFrames, err : BOOLEAN]
        /\ hold'.seq = seq /\ hold'.err = spoiled
        /\ outbuf' \in Buffers /\ holdbuf' = outbuf /\ image' = image
    BY <1>5, <2>1 DEF SwapBuffers
  <2>3. FrameTypes'
    BY <1>5, <2>1, <2>2 DEF SwapBuffers
  <2>4. BufferInv'
    BY <1>5, <2>2 DEF SwapBuffers, Broadcast, Awake
  <2>5. CopyInv'
    BY <1>5 DEF SwapBuffers, Broadcast, Awake, MutexFree
  <2>6. QED
    BY <2>3, <2>4, <2>5
<1>6. CASE PacketsDone
  BY <1>6 DEF PacketsDone
<1>7. CASE TestRunning
  BY <1>7 DEF TestRunning
<1>8. CASE Resubmit
  BY <1>8 DEF Resubmit
<1>9. CASE FreeTransfer
  BY <1>9 DEF FreeTransfer, Broadcast, Awake
<1>10. QED
  BY <1>1, <1>2, <1>3, <1>4, <1>5, <1>6, <1>7, <1>8, <1>9 DEF EventStep

(* The user thread copies what is on hold. *)
LEMMA FrameUserStep ==
  ASSUME ControlOK, CallerInv, TransferInv, FrameInv, UserStep
  PROVE  FrameInv'
<1>. USE FrameFacts DEF ControlOK, CallerInv, FrameInv, FrameTypes, BufferInv,
      CopyInv, FrameIntact, holdbuf, usb, assembly
<1>1. CASE TestFrame
  BY <1>1 DEF TestFrame
<1>2. CASE PopulateFrame
  BY <1>2 DEF PopulateFrame
<1>3. CASE CopyImage
  BY <1>3 DEF CopyImage
<1>4. CASE CallbackReturns
  BY <1>4 DEF CallbackReturns
<1>5. QED
  BY <1>1, <1>2, <1>3, <1>4 DEF UserStep

-----------------------------------------------------------------------------
(* The invariant *)

(* A wake-up that nobody caused changes who sleeps, and nothing else. *)
LEMMA InvSpuriousWakeUp ==
  ASSUME Inv, SpuriousWakeUp
  PROVE  Inv'
<1>. USE DEF Inv, SpuriousWakeUp, usb, assembly
<1>1. (ControlOK /\ CallerInv)'
  BY DEF ControlOK, CallerInv, CallerPoints, UserPoints
<1>2. (TransferInv /\ EscapeInv /\ SessionsOK)'
  BY DEF TransferInv, EscapeInv, SessionsOK
<1>3. FrameInv'
  BY DEF FrameInv, FrameTypes, BufferInv, CopyInv, FrameIntact, holdbuf
<1>4. NoLostWakeUp'
  BY DEF NoLostWakeUp, ControlOK
<1>5. QED
  BY <1>1, <1>2, <1>3, <1>4

(* A step of something else keeps everything. *)
LEMMA InvStutter ==
  ASSUME Inv, UNCHANGED vars
  PROVE  Inv'
BY DEF Inv, vars, usb, assembly, ControlOK, CallerInv, TransferInv, EscapeInv,
   SessionsOK,
  FrameInv, FrameTypes, BufferInv, CopyInv, FrameIntact, holdbuf, NoLostWakeUp

(* Inv is inductive. *)
LEMMA InvStep == Inv /\ [Next]_vars => Inv'
<1>. SUFFICES ASSUME Inv, [Next]_vars PROVE Inv'
  OBVIOUS
<1>1. CASE CallerStep
  BY <1>1, ControlCallerStep, TransferCallerStep, AwakeCallerStep, EscapeCallerStep,
     FrameCallerStep DEF Inv
<1>2. CASE EventStep
  BY <1>2, ControlEventStep, TransferEventStep, AwakeEventStep, EscapeEventStep,
     FrameEventStep DEF Inv
<1>3. CASE UserStep
  BY <1>3, ControlUserStep, TransferUserStep, AwakeUserStep, EscapeUserStep,
     FrameUserStep DEF Inv
<1>4. CASE SpuriousWakeUp
  BY <1>4, InvSpuriousWakeUp
<1>5. CASE UNCHANGED vars
  BY <1>5, InvStutter
<1>6. QED
  BY <1>1, <1>2, <1>3, <1>4, <1>5 DEF Next

(* The strengthened invariant holds of every stream, whatever the number of
   transfers (LIBUVC_NUM_TRANSFER_BUFS) and of frames. *)
THEOREM StreamInvariant == Spec => []Inv
<1>1. QED
  BY InitInv, InvStep, PTL DEF Spec

-----------------------------------------------------------------------------
(* What follows *)

(* Type correctness of the stream handle and the three threads. *)
THEOREM StreamTypes == Spec => []TypeOK
<1>1. Inv => TypeOK
  BY DEF Inv, TypeOK, ControlOK, SessionsOK, TransferInv, FrameInv, FrameTypes
<1>2. QED
  BY <1>1, StreamInvariant, PTL

(* uvc_stream_close frees the handle when neither libusb nor a thread of
   libuvc can touch it any more. *)
THEOREM CloseIsLast == Spec => []NothingAfterClose
<1>1. Inv => NothingAfterClose
  BY DEF Inv, NothingAfterClose, CallerInv, TransferInv
<1>2. QED
  BY <1>1, StreamInvariant, PTL

(* The broadcasts of _uvc_swap_buffers, _uvc_delete_transfer and
   uvc_stream_stop reach whoever has something to do. *)
THEOREM WakeUpsAreNotLost == Spec => []NoLostWakeUp
<1>1. Inv => NoLostWakeUp
  BY DEF Inv
<1>2. QED
  BY <1>1, StreamInvariant, PTL

(* The double buffer works: the user callback never sees a frame mixed from
   two. *)
THEOREM CallbackSeesWholeFrame == Spec => []FrameIntact
<1>1. Inv => FrameIntact
  BY DEF Inv, FrameInv, CopyInv
<1>2. QED
  BY <1>1, StreamInvariant, PTL

(* uvc_stream_stop misses one transfer at most, however many there are. *)
THEOREM StopMissesOne == Spec => []AtMostOneEscapes
<1>1. ASSUME NEW S, S \subseteq Transfers, \A s, t \in S : s = t
      PROVE  Cardinality(S) <= 1
  <2>1. CASE S = {}
    BY <2>1, FS_EmptySet
  <2>2. CASE S # {}
    <3>1. PICK s \in S : TRUE
      BY <2>2
    <3>2. S = {s}
      BY <1>1, <3>1
    <3>3. Cardinality({s}) = 1
      BY FS_Singleton
    <3>4. QED
      BY <3>2, <3>3
  <2>3. QED
    BY <2>1, <2>2
<1>2. Inv => AtMostOneEscapes
  <2>1. SUFFICES ASSUME Inv, caller \in {"waiting", "woken"}
                 PROVE  Cardinality(inFlight \ cancelled) <= 1
    BY DEF AtMostOneEscapes
  <2>2. inFlight \ cancelled \subseteq Transfers
    BY <2>1 DEF Inv, TransferInv
  <2>3. \A s, t \in inFlight \ cancelled : s = t
    BY <2>1 DEF Inv, EscapeInv
  <2>4. QED
    BY <1>1, <2>2, <2>3
<1>3. QED
  BY <1>2, StreamInvariant, PTL

-----------------------------------------------------------------------------
(* The stream is the service UVCPreview relies on *)

State == IF running THEN "on"
         ELSE IF caller \in {"cancel", "waiting", "woken", "join", "crashed"}
              THEN "stopping" ELSE "off"
Busy == user \in {"populate", "copy", "callback"}

ServiceVars == <<State, Busy>>

(* A stream that was never opened is off. *)
LEMMA ServiceInit == Init => Service!Init
BY DEF Init, Service!Init, State, Busy

(* A start and a stop are the caller's steps that the service shows. *)
LEMMA ServiceCallerStep ==
  ASSUME Inv, CallerStep
  PROVE  Service!Next \/ UNCHANGED ServiceVars
<1>. USE DEF Inv, ControlOK, CallerInv, State, Busy, ServiceVars
<1>1. CASE OpenStream
  BY <1>1 DEF OpenStream
<1>2. CASE StartStream
  <2>1. Service!Start
    BY <1>2 DEF StartStream, Service!Start
  <2>2. QED
    BY <2>1 DEF Service!Next
<1>3. CASE StartFails
  BY <1>3 DEF StartFails
<1>4. CASE SubmitTransfer
  BY <1>4 DEF SubmitTransfer
<1>5. CASE AllSubmitted
  BY <1>5 DEF AllSubmitted
<1>6. CASE SubmitFails
  BY <1>6 DEF SubmitFails
<1>7. CASE StopStream
  <2>1. Service!Stop
    BY <1>7 DEF StopStream, Service!Stop
  <2>2. QED
    BY <2>1 DEF Service!Next
<1>8. CASE CancelTransfers
  BY <1>8 DEF CancelTransfers, AwaitTransfers, Awake
<1>9. CASE CallerWakesUp
  BY <1>9 DEF CallerWakesUp, AwaitTransfers, Awake
<1>10. CASE JoinUser
  <2>1. CASE caller' = "crashed"
    BY <1>10, <2>1 DEF JoinUser
  <2>2. CASE caller' = "close"
    <3>1. Service!Stopped
      BY <1>10, <2>2 DEF JoinUser, Service!Stopped
    <3>2. QED
      BY <3>1 DEF Service!Next
  <2>3. QED
    BY <1>10, <2>1, <2>2 DEF JoinUser
<1>11. CASE CloseStream
  BY <1>11 DEF CloseStream
<1>12. QED
  BY <1>1, <1>2, <1>3, <1>4, <1>5, <1>6, <1>7, <1>8, <1>9, <1>10, <1>11
     DEF CallerStep, CallInProgress

(* What the event thread does is not seen by the users of the stream. *)
LEMMA ServiceEventStep ==
  ASSUME Inv, EventStep
  PROVE  UNCHANGED ServiceVars
<1>. USE DEF Inv, ControlOK, State, Busy, ServiceVars
<1>1. CASE \E t \in Transfers : Complete(t)
  BY <1>1 DEF Complete
<1>2. CASE AddData
  BY <1>2 DEF AddData
<1>3. CASE SpoilFrame
  BY <1>3 DEF SpoilFrame
<1>4. CASE FrameIdFlips
  BY <1>4 DEF FrameIdFlips
<1>5. CASE SwapBuffers
  BY <1>5 DEF SwapBuffers, Broadcast, Awake
<1>6. CASE PacketsDone
  BY <1>6 DEF PacketsDone
<1>7. CASE TestRunning
  BY <1>7 DEF TestRunning
<1>8. CASE Resubmit
  BY <1>8 DEF Resubmit
<1>9. CASE FreeTransfer
  BY <1>9 DEF FreeTransfer, Broadcast, Awake
<1>10. QED
  BY <1>1, <1>2, <1>3, <1>4, <1>5, <1>6, <1>7, <1>8, <1>9 DEF EventStep

(* A call of the user callback begins with the frame taken under the mutex. *)
LEMMA ServiceUserStep ==
  ASSUME Inv, UserStep
  PROVE  Service!Next \/ UNCHANGED ServiceVars
<1>. USE DEF Inv, ControlOK, State, Busy, ServiceVars
<1>1. CASE TestFrame
  <2>1. CASE user' = "populate"
    <3>1. Service!Deliver
      BY <1>1, <2>1 DEF TestFrame, Service!Deliver
    <3>2. QED
      BY <3>1 DEF Service!Next
  <2>2. CASE user' # "populate"
    BY <1>1, <2>2 DEF TestFrame
  <2>3. QED
    BY <2>1, <2>2
<1>2. CASE PopulateFrame
  BY <1>2 DEF PopulateFrame
<1>3. CASE CopyImage
  BY <1>3 DEF CopyImage
<1>4. CASE CallbackReturns
  <2>1. Service!Return
    BY <1>4 DEF CallbackReturns, Service!Return
  <2>2. QED
    BY <2>1 DEF Service!Next
<1>5. QED
  BY <1>1, <1>2, <1>3, <1>4 DEF UserStep

(* The stream implements StreamService: the callback is called only between a
   start and the end of a stop, one call at a time, and uvc_stop_streaming
   does not return before the last call has. *)
THEOREM StreamServes == Spec => ServiceSpec
<1>1. Inv /\ [Next]_vars => [Service!Next]_ServiceVars
  <2>. SUFFICES ASSUME Inv, [Next]_vars PROVE Service!Next \/ UNCHANGED ServiceVars
    OBVIOUS
  <2>1. CASE SpuriousWakeUp
    BY <2>1 DEF SpuriousWakeUp, State, Busy, ServiceVars
  <2>2. CASE UNCHANGED vars
    BY <2>2 DEF vars, State, Busy, ServiceVars
  <2>3. QED
    BY <2>1, <2>2, ServiceCallerStep, ServiceEventStep, ServiceUserStep DEF Next
<1>2. QED
  BY <1>1, ServiceInit, StreamInvariant, PTL
     DEF Spec, ServiceSpec, Service!Spec, ServiceVars, State, Busy

-----------------------------------------------------------------------------
(* The two buffers are a mailbox *)

(* The frames are numbered without gaps, and the user thread is never ahead. *)
NumberInv ==
  /\ caller = "start" => hold.seq = 0
  /\ running => lastSeq <= hold.seq /\ seq = hold.seq + 1

(* No stream is open yet. *)
LEMMA NumberInit == Init => NumberInv
BY DEF Init, NumberInv

(* A start finds an empty frame; a swap numbers the next. *)
LEMMA NumberStep ==
  ASSUME Inv, NumberInv, [Next]_vars
  PROVE  NumberInv'
<1>1. /\ seq \in Int /\ hold.seq \in Int /\ lastSeq \in Int
      /\ running \in BOOLEAN /\ (running <=> caller \in {"submit", "streaming"})
      /\ caller = "start" => event = "idle" /\ user = "none"
  BY FrameFacts DEF Inv, FrameInv, FrameTypes, ControlOK, CallerInv, TransferInv
<1> USE DEF NumberInv, assembly, usb
<1>2. CASE CallerStep
  <2>1. CASE OpenStream
    BY <1>1, <2>1 DEF OpenStream
  <2>2. CASE StartStream
    BY <1>1, <2>2 DEF StartStream
  <2>3. CASE StopStream
    BY <1>1, <2>3 DEF StopStream
  <2>4. CASE CallInProgress /\ ~StartStream
    BY <1>1, <2>4 DEF CallInProgress, StartFails, SubmitTransfer, AllSubmitted, SubmitFails,
       CancelTransfers, CallerWakesUp, AwaitTransfers, JoinUser, CloseStream
  <2> QED BY <1>2, <2>1, <2>2, <2>3, <2>4 DEF CallerStep
<1>3. CASE EventStep
  <2>1. CASE SwapBuffers
    BY <1>1, <2>1 DEF SwapBuffers, Broadcast, Awake
  <2>2. CASE EventStep /\ ~SwapBuffers
    BY <1>1, <2>2 DEF EventStep, Complete, AddData, SpoilFrame, FrameIdFlips, PacketsDone,
       TestRunning, Resubmit, FreeTransfer, Broadcast, Awake
  <2> QED BY <1>3, <2>1, <2>2
<1>4. CASE UserStep
  BY <1>1, <1>4 DEF UserStep, TestFrame, PopulateFrame, CopyImage, CallbackReturns
<1>5. CASE SpuriousWakeUp
  BY <1>1, <1>5 DEF SpuriousWakeUp
<1>6. CASE UNCHANGED vars
  BY <1>1, <1>6 DEF vars
<1> QED BY <1>2, <1>3, <1>4, <1>5, <1>6 DEF Next

Newest == IF MailboxOpen THEN hold.seq ELSE 0
Taken  == IF MailboxOpen THEN lastSeq ELSE 0
BoxVars == <<MailboxOpen, Newest, Taken>>

(* Every step of the three threads is one of the mailbox, or is not seen there. *)
LEMMA BoxStep ==
  ASSUME Inv, NumberInv, [Next]_vars
  PROVE  Box!Next \/ UNCHANGED BoxVars
<1>1. /\ seq \in Int /\ hold.seq \in Int /\ lastSeq \in Int
      /\ running \in BOOLEAN /\ (running <=> caller \in {"submit", "streaming"})
      /\ caller = "start" => hold.seq = 0
      /\ running => lastSeq <= hold.seq /\ seq = hold.seq + 1
  BY FrameFacts DEF Inv, FrameInv, FrameTypes, ControlOK, CallerInv, NumberInv
<1> USE DEF MailboxOpen, Newest, Taken, BoxVars, assembly, usb
<1>2. CASE CallerStep
  <2>1. CASE OpenStream
    BY <1>1, <2>1 DEF OpenStream
  <2>2. CASE StartStream
    <3>1. CASE user' = "none"
      BY <1>1, <2>2, <3>1 DEF StartStream
    <3>2. CASE user' # "none"
      <4>1. Box!Open
        BY <1>1, <2>2, <3>2 DEF StartStream, Box!Open
      <4> QED BY <4>1 DEF Box!Next
    <3> QED BY <3>1, <3>2
  <2>3. CASE StopStream
    <3>1. CASE user = "none"
      BY <2>3, <3>1 DEF StopStream
    <3>2. CASE user # "none"
      <4>1. Box!Close
        BY <1>1, <2>3, <3>2 DEF StopStream, Box!Close
      <4> QED BY <4>1 DEF Box!Next
    <3> QED BY <3>1, <3>2
  <2>4. CASE CloseStream
    BY <1>1, <2>4 DEF CloseStream
  <2>5. CASE CallInProgress /\ ~StartStream /\ ~CloseStream
    BY <1>1, <2>5 DEF CallInProgress, StartFails, SubmitTransfer, AllSubmitted, SubmitFails,
       CancelTransfers, CallerWakesUp, AwaitTransfers, Awake, JoinUser
  <2> QED BY <1>2, <2>1, <2>2, <2>3, <2>4, <2>5 DEF CallerStep
<1>3. CASE EventStep
  <2>1. CASE SwapBuffers
    <3>1. CASE MailboxOpen
      <4>1. Box!Put
        BY <1>1, <2>1, <3>1 DEF SwapBuffers, Broadcast, Awake, Box!Put
      <4> QED BY <4>1 DEF Box!Next
    <3>2. CASE ~MailboxOpen
      BY <1>1, <2>1, <3>2 DEF SwapBuffers, Broadcast, Awake
    <3> QED BY <3>1, <3>2
  <2>2. CASE EventStep /\ ~SwapBuffers
    BY <1>1, <2>2 DEF EventStep, Complete, AddData, SpoilFrame, FrameIdFlips, PacketsDone,
       TestRunning, Resubmit, FreeTransfer, Broadcast, Awake
  <2> QED BY <1>3, <2>1, <2>2
<1>4. CASE UserStep
  <2>1. CASE TestFrame /\ user' = "populate"
    <3>1. Box!Take
      BY <1>1, <2>1 DEF TestFrame, Box!Take
    <3> QED BY <3>1 DEF Box!Next
  <2>2. CASE TestFrame /\ user' # "populate"
    BY <1>1, <2>2 DEF TestFrame
  <2>3. CASE PopulateFrame \/ CopyImage \/ CallbackReturns
    BY <1>1, <2>3 DEF PopulateFrame, CopyImage, CallbackReturns
  <2> QED BY <1>4, <2>1, <2>2, <2>3 DEF UserStep
<1>5. CASE SpuriousWakeUp
  BY <1>1, <1>5 DEF SpuriousWakeUp
<1>6. CASE UNCHANGED vars
  BY <1>1, <1>6 DEF vars
<1> QED BY <1>2, <1>3, <1>4, <1>5, <1>6 DEF Next

(* _uvc_swap_buffers and _uvc_user_caller implement Mailbox: frames are put one after
   the other, the newest is taken, none twice and none out of order.  (That the newest
   is taken at last, the fairness in MailboxSpec, is checked by TLC.) *)
THEOREM StreamIsAMailbox == Spec => Box!Spec
<1>1. Init => Box!Init
  BY DEF Init, Box!Init, MailboxOpen
<1>2. Inv /\ NumberInv /\ [Next]_vars => NumberInv' /\ [Box!Next]_BoxVars
  BY NumberStep, BoxStep
<1> QED
  BY <1>1, <1>2, NumberInit, StreamInvariant, PTL
     DEF Spec, Box!Spec, Box!vars, BoxVars, MailboxOpen, Newest, Taken
=============================================================================
