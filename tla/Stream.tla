------------------------------- MODULE Stream -------------------------------
(***************************************************************************)
(* One video stream of libuvc (stream.c), over several sessions of         *)
(* uvc_start_streaming_bandwidth and uvc_stop_streaming.  Three threads:   *)
(*                                                                         *)
(*   - the caller, which opens, starts, stops and closes the stream (the   *)
(*     preview thread of UVCPreview);                                      *)
(*   - libusb's event thread, which runs _uvc_stream_callback for each     *)
(*     transfer that completes, and resubmits it;                          *)
(*   - the user thread (_uvc_user_caller), which copies the newest frame   *)
(*     and gives it to the user callback.                                  *)
(*                                                                         *)
(* cb_mutex is held across steps by the user thread alone, while it copies *)
(* the frame; every other critical section is one step.  What a payload    *)
(* does to the frame in progress is reduced to "wrote data", "spoiled it"  *)
(* and "ended it".                                                         *)
(***************************************************************************)
EXTENDS Integers, FiniteSets

CONSTANTS
  NumTransfers,  \* LIBUVC_NUM_TRANSFER_BUFS
  MaxFrames,     \* bound: frames the camera completes in a session
  MaxSessions    \* bound: how often the stream is opened

ASSUME StreamAssumption ==
  NumTransfers \in Nat /\ MaxFrames \in Nat /\ MaxSessions \in Nat

Transfers == 1..NumTransfers
Buffers == {"a", "b"}
Other(b) == IF b = "a" THEN "b" ELSE "a"

VARIABLES
  sessions,   \* how often the stream was opened
  running,    \* strmh->running
  slots,      \* the i with strmh->transfers[i] # NULL
  inFlight,   \* transfers submitted to libusb whose callback has not begun
  cancelled,  \* those of inFlight that libusb was asked to cancel
  next,       \* transfer_id of the loop that submits the transfers
  transfer,   \* the transfer whose callback the event thread runs
  seq,        \* strmh->seq, number of the frame in progress
  gotData,    \* strmh->got_bytes # 0
  spoiled,    \* strmh->bfh_err # 0
  outbuf,     \* which buffer strmh->outbuf is; holdbuf is the other
  image,      \* number of the frame whose data a buffer holds
  hold,       \* hold_seq and hold_bfh_err
  lastSeq,    \* last_seq of the user thread
  frame,      \* strmh->frame, as the user callback sees it
  caller, event, user  \* control points of the three threads

holdbuf == Other(outbuf)

usb      == <<slots, inFlight, cancelled, next, transfer>>
assembly == <<seq, gotData, spoiled, outbuf, image, hold>>
vars == <<sessions, running, usb, assembly, lastSeq, frame, caller, event, user>>

MutexFree == user \notin {"populate", "copy"}

(* pthread_cond_broadcast(&cb_cond), and none. *)
Awake(point) == IF point = "waiting" THEN "woken" ELSE point
Broadcast == caller' = Awake(caller) /\ user' = Awake(user)
NoBroadcast == UNCHANGED <<caller, user>>

-----------------------------------------------------------------------------
Init ==
  /\ sessions = 0
  /\ running = FALSE
  /\ slots = {} /\ inFlight = {} /\ cancelled = {} /\ next = 1 /\ transfer = 1
  /\ seq = 0 /\ gotData = FALSE /\ spoiled = FALSE
  /\ outbuf = "a" /\ image = [b \in Buffers |-> 0]
  /\ hold = [seq |-> 0, err |-> FALSE]
  /\ lastSeq = 0
  /\ frame = [seq |-> 0, image |-> 0, err |-> FALSE]
  /\ caller = "closed" /\ event = "idle" /\ user = "none"

-----------------------------------------------------------------------------
(* The caller *)

(* uvc_stream_open_ctrl: a fresh handle.  When it fails there is none. *)
OpenStream ==
  /\ caller = "closed" /\ sessions < MaxSessions
  /\ sessions' = sessions + 1
  /\ slots' = {} /\ next' = 1
  /\ seq' = 0 /\ gotData' = FALSE /\ spoiled' = FALSE
  /\ outbuf' = "a" /\ image' = [b \in Buffers |-> 0]
  /\ hold' = [seq |-> 0, err |-> FALSE]
  /\ frame' = [seq |-> 0, image |-> 0, err |-> FALSE]
  /\ caller' = "start"
  /\ UNCHANGED <<running, inFlight, cancelled, transfer, lastSeq, event, user>>

(* uvc_stream_start_bandwidth up to the creation of the user thread.  The
   result of pthread_create is not looked at. *)
StartStream ==
  /\ caller = "start"
  /\ running' = TRUE /\ slots' = Transfers
  /\ seq' = 1 /\ spoiled' = FALSE
  /\ lastSeq' = 0
  /\ caller' = "submit" /\ user' \in {"lock", "none"}
  /\ UNCHANGED <<sessions, inFlight, cancelled, next, transfer, gotData, outbuf,
                 image, hold, frame, event>>

(* No descriptor, format or alternate setting fits: the stream is closed. *)
StartFails ==
  /\ caller = "start"
  /\ seq' = 1 /\ spoiled' = FALSE
  /\ caller' = "close"
  /\ UNCHANGED <<sessions, running, usb, gotData, outbuf, image, hold, lastSeq,
                 frame, event, user>>

(* A loop that goes one transfer too far. *)
SubmitBeyond ==
  /\ caller = "submit" /\ next <= NumTransfers + 1
  /\ inFlight' = inFlight \cup {next}
  /\ next' = next + 1
  /\ UNCHANGED <<sessions, running, slots, cancelled, transfer, assembly, lastSeq,
                 frame, caller, event, user>>

(* The transfers are submitted one after the other, while those submitted
   already may complete. *)
SubmitTransfer ==
  /\ caller = "submit" /\ next <= NumTransfers
  /\ inFlight' = inFlight \cup {next}
  /\ next' = next + 1
  /\ UNCHANGED <<sessions, running, slots, cancelled, transfer, assembly, lastSeq,
                 frame, caller, event, user>>

AllSubmitted ==
  /\ caller = "submit" /\ next > NumTransfers
  /\ caller' = "streaming"
  /\ UNCHANGED <<sessions, running, usb, assembly, lastSeq, frame, event, user>>

(* A loop that leaves the transfers it could not submit in their slots. *)
SubmitFailsKeeping ==
  /\ caller = "submit" /\ next <= NumTransfers
  /\ caller' = "streaming"
  /\ UNCHANGED <<sessions, running, usb, assembly, lastSeq, frame, event, user>>

(* A transfer that cannot be submitted is freed with all that follow it, and
   the start succeeds nevertheless. *)
SubmitFails ==
  /\ caller = "submit" /\ next <= NumTransfers
  /\ slots' = slots \ {t \in Transfers : t >= next}
  /\ caller' = "streaming"
  /\ UNCHANGED <<sessions, running, inFlight, cancelled, next, transfer, assembly,
                 lastSeq, frame, event, user>>

(* uvc_stop_streaming, uvc_stream_close, uvc_stream_stop: the flag is cleared
   without cb_mutex ... *)
StopStream ==
  /\ caller = "streaming"
  /\ running' = FALSE
  /\ caller' = "cancel"
  /\ UNCHANGED <<sessions, usb, assembly, lastSeq, frame, event, user>>

(* A caller that does not wait for the transfers it has cancelled. *)
AwaitNothing == caller' = "join" /\ user' = Awake(user)

(* The end of the wait for the slots to become empty, with the broadcast that
   wakes the user thread. *)
AwaitTransfers ==
  IF slots = {} THEN caller' = "join" /\ user' = Awake(user)
                ELSE caller' = "waiting" /\ UNCHANGED user

(* ... and what is in flight is cancelled with it. *)
CancelTransfers ==
  /\ caller = "cancel" /\ MutexFree
  /\ cancelled' = cancelled \cup (slots \cap inFlight)
  /\ AwaitTransfers
  /\ UNCHANGED <<sessions, running, slots, inFlight, next, transfer, assembly,
                 lastSeq, frame, event>>

CallerWakesUp ==
  /\ caller = "woken" /\ MutexFree
  /\ AwaitTransfers
  /\ UNCHANGED <<sessions, running, usb, assembly, lastSeq, frame, event>>

(* pthread_join of the user thread; of a thread that was never created it
   fails, or ends the process. *)
JoinUser ==
  /\ caller = "join"
  /\ \/ user = "exited" /\ caller' = "close"
     \/ user = "none" /\ caller' \in {"close", "crashed"}
  /\ UNCHANGED <<sessions, running, usb, assembly, lastSeq, frame, event, user>>

(* The rest of uvc_stream_close: buffers, condition, mutex and handle are
   freed. *)
CloseStream ==
  /\ caller = "close"
  /\ caller' = "closed" /\ user' = "none"
  /\ UNCHANGED <<sessions, running, usb, assembly, lastSeq, frame, event>>

-----------------------------------------------------------------------------
(* The event thread: _uvc_stream_callback *)

(* libusb hands over a transfer: completed, failed (an error, a cancellation,
   no device), or timed out, stalled or overflown. *)
Complete(t) ==
  /\ event = "idle" /\ t \in inFlight
  /\ inFlight' = inFlight \ {t} /\ cancelled' = cancelled \ {t}
  /\ transfer' = t
  /\ event' \in {"packets", "free", "resubmit"}
  /\ UNCHANGED <<sessions, running, slots, next, assembly, lastSeq, frame, caller,
                 user>>

(* A payload with data for the frame in progress; it may be the last of it. *)
AddData ==
  /\ event = "packets" /\ seq <= MaxFrames
  /\ gotData' = TRUE
  /\ image' = [image EXCEPT ![outbuf] = seq]
  /\ event' \in {"packets", "swap"}
  /\ UNCHANGED <<sessions, running, usb, seq, spoiled, outbuf, hold, lastSeq, frame,
                 caller, user>>

(* A payload that does not fit into the buffer, or has a header longer than
   itself. *)
SpoilFrame ==
  /\ event = "packets" /\ seq <= MaxFrames
  /\ spoiled' = TRUE
  /\ event' \in {"packets", "swap"}
  /\ UNCHANGED <<sessions, running, usb, seq, gotData, outbuf, image, hold, lastSeq,
                 frame, caller, user>>

(* The frame identifier flipped: what there is of the last frame is a frame. *)
FrameIdFlips ==
  /\ event = "packets" /\ gotData /\ seq <= MaxFrames
  /\ event' = "swap"
  /\ UNCHANGED <<sessions, running, usb, assembly, lastSeq, frame, caller, user>>

(* The same without cb_mutex. *)
SwapUnlocked ==
  /\ event = "swap"
  /\ hold' = [seq |-> seq, err |-> spoiled]
  /\ outbuf' = holdbuf
  /\ seq' = seq + 1 /\ gotData' = FALSE /\ spoiled' = FALSE
  /\ Broadcast
  /\ event' = "packets"
  /\ UNCHANGED <<sessions, running, usb, image, lastSeq, frame>>

(* _uvc_swap_buffers that wakes nobody. *)
SwapSilently ==
  /\ event = "swap" /\ MutexFree
  /\ hold' = [seq |-> seq, err |-> spoiled]
  /\ outbuf' = holdbuf
  /\ seq' = seq + 1 /\ gotData' = FALSE /\ spoiled' = FALSE
  /\ NoBroadcast
  /\ event' = "packets"
  /\ UNCHANGED <<sessions, running, usb, image, lastSeq, frame>>

(* _uvc_swap_buffers: the frame in progress becomes the one on hold, and its
   buffer is exchanged for the other one. *)
SwapBuffers ==
  /\ event = "swap" /\ MutexFree
  /\ hold' = [seq |-> seq, err |-> spoiled]
  /\ outbuf' = holdbuf
  /\ seq' = seq + 1 /\ gotData' = FALSE /\ spoiled' = FALSE
  /\ Broadcast
  /\ event' = "packets"
  /\ UNCHANGED <<sessions, running, usb, image, lastSeq, frame>>

PacketsDone ==
  /\ event = "packets"
  /\ event' = "resubmit"
  /\ UNCHANGED <<sessions, running, usb, assembly, lastSeq, frame, caller, user>>

(* A callback that resubmits without looking at the flag. *)
TestNothing ==
  /\ event = "resubmit"
  /\ event' = "submit"
  /\ UNCHANGED <<sessions, running, usb, assembly, lastSeq, frame, caller, user>>

(* The flag is read without cb_mutex: it may be cleared before the transfer is
   submitted again. *)
TestRunning ==
  /\ event = "resubmit"
  /\ event' = IF running THEN "submit" ELSE "free"
  /\ UNCHANGED <<sessions, running, usb, assembly, lastSeq, frame, caller, user>>

Resubmit ==
  /\ event = "submit"
  /\ \/ inFlight' = inFlight \cup {transfer} /\ event' = "idle"
     \/ event' = "free" /\ UNCHANGED inFlight
  /\ UNCHANGED <<sessions, running, slots, cancelled, next, transfer, assembly,
                 lastSeq, frame, caller, user>>

FreeTransfer ==
  /\ event = "free" /\ MutexFree
  /\ slots' = slots \ {transfer}
  /\ Broadcast
  /\ event' = "idle"
  /\ UNCHANGED <<sessions, running, inFlight, cancelled, next, transfer, assembly,
                 lastSeq, frame>>

-----------------------------------------------------------------------------
(* The user thread: _uvc_user_caller *)

(* A loop that leaves by the flag only when there is no frame. *)
TestFrameFirst ==
  /\ user \in {"lock", "woken"}
  /\ \/ ~running /\ lastSeq = hold.seq /\ user' = "exited" /\ UNCHANGED lastSeq
     \/ running /\ lastSeq = hold.seq /\ user' = "waiting" /\ UNCHANGED lastSeq
     \/ lastSeq # hold.seq /\ lastSeq' = hold.seq /\ user' = "populate"
  /\ UNCHANGED <<sessions, running, usb, assembly, frame, caller, event>>

(* The test of the loop, under cb_mutex, which is kept when there is a frame. *)
TestFrame ==
  /\ user \in {"lock", "woken"}
  /\ \/ ~running /\ user' = "exited" /\ UNCHANGED lastSeq
     \/ running /\ lastSeq = hold.seq /\ user' = "waiting" /\ UNCHANGED lastSeq
     \/ /\ running /\ lastSeq # hold.seq
        /\ lastSeq' = hold.seq /\ user' = "populate"
  /\ UNCHANGED <<sessions, running, usb, assembly, frame, caller, event>>

(* _uvc_populate_frame: number and error first, the data after it.  The data
   of a spoiled frame is copied too, but its length is reported as zero. *)
PopulateFrame ==
  /\ user = "populate"
  /\ frame' = [frame EXCEPT !.seq = hold.seq, !.err = hold.err]
  /\ user' = "copy"
  /\ UNCHANGED <<sessions, running, usb, assembly, lastSeq, caller, event>>

CopyImage ==
  /\ user = "copy"
  /\ frame' = [frame EXCEPT !.image = image[holdbuf]]
  /\ user' = "callback"
  /\ UNCHANGED <<sessions, running, usb, assembly, lastSeq, caller, event>>

CallbackReturns ==
  /\ user = "callback"
  /\ user' = "lock"
  /\ UNCHANGED <<sessions, running, usb, assembly, lastSeq, frame, caller, event>>

SpuriousWakeUp ==
  /\ \/ caller = "waiting" /\ caller' = "woken" /\ UNCHANGED user
     \/ user = "waiting" /\ user' = "woken" /\ UNCHANGED caller
  /\ UNCHANGED <<sessions, running, usb, assembly, lastSeq, frame, event>>

-----------------------------------------------------------------------------
CallInProgress ==
  \/ StartStream \/ StartFails \/ SubmitTransfer \/ AllSubmitted \/ SubmitFails
  \/ CancelTransfers \/ CallerWakesUp \/ JoinUser \/ CloseStream

CallerStep == OpenStream \/ StopStream \/ CallInProgress

EventStep ==
  \/ \E t \in Transfers : Complete(t)
  \/ AddData \/ SpoilFrame \/ FrameIdFlips \/ SwapBuffers \/ PacketsDone
  \/ TestRunning \/ Resubmit \/ FreeTransfer

UserStep == TestFrame \/ PopulateFrame \/ CopyImage \/ CallbackReturns

Next == CallerStep \/ EventStep \/ UserStep \/ SpuriousWakeUp

Spec == Init /\ [][Next]_vars

(* A call in progress goes on; libusb completes every transfer, after five
   seconds at the latest, and the event thread handles it; the user callback
   returns. *)
FairSpec ==
  Spec /\ WF_vars(CallInProgress) /\ WF_vars(EventStep) /\ WF_vars(UserStep)

-----------------------------------------------------------------------------
(* What the stream promises its users *)

(* As seen by the preview thread and by the user callback. *)
Service == INSTANCE StreamService WITH
  state <- IF running THEN "on"
           ELSE IF caller \in {"cancel", "waiting", "woken", "join", "crashed"}
                THEN "stopping" ELSE "off",
  busy <- user \in {"populate", "copy", "callback"}

(* As seen by the event thread, which fills it, and the user thread, which
   empties it. *)
MailboxOpen == running /\ user # "none"
Box == INSTANCE Mailbox WITH
  open   <- MailboxOpen,
  newest <- IF MailboxOpen THEN hold.seq ELSE 0,
  taken  <- IF MailboxOpen THEN lastSeq ELSE 0

(* The stream is a service that calls back only while it is on, one call at a
   time, and that is off only after the last call has returned: what
   UVCPreview relies on. *)
ServiceSpec == Service!Spec

(* The two buffers are a mailbox: the user thread gets the newest frame, never
   one twice or out of order, and a frame is never left lying. *)
MailboxSpec == Box!FairSpec

-----------------------------------------------------------------------------
(* Properties *)

CallerPoints == {"closed", "start", "submit", "streaming", "cancel", "waiting",
                 "woken", "join", "close", "crashed"}
EventPoints == {"idle", "packets", "swap", "resubmit", "submit", "free"}
UserPoints == {"none", "lock", "waiting", "woken", "populate", "copy", "callback",
               "exited"}

TypeOK ==
  /\ sessions \in 0..MaxSessions
  /\ running \in BOOLEAN
  /\ slots \in SUBSET Transfers /\ inFlight \in SUBSET Transfers
  /\ cancelled \in SUBSET inFlight
  /\ next \in 1..(NumTransfers + 1) /\ transfer \in Nat
  /\ seq \in 0..(MaxFrames + 1) /\ gotData \in BOOLEAN /\ spoiled \in BOOLEAN
  /\ outbuf \in Buffers /\ image \in [Buffers -> 0..MaxFrames]
  /\ hold \in [seq : 0..MaxFrames, err : BOOLEAN]
  /\ lastSeq \in 0..MaxFrames
  /\ frame \in [seq : 0..MaxFrames, image : 0..MaxFrames, err : BOOLEAN]
  /\ caller \in CallerPoints /\ event \in EventPoints /\ user \in UserPoints

(* uvc_stream_close frees the handle, the buffers and the mutex only when
   libusb has no transfer of the stream left, the event thread is in none of
   its callbacks and the user thread has ended. *)
NothingAfterClose ==
  caller \in {"close", "closed"} =>
    inFlight = {} /\ event = "idle" /\ user \in {"none", "exited"}

(* Whoever sleeps has nothing to do: the user thread has seen the frame on
   hold and the stream runs, or the broadcast of uvc_stream_stop is to come;
   the caller of uvc_stream_stop waits for a transfer. *)
NoLostWakeUp ==
  /\ user = "waiting" =>
       lastSeq = hold.seq /\ (running \/ caller \in {"cancel", "waiting", "woken"})
  /\ caller = "waiting" => slots # {}

(* The frame the user callback reads was published whole: the copy is of the
   frame whose number it carries, and the event thread overwrote neither the
   buffer nor the number meanwhile. *)
FrameIntact ==
  user = "callback" =>
    frame.seq = lastSeq /\ (~frame.err => frame.image = frame.seq)

(* A transfer can be resubmitted behind the back of uvc_stream_stop, by a
   callback that tested the flag before it was cleared; but one at most, so
   that the stop waits for one timeout of libusb and no more. *)
AtMostOneEscapes ==
  caller \in {"waiting", "woken"} => Cardinality(inFlight \ cancelled) <= 1

(* uvc_stop_streaming returns. *)
StopReturns == caller = "cancel" ~> caller \in {"closed", "crashed"}
=============================================================================
