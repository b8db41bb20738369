------------------------------ MODULE Payload ------------------------------
(***************************************************************************)
(* How _uvc_process_payload (stream.c) puts frames together from the        *)
(* payloads a camera sends over an isochronous endpoint.  A frame is        *)
(* FrameSize units of data, sent in order, in payloads whose headers carry  *)
(* a frame identifier of one bit (it alternates from frame to frame) and an *)
(* end-of-frame bit.  Payloads are damaged on their way.                    *)
(*                                                                         *)
(* Camera and channel are outside the repository; they are modelled as the  *)
(* code expects them: every payload has a header with both bits.  The       *)
(* iSight cameras, whose data payloads have none, are left out, and so are  *)
(* the time stamps, which are copied.                                       *)
(***************************************************************************)
EXTENDS Integers, Sequences

CONSTANTS
  FrameSize,  \* units of data in a frame of the camera
  MaxSize,    \* cur_ctrl.dwMaxVideoFrameSize, size of the two buffers, in units
  MetaSize,   \* LIBUVC_XFER_META_BUF_SIZE
  Damages,    \* what the channel may do to a payload
  MaxShots    \* bound: frames the camera sends

ASSUME PayloadAssumption ==
  /\ FrameSize \in Nat \ {0} /\ MaxSize \in Nat /\ MetaSize \in Nat /\ MaxShots \in Nat
  /\ Damages \subseteq {"lost", "bogus"}

VARIABLES
  shot,      \* number of the frame the camera is sending
  sent,      \* units of it already sent
  fid,       \* strmh->fid
  outbuf,    \* the units in strmh->outbuf; got_bytes is their number
  meta,      \* strmh->meta_got_bytes
  spoiled,   \* strmh->bfh_err # 0
  seq,       \* strmh->seq
  published, \* the frame on hold
  seen,      \* frames of which the host has read a header
  damaged    \* frames of which a payload was damaged

camera   == <<shot, sent>>
assembly == <<fid, outbuf, meta, spoiled, seq, published>>
vars == <<camera, assembly, seen, damaged>>

Unit == [shot : 1..MaxShots, pos : 1..FrameSize]
Whole(k) == [i \in 1..FrameSize |-> [shot |-> k, pos |-> i]]

(* What the camera sends next: n units of data, with the bit of this shot. *)
Data(n) == [i \in 1..n |-> [shot |-> shot, pos |-> sent + i]]
Fid     == shot % 2

-----------------------------------------------------------------------------
Init ==
  /\ shot = 1 /\ sent = 0
  /\ fid = 0 /\ outbuf = <<>> /\ meta = 0 /\ spoiled = FALSE /\ seq = 1
  /\ published = [seq |-> 0, data |-> <<>>, err |-> FALSE]
  /\ seen = {} /\ damaged = {}

(* The frame in progress, as a record: what the steps of _uvc_process_payload
   hand to each other. *)
InProgress ==
  [data |-> outbuf, meta |-> meta, err |-> spoiled, seq |-> seq, hold |-> published]

(* A swap that forgets got_bytes. *)
SwapKeeping(a) ==
  [data |-> a.data, meta |-> 0, err |-> FALSE, seq |-> a.seq + 1,
   hold |-> [seq |-> a.seq, data |-> a.data, err |-> a.err]]

(* _uvc_swap_buffers *)
SwapBuffers(a) ==
  [data |-> <<>>, meta |-> 0, err |-> FALSE, seq |-> a.seq + 1,
   hold |-> [seq |-> a.seq, data |-> a.data, err |-> a.err]]

(* No test of the frame identifier: frames end with their last payload only. *)
TestNoFid(a) == a

(* A frame identifier that is not the one of the data at hand ends a frame. *)
TestFid(a) == IF fid # Fid /\ a.data # <<>> THEN SwapBuffers(a) ELSE a

(* Metadata copied whatever its buffer holds. *)
AddMetaUnbounded(a, m) == [a EXCEPT !.meta = a.meta + m]

(* The metadata of the header is cut off when its buffer is full. *)
AddMeta(a, m) ==
  [a EXCEPT !.meta = IF a.meta + m > MetaSize THEN MetaSize ELSE a.meta + m]

(* Data copied whatever the image buffer holds. *)
AddDataUnbounded(a, data) == [a EXCEPT !.data = a.data \o data]

(* Data that would fill the buffer to the brim or beyond spoils the frame. *)
AddData(a, data) ==
  IF Len(a.data) + Len(data) < MaxSize THEN [a EXCEPT !.data = a.data \o data]
                                       ELSE [a EXCEPT !.err = TRUE]

(* A payload with data ends the frame when its end-of-frame bit is set or the
   buffer is full; the bit of a payload without data is ignored. *)
EndFrame(a, n, eof) ==
  IF n > 0 /\ (eof \/ Len(a.data) = MaxSize) THEN SwapBuffers(a) ELSE a

ProcessPayload(m, n, eof) ==
  EndFrame(AddData(AddMeta(TestFid(InProgress), m), Data(n)), n, eof)

Becomes(a) ==
  /\ outbuf' = a.data /\ meta' = a.meta /\ spoiled' = a.err
  /\ seq' = a.seq /\ published' = a.hold

-----------------------------------------------------------------------------
(* The camera sends a payload of n units; after the last unit of a shot it may
   send payloads without data before it goes on to the next shot. *)
Send(n) ==
  /\ shot <= MaxShots /\ sent + n <= FrameSize
  /\ sent' = sent + n
  /\ UNCHANGED shot

NextShot ==
  /\ shot <= MaxShots /\ sent = FrameSize
  /\ shot' = shot + 1 /\ sent' = 0
  /\ UNCHANGED <<assembly, seen, damaged>>

(* A payload that arrives as it was sent.  The end-of-frame bit is set on
   nothing that comes before the last unit. *)
Arrive(m, n, eof) ==
  /\ Send(n)
  /\ eof => sent + n = FrameSize
  /\ Becomes(ProcessPayload(m, n, eof))
  /\ fid' = Fid
  /\ seen' = seen \cup {shot}
  /\ UNCHANGED damaged

(* A payload the host never sees: its packet has a bad status or is empty, or
   the error bit is set in its header. *)
Lose(n) ==
  /\ "lost" \in Damages
  /\ Send(n)
  /\ damaged' = damaged \cup {shot}
  /\ UNCHANGED <<assembly, seen>>

(* A payload whose header claims to be longer than the payload. *)
Bogus(n) ==
  /\ "bogus" \in Damages
  /\ Send(n)
  /\ spoiled' = TRUE
  /\ damaged' = damaged \cup {shot}
  /\ UNCHANGED <<fid, outbuf, meta, seq, published, seen>>

Next ==
  \/ NextShot
  \/ \E n \in 0..FrameSize :
       \/ \E m \in 0..MetaSize, eof \in BOOLEAN : Arrive(m, n, eof)
       \/ Lose(n)
       \/ Bogus(n)

Spec == Init /\ [][Next]_vars

-----------------------------------------------------------------------------
(* Properties *)

TypeOK ==
  /\ shot \in 1..(MaxShots + 1) /\ sent \in 0..FrameSize
  /\ fid \in {0, 1}
  /\ outbuf \in Seq(Unit) /\ meta \in 0..MetaSize /\ spoiled \in BOOLEAN
  /\ seq \in Nat
  /\ published \in [seq : Nat, data : Seq(Unit), err : BOOLEAN]
  /\ seen \in SUBSET (1..MaxShots) /\ damaged \in SUBSET (1..MaxShots)

(* Whatever arrives, neither buffer is written beyond its end; the image buffer is
   never even full, so that no frame of MaxSize units is complete. *)
NoOverflow ==
  /\ outbuf = <<>> \/ Len(outbuf) < MaxSize
  /\ meta <= MetaSize

(* A frame has data of one shot of the camera, in order; data of two shots are put
   together only when they have the same bit, and every payload of the shots
   between them that have the other bit was lost. *)
OneShot(data) ==
  \A i \in 1..(Len(data) - 1) :
    LET u == data[i]
        v == data[i + 1]
    IN \/ u.shot = v.shot /\ u.pos < v.pos
       \/ /\ u.shot < v.shot /\ u.shot % 2 = v.shot % 2
          /\ \A k \in u.shot .. v.shot : k % 2 # u.shot % 2 => k \notin seen

MixedAcrossLostShotsOnly == OneShot(outbuf) /\ OneShot(published.data)

(* Damage stays where it is: a damaged shot costs itself and its neighbours at
   most.  Any other is published complete and without an error. *)
WholeFrames ==
  [][published' # published /\ published'.data # <<>> =>
       LET k == published'.data[Len(published'.data)].shot
       IN {k - 1, k, k + 1} \cap damaged' = {} =>
            published'.data = Whole(k) /\ ~published'.err]_vars
=============================================================================
