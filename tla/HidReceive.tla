---------------------------- MODULE HidReceive ----------------------------
(***************************************************************************)
(* receiveHidData (libhidapi.cpp): one call that opens the HID interface,   *)
(* asks the device for data, reads reports and puts a message together from *)
(* the packets in them.  A packet is one report of sizeof(pkt.byte) bytes;  *)
(* the USB endpoint is narrower, so that hidapi hands it over in fragments. *)
(* The first fragment of a packet holds its header: which packet of how     *)
(* many it is.                                                             *)
(*                                                                         *)
(* The device and hidapi are outside the repository.  The device sends the  *)
(* packets of its messages in order and without end marks; hidapi keeps a   *)
(* bounded queue of what was not read yet and drops the oldest fragment     *)
(* when it is full.  A fragment is its position in the stream.  The data of *)
(* a packet are taken never to look like the header of a notification.     *)
(***************************************************************************)
EXTENDS Integers, Sequences

CONSTANTS
  Packets,    \* what the device sends: records [msg, cnt, num]
  Sizes,      \* the size of each fragment of a packet
  PacketSize, \* sizeof(pkt.byte)
  Wanted,     \* messages whose second byte is zero
  Requested,  \* requestHIDData
  Threshold,  \* READ_TIME_OUT_THRESHOULD
  QueueSize,  \* reports hidapi keeps
  MaxLosses   \* bound: fragments lost

ASSUME HidAssumption ==
  /\ Packets \in Seq([msg : Nat, cnt : Nat, num : Nat \ {0}])
  /\ Sizes \in Seq(Nat \ {0}) /\ Sizes # <<>> /\ PacketSize \in Nat \ {0}
  /\ Threshold \in Nat \ {0}
  /\ Requested \in BOOLEAN /\ QueueSize \in Nat \ {0}
  /\ MaxLosses \in Nat

(* The fragments of a packet fill pkt.byte: their sizes add up to it.  A packet
   that is not the first of a message goes on with the message before it. *)
Offsets ==
  {offset \in [0..Len(Sizes) -> 0..PacketSize] :
     /\ offset[0] = 0 /\ offset[Len(Sizes)] = PacketSize
     /\ \A n \in 1..Len(Sizes) : offset[n] = offset[n - 1] + Sizes[n]}

ASSUME StreamAssumption ==
  /\ Offsets # {}
  /\ \A k \in 1..Len(Packets) : Packets[k].cnt # 0 =>
       /\ k > 1 /\ Packets[k].cnt = Packets[k - 1].cnt + 1
       /\ Packets[k].msg = Packets[k - 1].msg /\ Packets[k].num = Packets[k - 1].num

VARIABLES
  sent,      \* fragments the device has sent
  streaming, \* the device was told to send
  queue,     \* fragments hidapi holds
  lost,      \* how many it dropped
  cut,       \* a packet was given up half read
  reader,    \* control point of the thread in receiveHidData
  buf,       \* the fragments in pkt.byte
  count,     \* their size
  tries,     \* i, reads since the last packet
  data,      \* the packets in *resultData; size is 0 when there are none
  last,      \* lastPktCnt
  overran    \* a read wrote behind pkt.byte

device == <<sent, streaming, queue, lost>>
packet == <<buf, count, tries>>
merge  == <<data, last>>
vars == <<device, packet, merge, reader, cut, overran>>

F      == Len(Sizes)
Stream == 1..(Len(Packets) * F)
Part(n)   == ((n - 1) % F) + 1
Header(n) == Packets[((n - 1) \div F) + 1]

-----------------------------------------------------------------------------
Init ==
  /\ sent = 0 /\ streaming \in BOOLEAN /\ queue = <<>> /\ lost = 0 /\ cut = FALSE
  /\ reader = "closed"
  /\ buf = <<>> /\ count = 0 /\ tries = 0
  /\ data = <<>> /\ last = 0
  /\ overran = FALSE

(* The device. *)
Send ==
  /\ streaming /\ sent + 1 \in Stream
  /\ reader \notin {"returned", "smashed"}
  /\ sent' = sent + 1
  /\ \/ reader = "closed" /\ lost < MaxLosses
        /\ lost' = lost + 1 /\ UNCHANGED queue
     \/ reader # "closed" /\ Len(queue) < QueueSize
        /\ queue' = Append(queue, sent + 1) /\ UNCHANGED lost
     \/ reader # "closed" /\ Len(queue) = QueueSize /\ lost < MaxLosses
        /\ queue' = Append(Tail(queue), sent + 1) /\ lost' = lost + 1
  /\ UNCHANGED <<streaming, packet, merge, reader, cut, overran>>

(* stopHidApi, called meanwhile: the write may fail, and nothing tells the
   thread in receiveHidData. *)
StopApi ==
  /\ reader \notin {"closed", "returned"}
  /\ streaming /\ streaming' = FALSE
  /\ UNCHANGED <<sent, queue, lost, packet, merge, reader, cut, overran>>

(* hid_libusb_wrap_sys_device fails, or the first request follows. *)
Open ==
  /\ reader = "closed"
  /\ reader' \in {"returned", IF Requested THEN "stop" ELSE "reading"}
  /\ UNCHANGED <<device, packet, merge, cut, overran>>

(* The results of both writes are ignored. *)
StopHidData ==
  /\ reader = "stop" /\ reader' = "request"
  /\ streaming' \in {FALSE, streaming}
  /\ UNCHANGED <<sent, queue, lost, packet, merge, cut, overran>>

RequestHidData ==
  /\ reader = "request" /\ reader' = "asleep"
  /\ streaming' \in {TRUE, streaming}
  /\ UNCHANGED <<sent, queue, lost, packet, merge, cut, overran>>

Wake ==
  /\ reader \in {"asleep", "timeout"} /\ reader' = "reading"
  /\ UNCHANGED <<device, packet, merge, cut, overran>>

-----------------------------------------------------------------------------
(* The tries are counted, and never enough. *)
TryForever(b, c) ==
  /\ buf' = b /\ count' = c /\ tries' = tries + 1
  /\ UNCHANGED <<reader, cut>>

(* The inner loop goes on with b, of size c, in pkt.byte, unless this was the
   last try: then it sleeps and starts a packet afresh. *)
TryAgain(b, c) ==
  IF tries + 1 < Threshold
  THEN /\ buf' = b /\ count' = c /\ tries' = tries + 1
       /\ UNCHANGED <<reader, cut>>
  ELSE /\ buf' = <<>> /\ count' = 0 /\ tries' = 0
       /\ reader' = IF b = <<>> THEN "asleep" ELSE "timeout"
       /\ cut' = (cut \/ b # <<>>)

(* lastPktCnt is not set back by the first packet. *)
MergeStale(h, p) ==
  \/ h.cnt = 0 /\ data' = <<p>> /\ UNCHANGED last
  \/ h.cnt # 0 /\ h.cnt = last + 1 /\ data' = Append(data, p) /\ last' = last + 1
  \/ h.cnt # 0 /\ h.cnt # last + 1 /\ data' = <<>> /\ UNCHANGED last

(* A packet is taken whatever its number. *)
MergeAny(h, p) ==
  \/ h.cnt = 0 /\ data' = <<p>> /\ last' = 0
  \/ h.cnt # 0 /\ data' = Append(data, p) /\ last' = last + 1

(* mergePkt: the first packet replaces what was there, the next is appended,
   any other leaves nothing - but lastPktCnt stays. *)
MergePkt(h, p) ==
  \/ h.cnt = 0 /\ data' = <<p>> /\ last' = 0
  \/ h.cnt # 0 /\ h.cnt = last + 1 /\ data' = Append(data, p) /\ last' = last + 1
  \/ h.cnt # 0 /\ h.cnt # last + 1 /\ data' = <<>> /\ UNCHANGED last

(* Byte 1 of the result is not zero: the second byte of the message, or of another
   packet of it when the first is missing, and then it may be anything. *)
Unwanted(d) ==
  LET h == Header(d[1][1])
  IN IF h.cnt = 0 THEN {h.msg \notin Wanted} ELSE BOOLEAN

(* The number of packets compared with a count that begins at zero. *)
MergeShort(h, p) ==
  /\ MergePkt(h, p)
  /\ IF data' = <<>> THEN UNCHANGED reader
     ELSE \E unwanted \in Unwanted(data') :
            reader' = IF Requested /\ unwanted THEN "asleep"
                      ELSE IF h.num <= last' + 2 THEN "returned" ELSE reader

(* The loop ends with the last packet of a message, if there is a message. *)
Merge(h, p) ==
  /\ MergePkt(h, p)
  /\ IF data' = <<>> THEN UNCHANGED reader
     ELSE \E unwanted \in Unwanted(data') :
            reader' = IF Requested /\ unwanted THEN "asleep"
                      ELSE IF h.num = last' + 1 THEN "returned" ELSE reader

(* What follows the inner loop; a packet that does not begin with a header is
   ignored. *)
Complete(p) ==
  /\ buf' = <<>> /\ count' = 0 /\ tries' = 0
  /\ IF Part(p[1]) = 1 THEN Merge(Header(p[1]), p) ELSE UNCHANGED <<merge, reader>>
  /\ UNCHANGED cut

ReadNothing ==
  /\ reader = "reading" /\ queue = <<>>
  /\ TryAgain(buf, count)
  /\ UNCHANGED <<device, merge, overran>>

(* A fragment is read to offset count of pkt.byte, and then looked at. *)
ReadFragment ==
  /\ reader = "reading" /\ queue # <<>>
  /\ queue' = Tail(queue)
  /\ UNCHANGED <<sent, streaming, lost>>
  /\ LET b == Append(buf, Head(queue))
         c == count + Sizes[Part(Head(queue))]
     IN \/ c < PacketSize /\ TryAgain(b, c) /\ UNCHANGED <<merge, overran>>
        \/ c = PacketSize /\ Complete(b) /\ UNCHANGED overran
        \/ c > PacketSize /\ TryAgain(<<>>, 0) /\ overran' = TRUE /\ UNCHANGED merge

(* What was overwritten behind pkt.byte may matter, and then anything goes. *)
Smash ==
  /\ overran /\ reader = "reading" /\ reader' = "smashed"
  /\ UNCHANGED <<device, packet, merge, cut, overran>>

(* A read error: res stays negative, the inner loop is never entered again and
   the outer one never left. *)
ReadFails ==
  /\ reader = "reading" /\ reader' = "failed"
  /\ buf' = <<>> /\ count' = 0
  /\ UNCHANGED <<device, tries, merge, cut, overran>>

Reader == Open \/ StopHidData \/ RequestHidData \/ Wake \/ ReadNothing \/ ReadFragment

Next == Send \/ StopApi \/ Reader \/ Smash \/ ReadFails

Spec == Init /\ [][Next]_vars

(* The thread is scheduled, and a device that was told to send goes on sending. *)
FairSpec == Spec /\ WF_vars(Reader) /\ WF_vars(Send)

-----------------------------------------------------------------------------
(* Properties *)

TypeOK ==
  /\ sent \in 0..(Len(Packets) * F) /\ streaming \in BOOLEAN
  /\ queue \in Seq(Stream) /\ Len(queue) <= QueueSize
  /\ lost \in 0..MaxLosses /\ cut \in BOOLEAN
  /\ reader \in {"closed", "stop", "request", "asleep", "timeout", "reading", "failed",
                 "smashed", "returned"}
  /\ buf \in Seq(Stream) /\ count \in 0..(PacketSize - 1) /\ tries \in 0..(Threshold - 1)
  /\ data \in Seq(Seq(Stream)) /\ last \in Nat
  /\ overran \in BOOLEAN

(* Every packet of the message began with a header, and their numbers go up by
   one to lastPktCnt, whatever was lost: mergePkt never puts packets together
   that are out of order or have a hole between them. *)
CountsFollow ==
  \A i \in 1..Len(data) :
    /\ Part(data[i][1]) = 1
    /\ Header(data[i][1]).cnt = last - Len(data) + i

(* Fragments that follow each other in the stream. *)
InOnePiece(p) == \A k \in 1..Len(p) : p[k] = p[1] + k - 1

(* A message without a seam: its first packet is the first of a message, and no
   fragment is missing from there on. *)
Seamless(d) ==
  d # <<>> =>
    /\ Header(d[1][1]).cnt = 0
    /\ \A i \in 1..Len(d) : InOnePiece(d[i])
    /\ \A i \in 2..Len(d) : d[i][1] = d[i - 1][1] + Len(d[i - 1])

(* What receiveHidData makes of the stream has seams, and a read goes past the
   packet, only when hidapi dropped fragments or a packet was given up half read; and
   a message without a seam is all of the message, and one that was asked for. *)
TornByLossOnly ==
  /\ lost = 0 /\ ~cut => Seamless(data) /\ ~overran
  /\ reader = "returned" /\ data # <<>> /\ Seamless(data) =>
       LET h == Header(data[1][1])
       IN Len(data) = h.num /\ (Requested => h.msg \in Wanted)

(* The thread is between two packets and the device is too, nothing more is
   going to be lost, and a whole message that is asked for is still to come. *)
CleanStart ==
  /\ reader = "reading" /\ buf = <<>> /\ queue = <<>> /\ sent % F = 0
  /\ streaming /\ lost = MaxLosses
  /\ \E n \in Stream :
       /\ n > sent /\ Part(n) = 1 /\ Header(n).cnt = 0
       /\ n + Header(n).num * F - 1 \in Stream
       /\ Requested => Header(n).msg \in Wanted

(* From a clean start receiveHidData returns, whatever it kept of what was torn
   before - unless a read fails, the device is told to stop, or one more packet is
   given up half read. *)
StartsAfresh ==
  CleanStart ~> reader \in {"returned", "failed", "smashed", "timeout"} \/ ~streaming
=============================================================================
