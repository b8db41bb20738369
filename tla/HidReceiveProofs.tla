------------------------- MODULE HidReceiveProofs -------------------------
(***************************************************************************)
(* Theorems about HidReceive, for every stream of packets, every way to cut *)
(* them into fragments, every capacity of hidapi's queue and every bound:   *)
(* the types, that mergePkt puts no packets together that do not follow     *)
(* each other, and that only a loss or a packet given up tears a message.   *)
(***************************************************************************)
EXTENDS HidReceive, TLAPS

(* The two parts of the invariant. *)
HInv == TypeOK /\ CountsFollow

LEMMA ElementType ==
  ASSUME NEW S, NEW s \in Seq(S), NEW k \in 1..Len(s)
  PROVE  s[k] \in S
OBVIOUS

(* A packet has at least one fragment. *)
LEMMA FragmentCount == F \in Nat \ {0} /\ Len(Packets) \in Nat
BY HidAssumption DEF F

(* The packet a fragment of the stream belongs to. *)
LEMMA PacketIndex ==
  ASSUME NEW n \in Stream
  PROVE  ((n - 1) \div F) + 1 \in 1..Len(Packets)
<1> DEFINE q == (n - 1) \div F
           r == (n - 1) % F
<1>1. F \in Nat \ {0} /\ Len(Packets) \in Nat /\ n \in Nat \ {0} /\ n <= Len(Packets) * F
  BY FragmentCount DEF Stream
<1>2. q \in Int /\ r \in 0..(F - 1) /\ n - 1 = F * q + r
  BY <1>1
<1> HIDE DEF q, r
<1>3. q >= 0
  <2> SUFFICES ASSUME q <= -1 PROVE FALSE
    BY <1>2
  <2>1. F * q <= F * (-1)
    BY <1>1, <1>2
  <2> QED BY <1>1, <1>2, <2>1
<1>4. q < Len(Packets)
  <2> SUFFICES ASSUME q >= Len(Packets) PROVE FALSE
    BY <1>2, <1>1
  <2>1. F * q >= F * Len(Packets)
    BY <1>1, <1>2
  <2> QED BY <1>1, <1>2, <2>1
<1> QED BY <1>1, <1>2, <1>3, <1>4 DEF q

(* Where a fragment of the stream lies in its packet. *)
LEMMA FragmentTypes ==
  ASSUME NEW n \in Stream
  PROVE  /\ n \in Nat
         /\ Part(n) \in 1..F
         /\ Sizes[Part(n)] \in Nat \ {0}
         /\ Header(n) \in [msg : Nat, cnt : Nat, num : Nat \ {0}]
<1>1. F \in Nat \ {0} /\ Len(Packets) \in Nat
  BY HidAssumption DEF F
<1>2. n \in Nat \ {0} /\ n <= Len(Packets) * F
  BY <1>1 DEF Stream
<1>3. (n - 1) % F \in 0..(F - 1)
  BY <1>1, <1>2
<1>4. Part(n) \in 1..F
  BY <1>1, <1>3 DEF Part
<1>5. ((n - 1) \div F) + 1 \in 1..Len(Packets)
  BY PacketIndex
<1>6. Sizes[Part(n)] \in Nat \ {0}
  <2>1. \A k \in 1..Len(Sizes) : Sizes[k] \in Nat \ {0}
    BY HidAssumption
  <2> QED BY <1>4, <2>1 DEF F
<1>7. Packets[((n - 1) \div F) + 1] \in [msg : Nat, cnt : Nat, num : Nat \ {0}]
  BY <1>5, HidAssumption, ElementType
<1> QED BY <1>2, <1>4, <1>6, <1>7 DEF Header

-----------------------------------------------------------------------------
(* What is put into pkt.byte is a sequence of fragments of the stream. *)
LEMMA BufferGrows ==
  ASSUME TypeOK, queue # <<>>
  PROVE  /\ Head(queue) \in Stream
         /\ Tail(queue) \in Seq(Stream) /\ Len(Tail(queue)) <= QueueSize
         /\ Append(buf, Head(queue)) \in Seq(Stream)
         /\ Append(buf, Head(queue)) # <<>>
         /\ Append(buf, Head(queue))[1] \in Stream
         /\ count + Sizes[Part(Head(queue))] \in Nat
<1>1. Head(queue) \in Stream /\ Tail(queue) \in Seq(Stream) /\ Len(Tail(queue)) <= QueueSize
  BY HidAssumption DEF TypeOK
<1>2. Sizes[Part(Head(queue))] \in Nat \ {0}
  BY <1>1, FragmentTypes
<1>3. buf \in Seq(Stream) /\ count \in Nat
  BY HidAssumption DEF TypeOK
<1>4. Append(buf, Head(queue)) \in Seq(Stream) /\ Append(buf, Head(queue)) # <<>>
  BY <1>1, <1>3
<1>5. Append(buf, Head(queue))[1] \in Stream
  BY <1>1, <1>3
<1>6. count + Sizes[Part(Head(queue))] \in Nat
  BY <1>2, <1>3
<1> QED BY <1>1, <1>4, <1>5, <1>6

(* Trying again keeps the types, given what it is handed. *)
LEMMA TryAgainTypes ==
  ASSUME TypeOK, NEW b \in Seq(Stream), NEW c \in 0..(PacketSize - 1), TryAgain(b, c)
  PROVE  /\ buf' \in Seq(Stream) /\ count' \in 0..(PacketSize - 1)
         /\ tries' \in 0..(Threshold - 1) /\ cut' \in BOOLEAN
         /\ reader' \in {reader, "asleep", "timeout"}
<1>1. CASE tries + 1 < Threshold
  BY <1>1, HidAssumption DEF TypeOK, TryAgain
<1>2. CASE ~(tries + 1 < Threshold)
  <2>1. buf' = <<>> /\ count' = 0 /\ tries' = 0
        /\ reader' = (IF b = <<>> THEN "asleep" ELSE "timeout")
        /\ cut' = (cut \/ b # <<>>)
    BY <1>2 DEF TryAgain
  <2> QED BY <2>1, HidAssumption DEF TypeOK
<1> QED BY <1>1, <1>2

(* A message put together keeps its types, and its counts follow. *)
LEMMA MergeKeepsInvariant ==
  ASSUME HInv, NEW p \in Seq(Stream), p[1] \in Stream, Part(p[1]) = 1,
         MergePkt(Header(p[1]), p)
  PROVE  data' \in Seq(Seq(Stream)) /\ last' \in Nat /\ CountsFollow'
<1> DEFINE h == Header(p[1])
<1>1. h.cnt \in Nat
  BY FragmentTypes
<1>2. data \in Seq(Seq(Stream)) /\ last \in Nat
  BY DEF HInv, TypeOK
<1>3. CASE h.cnt = 0 /\ data' = <<p>> /\ last' = 0
  BY <1>2, <1>3 DEF CountsFollow
<1>4. CASE h.cnt # 0 /\ h.cnt = last + 1 /\ data' = Append(data, p) /\ last' = last + 1
  <2>1. Len(data') = Len(data) + 1
    BY <1>2, <1>4
  <2>2. ASSUME NEW i \in 1..Len(data')
        PROVE  Part(data'[i][1]) = 1 /\ Header(data'[i][1]).cnt = last' - Len(data') + i
    <3>1. CASE i = Len(data')
      BY <1>2, <1>4, <2>1, <3>1
    <3>2. CASE i \in 1..Len(data)
      <4>1. data'[i] = data[i]
        BY <1>2, <1>4, <3>2
      <4>2. Part(data[i][1]) = 1 /\ Header(data[i][1]).cnt = last - Len(data) + i
        BY <3>2 DEF HInv, CountsFollow
      <4> QED BY <1>2, <1>4, <2>1, <4>1, <4>2
    <3> QED BY <1>2, <2>1, <2>2, <3>1, <3>2
  <2> QED BY <1>2, <1>4, <2>2 DEF CountsFollow
<1>5. CASE h.cnt # 0 /\ h.cnt # last + 1 /\ data' = <<>> /\ UNCHANGED last
  BY <1>2, <1>5 DEF CountsFollow
<1> QED BY <1>3, <1>4, <1>5 DEF MergePkt

(* A step that leaves the message alone leaves its counts alone. *)
LEMMA CountsUntouched == CountsFollow /\ UNCHANGED merge => CountsFollow'
  BY DEF CountsFollow, merge

-----------------------------------------------------------------------------
LEMMA InitInv == Init => HInv
<1> SUFFICES ASSUME Init PROVE HInv
  OBVIOUS
<1>1. F \in Nat /\ Len(Packets) \in Nat
  BY HidAssumption DEF F
<1>2. TypeOK
  <2>1. Len(Packets) * F \in Nat
    BY <1>1
  <2>2. /\ PacketSize \in Nat \ {0} /\ Threshold \in Nat \ {0}
        /\ QueueSize \in Nat \ {0} /\ MaxLosses \in Nat
    BY HidAssumption
  <2>3. /\ sent \in 0..(Len(Packets) * F) /\ lost \in 0..MaxLosses
        /\ count \in 0..(PacketSize - 1) /\ tries \in 0..(Threshold - 1) /\ last \in Nat
    BY <2>1, <2>2 DEF Init
  <2>4. /\ queue \in Seq(Stream) /\ Len(queue) <= QueueSize
        /\ buf \in Seq(Stream) /\ data \in Seq(Seq(Stream))
    BY <2>2 DEF Init
  <2> QED BY <2>3, <2>4 DEF Init, TypeOK
<1>3. CountsFollow
  BY DEF Init, CountsFollow
<1> QED BY <1>2, <1>3 DEF HInv

LEMMA SendInv == HInv /\ Send => HInv'
<1> SUFFICES ASSUME HInv, Send PROVE HInv'
  OBVIOUS
<1>1. sent + 1 \in Stream /\ sent' \in 0..(Len(Packets) * F)
  <2>1. F \in Nat /\ Len(Packets) \in Nat
    BY HidAssumption DEF F
  <2>2. Len(Packets) * F \in Nat
    BY <2>1
  <2> QED BY <2>2 DEF Send, Stream, HInv, TypeOK
<1>2. queue' \in Seq(Stream) /\ Len(queue') <= QueueSize /\ lost' \in 0..MaxLosses
  <2>1. CASE reader = "closed" /\ lost < MaxLosses /\ lost' = lost + 1 /\ UNCHANGED queue
    BY <2>1, HidAssumption DEF HInv, TypeOK
  <2>2. CASE reader # "closed" /\ Len(queue) < QueueSize
             /\ queue' = Append(queue, sent + 1) /\ UNCHANGED lost
    BY <1>1, <2>2, HidAssumption DEF HInv, TypeOK
  <2>3. CASE reader # "closed" /\ Len(queue) = QueueSize /\ lost < MaxLosses
             /\ queue' = Append(Tail(queue), sent + 1) /\ lost' = lost + 1
    <3>1. queue \in Seq(Stream) /\ queue # <<>>
      BY <2>3, HidAssumption DEF HInv, TypeOK
    <3>2. Tail(queue) \in Seq(Stream) /\ Len(Tail(queue)) = Len(queue) - 1
      BY <3>1
    <3> QED BY <1>1, <2>3, <3>1, <3>2, HidAssumption DEF HInv, TypeOK
  <2> QED BY <2>1, <2>2, <2>3 DEF Send
<1>3. TypeOK'
  BY <1>1, <1>2 DEF Send, HInv, TypeOK, packet, merge
<1> QED BY <1>3, CountsUntouched DEF Send, HInv

LEMMA ReadNothingInv == HInv /\ ReadNothing => HInv'
<1> SUFFICES ASSUME HInv, ReadNothing PROVE HInv'
  OBVIOUS
<1>1. TypeOK'
  BY TryAgainTypes DEF ReadNothing, HInv, TypeOK, device, merge
<1> QED BY <1>1, CountsUntouched DEF ReadNothing, HInv

LEMMA ReadFragmentInv == HInv /\ ReadFragment => HInv'
<1> SUFFICES ASSUME HInv, ReadFragment PROVE HInv'
  OBVIOUS
<1> DEFINE b == Append(buf, Head(queue))
           c == count + Sizes[Part(Head(queue))]
<1>1. /\ Tail(queue) \in Seq(Stream) /\ Len(Tail(queue)) <= QueueSize
      /\ b \in Seq(Stream) /\ b[1] \in Stream /\ c \in Nat
  BY BufferGrows DEF ReadFragment, HInv
<1>2. CASE c < PacketSize /\ TryAgain(b, c) /\ UNCHANGED <<merge, overran>>
  <2>1. c \in 0..(PacketSize - 1)
    BY <1>1, <1>2, HidAssumption
  <2>2. TypeOK'
    BY <1>1, <1>2, <2>1, TryAgainTypes DEF ReadFragment, HInv, TypeOK, merge
  <2> QED BY <1>2, <2>2, CountsUntouched DEF HInv
<1>3. CASE c = PacketSize /\ Complete(b) /\ UNCHANGED overran
  <2>1. buf' = <<>> /\ count' = 0 /\ tries' = 0 /\ UNCHANGED cut
    BY <1>3 DEF Complete
  <2>2. /\ data' \in Seq(Seq(Stream)) /\ last' \in Nat /\ CountsFollow'
        /\ reader' \in {reader, "asleep", "returned"}
    <3>1. CASE Part(b[1]) = 1
      <4>1. Merge(Header(b[1]), b)
        BY <1>3, <3>1 DEF Complete
      <4>2. MergePkt(Header(b[1]), b) /\ reader' \in {reader, "asleep", "returned"}
        BY <4>1 DEF Merge
      <4> QED BY <1>1, <3>1, <4>2, MergeKeepsInvariant
    <3>2. CASE Part(b[1]) # 1
      <4>1. UNCHANGED <<merge, reader>>
        BY <1>3, <3>2 DEF Complete
      <4> QED BY <4>1, CountsUntouched DEF HInv, TypeOK, merge
    <3> QED BY <3>1, <3>2
  <2>3. TypeOK'
    BY <1>1, <1>3, <2>1, <2>2, HidAssumption DEF ReadFragment, HInv, TypeOK
  <2> QED BY <2>2, <2>3 DEF HInv
<1>4. CASE c > PacketSize /\ TryAgain(<<>>, 0) /\ overran' = TRUE /\ UNCHANGED merge
  <2>1. 0 \in 0..(PacketSize - 1) /\ <<>> \in Seq(Stream)
    BY HidAssumption
  <2>2. TypeOK'
    BY <1>1, <1>4, <2>1, TryAgainTypes DEF ReadFragment, HInv, TypeOK, merge
  <2> QED BY <1>4, <2>2, CountsUntouched DEF HInv
<1> QED BY <1>2, <1>3, <1>4 DEF ReadFragment

(* Every other step leaves the message and the packet alone. *)
LEMMA ControlInv ==
  ASSUME HInv,
         StopApi \/ Open \/ StopHidData \/ RequestHidData \/ Wake \/ Smash \/ ReadFails
  PROVE  HInv'
<1>1. TypeOK'
  <2>1. CASE StopApi
    BY <2>1 DEF StopApi, HInv, TypeOK, packet, merge
  <2>2. CASE Open
    BY <2>2 DEF Open, HInv, TypeOK, device, packet, merge
  <2>3. CASE StopHidData
    BY <2>3 DEF StopHidData, HInv, TypeOK, packet, merge
  <2>4. CASE RequestHidData
    BY <2>4 DEF RequestHidData, HInv, TypeOK, packet, merge
  <2>5. CASE Wake
    BY <2>5 DEF Wake, HInv, TypeOK, device, packet, merge
  <2>6. CASE Smash
    BY <2>6 DEF Smash, HInv, TypeOK, device, packet, merge
  <2>7. CASE ReadFails
    BY <2>7, HidAssumption DEF ReadFails, HInv, TypeOK, device, merge
  <2> QED BY <2>1, <2>2, <2>3, <2>4, <2>5, <2>6, <2>7
<1>2. UNCHANGED merge
  BY DEF StopApi, Open, StopHidData, RequestHidData, Wake, Smash, ReadFails
<1> QED BY <1>1, <1>2, CountsUntouched DEF HInv

LEMMA StepInv == HInv /\ [Next]_vars => HInv'
<1> SUFFICES ASSUME HInv, [Next]_vars PROVE HInv'
  OBVIOUS
<1>1. CASE UNCHANGED vars
  BY <1>1 DEF HInv, TypeOK, CountsFollow, vars, device, packet, merge
<1>2. CASE Next
  BY <1>2, SendInv, ReadNothingInv, ReadFragmentInv, ControlInv DEF Next, Reader
<1> QED BY <1>1, <1>2

LEMMA Invariance == Spec => []HInv
  BY InitInv, StepInv, PTL DEF Spec

-----------------------------------------------------------------------------
(* receiveHidData never holds more in pkt.byte than a packet less one unit, the
   queue, the tries and the message keep their types. *)
THEOREM HidTypes == Spec => []TypeOK
<1>1. HInv => TypeOK
  BY DEF HInv
<1> QED BY <1>1, Invariance, PTL

(* mergePkt never puts packets together that do not follow each other. *)
THEOREM MessagesHaveNoHoles == Spec => []CountsFollow
<1>1. HInv => CountsFollow
  BY DEF HInv
<1> QED BY <1>1, Invariance, PTL

-----------------------------------------------------------------------------
(* Seams: what the reader makes of a stream with and without losses *)

Offset == CHOOSE offset \in Offsets : TRUE

(* When none was lost, the fragment the packet in progress begins with. *)
NextPacket == sent - Len(queue) - Len(buf) + 1

(* As long as what is in pkt.byte begins with a header and has no hole, its size
   tells how much of the packet is there. *)
BufferInv ==
  /\ buf = <<>> => count = 0
  /\ buf # <<>> /\ Part(buf[1]) = 1 /\ InOnePiece(buf) =>
       Len(buf) < F /\ count = Offset[Len(buf)]

(* A packet in one piece is a whole packet, and packets without a seam are of one
   message. *)
MessageInv ==
  /\ reader = "closed" => data = <<>>
  /\ \A i \in 1..Len(data) : data[i] # <<>> /\ (InOnePiece(data[i]) => Len(data[i]) = F)
  /\ Seamless(data) => \A i \in 1..Len(data) :
       /\ Header(data[i][1]).msg = Header(data[1][1]).msg
       /\ Header(data[i][1]).num = Header(data[1][1]).num
  /\ reader = "returned" /\ data # <<>> /\ Seamless(data) =>
       LET h == Header(data[1][1])
       IN Len(data) = h.num /\ (Requested => h.msg \in Wanted)

(* Without a loss the queue and pkt.byte hold the fragments that follow what was
   put together. *)
LosslessInv ==
  lost = 0 /\ ~cut =>
    /\ Seamless(data) /\ ~overran
    /\ reader # "failed" =>
         /\ \A i \in 1..Len(queue) : queue[i] = sent - Len(queue) + i
         /\ \A k \in 1..Len(buf) : buf[k] = NextPacket + k - 1
         /\ Part(NextPacket) = 1
         /\ IF data = <<>> THEN NextPacket = 1
                           ELSE data[Len(data)][1] + F = NextPacket

SeamInv == BufferInv /\ MessageInv /\ LosslessInv

(* Division of a position by the number of fragments of a packet. *)
LEMMA DivisionUnique ==
  ASSUME NEW d \in Nat \ {0}, NEW a \in Nat, NEW q \in Nat, NEW m \in 0..(d - 1),
         a = d * q + m
  PROVE  a \div d = q /\ a % d = m
<1> DEFINE p == a \div d
           r == a % d
<1>1. p \in Int /\ r \in 0..(d - 1) /\ a = d * p + r
  OBVIOUS
<1> HIDE DEF p, r
<1>2. d * (p - q) = m - r
  BY <1>1
<1>3. CASE p > q
  <2>1. d * (p - q) >= d * 1
    BY <1>1, <1>3
  <2> QED BY <1>1, <1>2, <2>1
<1>4. CASE p < q
  <2>1. d * (p - q) <= d * (-1)
    BY <1>1, <1>4
  <2> QED BY <1>1, <1>2, <2>1
<1>5. CASE p = q
  BY <1>1, <1>5 DEF p, r
<1> QED BY <1>1, <1>3, <1>4, <1>5

(* The fragments of a packet, counted from its header, and the packet after it. *)
LEMMA PacketLayout ==
  ASSUME NEW n \in Nat \ {0}, Part(n) = 1
  PROVE  /\ \A m \in 0..(F - 1) : Part(n + m) = m + 1
         /\ Part(n + F) = 1
         /\ (((n + F) - 1) \div F) = ((n - 1) \div F) + 1
<1> DEFINE q == (n - 1) \div F
<1>1. F \in Nat \ {0}
  BY FragmentCount
<1>2. (n - 1) % F = 0
  BY <1>1 DEF Part
<1>3. q \in Int /\ n - 1 = F * q
  BY <1>1, <1>2
<1>4. q \in Nat
  <2> HIDE DEF q
  <2> SUFFICES ASSUME q <= -1 PROVE FALSE
    BY <1>3
  <2>1. F * q <= F * (-1)
    BY <1>1, <1>3
  <2> QED BY <1>1, <1>3, <2>1
<1> HIDE DEF q
<1>5. ASSUME NEW m \in 0..(F - 1)
      PROVE  Part(n + m) = m + 1
  <2>1. (n + m) - 1 \in Nat /\ (n + m) - 1 = F * q + m
    BY <1>1, <1>3
  <2>2. ((n + m) - 1) % F = m
    BY <1>1, <1>4, <2>1, DivisionUnique
  <2> QED BY <2>2 DEF Part
<1>6. (n + F) - 1 \in Nat /\ (n + F) - 1 = F * (q + 1) + 0 /\ q + 1 \in Nat /\ 0 \in 0..(F - 1)
  BY <1>1, <1>3, <1>4
<1>7. ((n + F) - 1) \div F = q + 1 /\ ((n + F) - 1) % F = 0
  BY <1>1, <1>6, DivisionUnique
<1>8. Part(n + F) = 1
  BY <1>7 DEF Part
<1>9. q = (n - 1) \div F
  BY DEF q
<1> QED BY <1>5, <1>7, <1>8, <1>9

(* The sizes of the fragments, added up. *)
LEMMA OffsetSums ==
  /\ Offset[0] = 0 /\ Offset[F] = PacketSize
  /\ \A n \in 0..F : Offset[n] \in 0..PacketSize
  /\ \A n \in 1..F : Offset[n] = Offset[n - 1] + Sizes[n]
<1>1. Offset \in Offsets
  BY StreamAssumption DEF Offset
<1> QED BY <1>1 DEF Offsets, F

(* No fragment is empty. *)
LEMMA SizePositive == \A n \in 1..F : Sizes[n] \in Nat \ {0}
BY HidAssumption DEF F

(* A packet is complete with its last fragment and not before. *)
LEMMA OffsetFull ==
  ASSUME NEW n \in 0..F, Offset[n] = PacketSize
  PROVE  n = F
<1> SUFFICES ASSUME n # F PROVE FALSE
  OBVIOUS
<1>1. n + 1 \in 1..F /\ (n + 1) - 1 = n /\ n + 1 \in 0..F
  BY FragmentCount
<1>2. Offset[n + 1] = PacketSize + Sizes[n + 1] /\ Offset[n + 1] \in 0..PacketSize
  BY <1>1, OffsetSums
<1>3. Sizes[n + 1] \in Nat \ {0}
  BY <1>1, SizePositive
<1> QED BY <1>2, <1>3, HidAssumption

(* One fragment more in pkt.byte. *)
LEMMA BufferFills ==
  ASSUME HInv, BufferInv, queue # <<>>,
         NEW b, b = Append(buf, Head(queue)),
         NEW c, c = count + Sizes[Part(Head(queue))]
  PROVE  /\ Len(b) = Len(buf) + 1 /\ b \in Seq(Stream)
         /\ b[Len(b)] = Head(queue) /\ \A k \in 1..Len(buf) : b[k] = buf[k]
         /\ b[1] \in Stream /\ c \in Nat
         /\ Part(b[1]) = 1 /\ InOnePiece(b) =>
              /\ c = Offset[Len(b)] /\ Len(b) \in 1..F
<1>1. /\ Head(queue) \in Stream /\ b \in Seq(Stream) /\ b[1] \in Stream /\ c \in Nat
  BY BufferGrows DEF HInv
<1>2. buf \in Seq(Stream) /\ Len(buf) \in Nat /\ count \in Int
  BY HidAssumption DEF HInv, TypeOK
<1>3. /\ Len(b) = Len(buf) + 1
      /\ b[Len(b)] = Head(queue) /\ \A k \in 1..Len(buf) : b[k] = buf[k]
  BY <1>1, <1>2
<1>4. ASSUME Part(b[1]) = 1, InOnePiece(b)
      PROVE  c = Offset[Len(b)] /\ Len(b) \in 1..F
  <2>1. Len(buf) < F /\ count = Offset[Len(buf)]
    <3>1. CASE buf = <<>>
      BY <3>1, FragmentCount, OffsetSums DEF BufferInv
    <3>2. CASE buf # <<>>
      <4>1. 1 \in 1..Len(buf)
        BY <1>2, <3>2
      <4>2. b[1] = buf[1] /\ \A k \in 1..Len(buf) : k \in 1..Len(b)
        BY <1>2, <1>3, <4>1
      <4>3. InOnePiece(buf)
        BY <1>3, <1>4, <4>2 DEF InOnePiece
      <4> QED BY <1>4, <3>2, <4>2, <4>3 DEF BufferInv
    <3> QED BY <3>1, <3>2
  <2>2. b[1] \in Nat \ {0}
    BY <1>1, FragmentCount DEF Stream
  <2>3. Head(queue) = b[1] + Len(buf)
    <3>1. Len(b) \in 1..Len(b)
      BY <1>2, <1>3
    <3>2. b[Len(b)] = b[1] + Len(b) - 1
      BY <1>4, <3>1 DEF InOnePiece
    <3> QED BY <1>2, <1>3, <2>2, <3>2
  <2>4. Len(buf) \in 0..(F - 1)
    BY <1>2, <2>1, FragmentCount
  <2>5. Part(Head(queue)) = Len(buf) + 1
    BY <1>4, <2>2, <2>3, <2>4, PacketLayout
  <2>6. Len(buf) + 1 \in 1..F /\ (Len(buf) + 1) - 1 = Len(buf)
    BY <2>4, FragmentCount
  <2>7. Offset[Len(buf) + 1] = Offset[Len(buf)] + Sizes[Len(buf) + 1]
    BY <2>6, OffsetSums
  <2> QED BY <1>3, <2>1, <2>5, <2>6, <2>7
<1> QED BY <1>1, <1>3, <1>4

(* The packet after a packet, unless it is the first of a message, is the next of the
   same message. *)
LEMMA NextHeader ==
  ASSUME NEW n \in Stream, n + F \in Stream, Part(n) = 1, Header(n + F).cnt # 0
  PROVE  /\ Header(n + F).cnt = Header(n).cnt + 1
         /\ Header(n + F).msg = Header(n).msg
         /\ Header(n + F).num = Header(n).num
<1> DEFINE k == ((n - 1) \div F) + 1
<1>1. n \in Nat \ {0} /\ F \in Nat \ {0}
  BY FragmentCount DEF Stream
<1>2. (((n + F) - 1) \div F) = ((n - 1) \div F) + 1
  BY <1>1, PacketLayout
<1>3. /\ (((n + F) - 1) \div F) + 1 \in 1..Len(Packets)
      /\ k \in 1..Len(Packets)
  <2>1. (((n + F) - 1) \div F) + 1 \in 1..Len(Packets)
    BY PacketIndex
  <2>2. k \in 1..Len(Packets)
    BY PacketIndex
  <2> QED BY <2>1, <2>2
<1>4. k + 1 \in 1..Len(Packets)
  BY <1>2, <1>3
<1>5. Header(n + F) = Packets[k + 1] /\ Header(n) = Packets[k]
  BY <1>2 DEF Header
<1> HIDE DEF k
<1>6. (k + 1) - 1 = k
  BY <1>3
<1> QED BY <1>4, <1>5, <1>6, StreamAssumption

(* The stream begins with a message. *)
LEMMA FirstHeader ==
  ASSUME 1 \in Stream
  PROVE  Header(1).cnt = 0
<1>1. F \in Nat \ {0}
  BY FragmentCount
<1>2. (1 - 1) \div F = 0
  BY <1>1
<1>3. 1 \in 1..Len(Packets)
  BY <1>2, PacketIndex
<1>4. Header(1) = Packets[1]
  BY <1>2 DEF Header
<1> QED BY <1>3, <1>4, StreamAssumption

(* The invariant, from the first state ... *)
LEMMA SeamInit == Init => SeamInv
<1> SUFFICES ASSUME Init PROVE SeamInv
  OBVIOUS
<1>1. BufferInv
  BY DEF Init, BufferInv
<1>2. MessageInv
  BY DEF Init, MessageInv
<1>3. LosslessInv
  <2>1. NextPacket = 1
    BY DEF Init, NextPacket
  <2>2. Part(1) = 1
    BY FragmentCount DEF Part
  <2> QED BY <2>1, <2>2 DEF Init, LosslessInv, Seamless
<1> QED BY <1>1, <1>2, <1>3 DEF SeamInv

(* A step that leaves the thread's packet and message alone, and does not return. *)
LEMMA MessageUntouched ==
  ASSUME MessageInv, UNCHANGED data,
         UNCHANGED reader \/ reader' \notin {"closed", "returned"} \/ data = <<>>
  PROVE  MessageInv'
BY DEF MessageInv

(* A step that reads nothing and is not sent anything. *)
LEMMA LosslessUntouched ==
  ASSUME LosslessInv, UNCHANGED <<sent, queue, lost, buf, data, cut, overran>>,
         reader = "failed" => reader' = "failed"
  PROVE  LosslessInv'
BY DEF LosslessInv, NextPacket

(* ... over a fragment sent ... *)
LEMMA SendSeam == HInv /\ SeamInv /\ Send => SeamInv'
<1> SUFFICES ASSUME HInv, SeamInv, Send PROVE SeamInv'
  OBVIOUS
<1>1. UNCHANGED <<packet, merge, reader, cut, overran>>
  BY DEF Send
<1>2. BufferInv'
  BY <1>1 DEF SeamInv, BufferInv, packet
<1>3. MessageInv'
  BY <1>1, MessageUntouched DEF SeamInv, merge
<1>4. LosslessInv'
  <2> SUFFICES ASSUME lost' = 0, cut' = FALSE PROVE LosslessInv'
    BY DEF LosslessInv, HInv, TypeOK, Send
  <2>1. lost \in Nat /\ sent \in Nat /\ queue \in Seq(Stream) /\ buf \in Seq(Stream)
    BY HidAssumption, FragmentCount DEF HInv, TypeOK
  <2>2. reader # "closed" /\ queue' = Append(queue, sent + 1) /\ lost = 0
    BY <2>1 DEF Send
  <2>3. sent' = sent + 1 /\ Len(queue') = Len(queue) + 1
    BY <2>1, <2>2 DEF Send
  <2>4. NextPacket' = NextPacket
    BY <1>1, <2>1, <2>3 DEF NextPacket, packet
  <2>5. LosslessInv /\ lost = 0 /\ ~cut
    BY <1>1, <2>2 DEF SeamInv
  <2>6. Seamless(data') /\ ~overran'
    BY <1>1, <2>5 DEF LosslessInv, merge
  <2>7. ASSUME reader' # "failed"
        PROVE  /\ \A i \in 1..Len(queue') : queue'[i] = sent' - Len(queue') + i
               /\ \A k \in 1..Len(buf') : buf'[k] = NextPacket' + k - 1
               /\ Part(NextPacket') = 1
               /\ IF data' = <<>> THEN NextPacket' = 1
                                 ELSE data'[Len(data')][1] + F = NextPacket'
    <3>1. reader # "failed"
      BY <1>1, <2>7
    <3>2. ASSUME NEW i \in 1..Len(queue')
          PROVE  queue'[i] = sent' - Len(queue') + i
      <4>1. CASE i = Len(queue')
        BY <2>1, <2>2, <2>3, <4>1
      <4>2. CASE i \in 1..Len(queue)
        <5>1. queue'[i] = queue[i]
          BY <2>1, <2>2, <4>2
        <5>2. queue[i] = sent - Len(queue) + i
          BY <2>5, <3>1, <4>2 DEF LosslessInv
        <5> QED BY <2>1, <2>3, <5>1, <5>2
      <4> QED BY <2>1, <2>3, <4>1, <4>2
    <3> QED BY <1>1, <2>4, <2>5, <3>1, <3>2 DEF LosslessInv, packet, merge
  <2> QED BY <2>6, <2>7 DEF LosslessInv
<1> QED BY <1>2, <1>3, <1>4 DEF SeamInv

(* ... the steps between the reads ... *)
LEMMA ControlSeam ==
  ASSUME HInv, SeamInv,
         StopApi \/ Open \/ StopHidData \/ RequestHidData \/ Wake \/ Smash
  PROVE  SeamInv'
<1>1. /\ UNCHANGED <<sent, queue, lost, packet, merge, cut, overran>>
      /\ reader = "failed" => reader' = "failed"
  BY DEF StopApi, Open, StopHidData, RequestHidData, Wake, Smash, device
<1>2. BufferInv'
  BY <1>1 DEF SeamInv, BufferInv, packet
<1>3. LosslessInv'
  BY <1>1, LosslessUntouched DEF SeamInv, packet, merge
<1>4. MessageInv'
  <2>1. UNCHANGED reader \/ reader' \notin {"closed", "returned"} \/ reader = "closed"
    BY DEF StopApi, Open, StopHidData, RequestHidData, Wake, Smash
  <2>2. reader = "closed" => data = <<>>
    BY DEF SeamInv, MessageInv
  <2> QED BY <1>1, <2>1, <2>2, MessageUntouched DEF SeamInv, merge
<1> QED BY <1>2, <1>3, <1>4 DEF SeamInv

(* A read error leaves nothing in pkt.byte, and is the end. *)
LEMMA FailureSeam == HInv /\ SeamInv /\ ReadFails => SeamInv'
<1> SUFFICES ASSUME HInv, SeamInv, ReadFails PROVE SeamInv'
  OBVIOUS
<1>1. /\ UNCHANGED <<sent, queue, lost, merge, cut, overran>>
      /\ reader' = "failed" /\ buf' = <<>> /\ count' = 0
  BY DEF ReadFails, device
<1>2. BufferInv'
  BY <1>1 DEF BufferInv
<1>3. MessageInv'
  BY <1>1, MessageUntouched DEF SeamInv, merge
<1>4. LosslessInv'
  BY <1>1 DEF SeamInv, LosslessInv, merge
<1> QED BY <1>2, <1>3, <1>4 DEF SeamInv

(* A read that begins a packet afresh, or goes on with the one it has. *)
LEMMA BufferTried ==
  ASSUME NEW b, NEW c, TryAgain(b, c),
         b = <<>> => c = 0,
         b # <<>> /\ Part(b[1]) = 1 /\ InOnePiece(b) => Len(b) < F /\ c = Offset[Len(b)]
  PROVE  BufferInv'
<1>1. \/ buf' = b /\ count' = c
      \/ buf' = <<>> /\ count' = 0
  BY DEF TryAgain
<1> QED BY <1>1 DEF BufferInv

(* ... a read that finds the queue empty ... *)
LEMMA NothingSeam == HInv /\ SeamInv /\ ReadNothing => SeamInv'
<1> SUFFICES ASSUME HInv, SeamInv, ReadNothing PROVE SeamInv'
  OBVIOUS
<1>1. TryAgain(buf, count) /\ UNCHANGED <<device, merge, overran>> /\ reader = "reading"
  BY DEF ReadNothing
<1>2. BufferInv'
  BY <1>1, BufferTried DEF SeamInv, BufferInv
<1>3. MessageInv'
  <2>1. UNCHANGED reader \/ reader' \notin {"closed", "returned"}
    BY <1>1 DEF TryAgain
  <2> QED BY <1>1, <2>1, MessageUntouched DEF SeamInv, merge
<1>4. LosslessInv'
  <2>1. CASE UNCHANGED <<buf, cut>>
    BY <1>1, <2>1, LosslessUntouched DEF SeamInv, device, merge
  <2>2. CASE ~UNCHANGED <<buf, cut>>
    <3>1. buf' = <<>> /\ cut' = (cut \/ buf # <<>>)
      BY <1>1, <2>2 DEF TryAgain
    <3>2. cut'
      BY <2>2, <3>1 DEF HInv, TypeOK
    <3> QED BY <3>2 DEF LosslessInv
  <2> QED BY <2>1, <2>2
<1> QED BY <1>2, <1>3, <1>4 DEF SeamInv

-----------------------------------------------------------------------------
LEMMA Appended ==
  ASSUME NEW S, NEW s \in Seq(S), NEW e \in S
  PROVE  /\ Append(s, e) # <<>> /\ Len(Append(s, e)) = Len(s) + 1
         /\ Append(s, e)[Len(s) + 1] = e
         /\ \A i \in 1..Len(s) : Append(s, e)[i] = s[i]
OBVIOUS

LEMMA EqualByZero == ASSUME NEW i \in Nat, NEW j \in Nat, i - j + 1 = 0 PROVE i + 1 = j
OBVIOUS

(* What mergePkt adds to a message without a seam is of the same message. *)
LEMMA AppendJoins ==
  ASSUME HInv, MessageInv,
         NEW p \in Seq(Stream), p[1] \in Stream, Part(p[1]) = 1,
         Header(p[1]).cnt # 0, data # <<>>, Seamless(Append(data, p))
  PROVE  /\ Seamless(data)
         /\ Header(p[1]).msg = Header(data[1][1]).msg
         /\ Header(p[1]).num = Header(data[1][1]).num
<1> DEFINE d == Append(data, p)
           n == Len(data)
<1>1. data \in Seq(Seq(Stream)) /\ n \in Nat \ {0}
  BY DEF HInv, TypeOK
<1>2. /\ Len(d) = n + 1 /\ d[n + 1] = p
      /\ \A i \in 1..n : d[i] = data[i] /\ i \in 1..Len(d)
  BY <1>1
<1>3. d # <<>>
  BY <1>1, Appended
<1> HIDE DEF d
<1>4. /\ Header(d[1][1]).cnt = 0
      /\ \A i \in 1..Len(d) : InOnePiece(d[i])
      /\ \A i \in 2..Len(d) : d[i][1] = d[i - 1][1] + Len(d[i - 1])
  <2>1. Seamless(d)
    BY DEF d
  <2> QED BY <1>3, <2>1 DEF Seamless
<1>5. Seamless(data)
  <2>1. 1 \in 1..n /\ d[1] = data[1]
    BY <1>1, <1>2
  <2>2. \A i \in 1..n : InOnePiece(data[i])
    BY <1>2, <1>4
  <2>3. ASSUME NEW i \in 2..n PROVE data[i][1] = data[i - 1][1] + Len(data[i - 1])
    <3>1. i \in 1..n /\ i - 1 \in 1..n /\ i \in 2..Len(d)
      BY <1>1, <1>2
    <3> QED BY <1>2, <1>4, <3>1
  <2> QED BY <1>4, <2>1, <2>2, <2>3 DEF Seamless
<1>6. p[1] = data[n][1] + F
  <2>1. n \in 1..n /\ n + 1 \in 2..Len(d) /\ (n + 1) - 1 = n
    BY <1>1, <1>2
  <2>2. p[1] = data[n][1] + Len(data[n])
    BY <1>2, <1>4, <2>1
  <2>3. InOnePiece(data[n])
    BY <1>2, <1>4, <2>1
  <2> QED BY <2>1, <2>2, <2>3 DEF MessageInv
<1>7. data[n][1] \in Stream /\ Part(data[n][1]) = 1
  <2>1. n \in 1..n
    BY <1>1
  <2>2. data[n] \in Seq(Stream) /\ data[n] # <<>>
    BY <1>1, <2>1 DEF MessageInv
  <2>3. data[n][1] \in Stream
    BY <2>2
  <2> QED BY <2>1, <2>3 DEF HInv, CountsFollow
<1>8. Header(p[1]).msg = Header(data[n][1]).msg /\ Header(p[1]).num = Header(data[n][1]).num
  <2> DEFINE m == data[n][1]
  <2>1. m \in Stream /\ m + F \in Stream /\ Part(m) = 1 /\ Header(m + F).cnt # 0
    BY <1>6, <1>7
  <2> HIDE DEF m
  <2>2. Header(m + F).msg = Header(m).msg /\ Header(m + F).num = Header(m).num
    BY <2>1, NextHeader
  <2> QED BY <1>6, <2>2 DEF m
<1>9. /\ Header(data[n][1]).msg = Header(data[1][1]).msg
      /\ Header(data[n][1]).num = Header(data[1][1]).num
  BY <1>1, <1>5 DEF MessageInv
<1> QED BY <1>5, <1>8, <1>9

(* What mergePkt makes of a packet. *)
LEMMA MergeMessage ==
  ASSUME HInv, MessageInv, reader = "reading",
         NEW p \in Seq(Stream), p # <<>>, p[1] \in Stream, Part(p[1]) = 1,
         InOnePiece(p) => Len(p) = F,
         Merge(Header(p[1]), p)
  PROVE  MessageInv'
<1> DEFINE h == Header(p[1])
<1>1. data \in Seq(Seq(Stream)) /\ last \in Nat /\ h.cnt \in Nat /\ h.num \in Nat
  BY FragmentTypes DEF HInv, TypeOK
<1>2. data' \in Seq(Seq(Stream)) /\ last' \in Nat /\ CountsFollow'
  BY MergeKeepsInvariant DEF Merge
<1>3. reader' # "closed"
  BY DEF Merge
<1>4. \/ data' = <<>>
      \/ h.cnt = 0 /\ data' = <<p>>
      \/ h.cnt # 0 /\ data' = Append(data, p)
  BY DEF Merge, MergePkt
<1>5. ASSUME NEW i \in 1..Len(data')
      PROVE  data'[i] # <<>> /\ (InOnePiece(data'[i]) => Len(data'[i]) = F)
  <2>1. data'[i] = p \/ (i \in 1..Len(data) /\ data'[i] = data[i])
    <3>1. CASE data' = <<p>>
      BY <3>1
    <3>2. CASE data' = Append(data, p)
      BY <1>1, <3>2
    <3>3. CASE data' = <<>>
      BY <3>3
    <3> QED BY <1>4, <3>1, <3>2, <3>3
  <2> QED BY <2>1 DEF MessageInv
<1>6. ASSUME Seamless(data'), data' # <<>>
      PROVE  /\ \A i \in 1..Len(data') :
                  /\ Header(data'[i][1]).msg = Header(data'[1][1]).msg
                  /\ Header(data'[i][1]).num = Header(data'[1][1]).num
             /\ data'[Len(data')] = p
  <2>1. CASE data' = <<p>>
    BY <2>1
  <2>2. CASE h.cnt # 0 /\ data' = Append(data, p)
    <3>1. data # <<>>
      <4> SUFFICES ASSUME data = <<>> PROVE FALSE
        OBVIOUS
      <4>1. data' = <<p>>
        BY <2>2
      <4>2. Header(p[1]).cnt = 0
        BY <1>6, <4>1 DEF Seamless
      <4> QED BY <2>2, <4>2
    <3>2. /\ Seamless(data)
          /\ Header(p[1]).msg = Header(data[1][1]).msg
          /\ Header(p[1]).num = Header(data[1][1]).num
      BY <1>6, <2>2, <3>1, AppendJoins
    <3>3. /\ Len(data') = Len(data) + 1 /\ data'[Len(data')] = p /\ data'[1] = data[1]
          /\ Len(data) \in Nat
      BY <1>1, <2>2, <3>1
    <3>4. \A i \in 1..Len(data) : data'[i] = data[i]
      BY <1>1, <2>2
    <3>5. \A i \in 1..Len(data) : /\ Header(data[i][1]).msg = Header(data[1][1]).msg
                                  /\ Header(data[i][1]).num = Header(data[1][1]).num
      BY <3>2 DEF MessageInv
    <3>6. ASSUME NEW i \in 1..Len(data')
          PROVE  /\ Header(data'[i][1]).msg = Header(data'[1][1]).msg
                 /\ Header(data'[i][1]).num = Header(data'[1][1]).num
      <4>1. CASE i = Len(data')
        BY <3>2, <3>3, <4>1
      <4>2. CASE i \in 1..Len(data)
        BY <3>3, <3>4, <3>5, <4>2
      <4> QED BY <3>3, <4>1, <4>2
    <3> QED BY <3>3, <3>6
  <2> QED BY <1>4, <1>6, <2>1, <2>2
<1>7. ASSUME reader' = "returned", data' # <<>>, Seamless(data')
      PROVE  /\ Len(data') = Header(data'[1][1]).num
             /\ Requested => Header(data'[1][1]).msg \in Wanted
  <2>1. PICK unwanted \in Unwanted(data') :
          reader' = IF Requested /\ unwanted THEN "asleep"
                    ELSE IF h.num = last' + 1 THEN "returned" ELSE reader
    BY <1>7 DEF Merge
  <2>2. ~(Requested /\ unwanted) /\ h.num = last' + 1
    BY <1>7, <2>1
  <2>3. Header(data'[1][1]).cnt = 0
    BY <1>7 DEF Seamless
  <2>4. unwanted = (Header(data'[1][1]).msg \notin Wanted)
    BY <2>3 DEF Unwanted
  <2>5. Len(data') \in Nat \ {0}
    BY <1>2, <1>7
  <2>6. Header(data'[1][1]).cnt = last' - Len(data') + 1
    BY <1>2, <2>5 DEF CountsFollow
  <2>7. Len(data') = h.num
    <3>1. last' - Len(data') + 1 = 0
      BY <2>3, <2>6
    <3>2. last' + 1 = Len(data')
      <4>1. Len(data') \in Nat /\ last' \in Nat
        BY <1>2, <2>5
      <4> QED BY <3>1, <4>1, EqualByZero
    <3> QED BY <2>2, <3>2
  <2>8. Header(data'[Len(data')][1]).num = Header(data'[1][1]).num
    BY <1>6, <1>7, <2>5
  <2>9. data'[Len(data')] = p
    BY <1>6, <1>7
  <2> QED BY <2>2, <2>4, <2>7, <2>8, <2>9
<1> QED BY <1>3, <1>5, <1>6, <1>7 DEF MessageInv

(* Without a loss mergePkt is handed the packet that follows what it has, and puts it
   there. *)
LEMMA MergeLossless ==
  ASSUME HInv, MessageInv, Seamless(data),
         NEW p \in Seq(Stream), p # <<>>, p[1] \in Stream, Part(p[1]) = 1,
         InOnePiece(p), Len(p) = F,
         IF data = <<>> THEN p[1] = 1 ELSE data[Len(data)][1] + F = p[1],
         MergePkt(Header(p[1]), p)
  PROVE  Seamless(data') /\ data' # <<>> /\ data'[Len(data')] = p
<1> DEFINE h == Header(p[1])
           n == Len(data)
<1>1. data \in Seq(Seq(Stream)) /\ n \in Nat /\ last \in Nat
  BY DEF HInv, TypeOK
<1>2. CASE h.cnt = 0 /\ data' = <<p>>
  BY <1>2 DEF Seamless
<1>3. CASE h.cnt # 0
  <2>1. data # <<>>
    BY <1>3, FirstHeader
  <2>2. n \in 1..n /\ data[n][1] + F = p[1]
    BY <1>1, <2>1
  <2>3. data[n] \in Seq(Stream) /\ data[n] # <<>>
    BY <1>1, <2>2 DEF MessageInv
  <2>4. data[n][1] \in Stream /\ Part(data[n][1]) = 1 /\ Header(data[n][1]).cnt = last
    <3>1. Header(data[n][1]).cnt = last - n + n /\ Part(data[n][1]) = 1
      BY <2>2 DEF HInv, CountsFollow
    <3>2. last - n + n = last
      BY <1>1
    <3>3. data[n][1] \in Stream
      BY <2>3
    <3> QED BY <3>1, <3>2, <3>3
  <2>5. h.cnt = last + 1
    <3> DEFINE m == data[n][1]
    <3>1. m \in Stream /\ m + F \in Stream /\ Part(m) = 1 /\ Header(m + F).cnt # 0
      BY <1>3, <2>2, <2>4
    <3>2. Header(m).cnt = last
      BY <2>4
    <3> HIDE DEF m
    <3>3. Header(m + F).cnt = Header(m).cnt + 1
      BY <3>1, NextHeader
    <3>4. m + F = p[1]
      BY <2>2 DEF m
    <3> QED BY <3>2, <3>3, <3>4
  <2>6. data' = Append(data, p)
    BY <1>3, <2>5 DEF MergePkt
  <2>7. /\ Len(data') = n + 1 /\ data'[n + 1] = p /\ data'[1] = data[1]
        /\ \A i \in 1..n : data'[i] = data[i]
    BY <1>1, <2>1, <2>6
  <2>8. /\ Header(data[1][1]).cnt = 0
        /\ \A i \in 1..n : InOnePiece(data[i])
        /\ \A i \in 2..n : data[i][1] = data[i - 1][1] + Len(data[i - 1])
    BY <2>1 DEF Seamless
  <2>9. ASSUME NEW i \in 1..Len(data') PROVE InOnePiece(data'[i])
    <3>1. i = n + 1 \/ i \in 1..n
      BY <1>1, <2>7
    <3> QED BY <2>7, <2>8, <3>1
  <2>10. ASSUME NEW i \in 2..Len(data')
         PROVE  data'[i][1] = data'[i - 1][1] + Len(data'[i - 1])
    <3>1. CASE i = n + 1
      <4>1. i - 1 = n /\ data'[i] = p /\ data'[i - 1] = data[n]
        BY <1>1, <2>2, <2>7, <3>1
      <4>2. Len(data[n]) = F
        BY <2>2, <2>8 DEF MessageInv
      <4> QED BY <2>2, <4>1, <4>2
    <3>2. CASE i \in 2..n
      <4>1. i - 1 \in 1..n /\ i \in 1..n
        BY <1>1, <3>2
      <4> QED BY <2>7, <2>8, <3>2, <4>1
    <3> QED BY <1>1, <2>7, <3>1, <3>2
  <2> QED BY <1>1, <2>7, <2>8, <2>9, <2>10 DEF Seamless
<1> QED BY <1>2, <1>3 DEF MergePkt

-----------------------------------------------------------------------------
(* Without a loss the next fragment of hidapi's queue goes on with what is in
   pkt.byte. *)
LEMMA NextFragment ==
  ASSUME HInv, LosslessInv, lost = 0, ~cut, reader = "reading", queue # <<>>
  PROVE  LET b == Append(buf, Head(queue))
         IN /\ NextPacket = sent - Len(queue) - Len(buf) + 1 /\ NextPacket \in Int
            /\ Len(b) = Len(buf) + 1
            /\ \A k \in 1..Len(b) : b[k] = NextPacket + k - 1
            /\ \A i \in 1..Len(Tail(queue)) :
                 Tail(queue)[i] = sent - Len(Tail(queue)) + i
<1> DEFINE b == Append(buf, Head(queue))
<1>1. /\ queue \in Seq(Stream) /\ buf \in Seq(Stream) /\ sent \in Nat
      /\ Len(queue) \in Nat \ {0} /\ Len(buf) \in Nat
  BY FragmentCount DEF HInv, TypeOK
<1>2. NextPacket = sent - Len(queue) - Len(buf) + 1 /\ NextPacket \in Int
  BY <1>1 DEF NextPacket
<1>3. /\ \A i \in 1..Len(queue) : queue[i] = sent - Len(queue) + i
      /\ \A k \in 1..Len(buf) : buf[k] = NextPacket + k - 1
  BY DEF LosslessInv
<1>4. Head(queue) = NextPacket + (Len(buf) + 1) - 1
  BY <1>1, <1>2, <1>3
<1>5. Len(b) = Len(buf) + 1
  BY <1>1
<1>6. ASSUME NEW k \in 1..Len(b) PROVE b[k] = NextPacket + k - 1
  <2>1. CASE k = Len(buf) + 1
    BY <1>1, <1>4, <2>1
  <2>2. CASE k \in 1..Len(buf)
    <3>1. b[k] = buf[k]
      BY <1>1, <2>2
    <3> QED BY <1>3, <2>2, <3>1
  <2> QED BY <1>1, <1>5, <2>1, <2>2
<1>7. ASSUME NEW i \in 1..Len(Tail(queue))
      PROVE  Tail(queue)[i] = sent - Len(Tail(queue)) + i
  <2>1. /\ Len(Tail(queue)) = Len(queue) - 1 /\ Tail(queue)[i] = queue[i + 1]
        /\ i + 1 \in 1..Len(queue)
    BY <1>1
  <2> QED BY <1>1, <1>3, <2>1
<1> QED BY <1>2, <1>5, <1>6, <1>7

(* ... and a read that finds a fragment. *)
LEMMA FragmentSeam == HInv /\ SeamInv /\ ReadFragment => SeamInv'
<1> SUFFICES ASSUME HInv, SeamInv, ReadFragment PROVE SeamInv'
  OBVIOUS
<1> DEFINE b == Append(buf, Head(queue))
           c == count + Sizes[Part(Head(queue))]
<1>1. /\ reader = "reading" /\ queue # <<>> /\ queue' = Tail(queue)
      /\ UNCHANGED <<sent, streaming, lost>>
      /\ BufferInv /\ MessageInv /\ LosslessInv
  BY DEF ReadFragment, SeamInv
<1>2. /\ Len(b) = Len(buf) + 1 /\ b \in Seq(Stream) /\ b[1] \in Stream /\ c \in Nat
      /\ Part(b[1]) = 1 /\ InOnePiece(b) => c = Offset[Len(b)] /\ Len(b) \in 1..F
  BY <1>1, BufferFills
<1>3. /\ queue \in Seq(Stream) /\ buf \in Seq(Stream) /\ sent \in Nat /\ lost \in Nat
      /\ Len(queue) \in Nat \ {0} /\ Len(buf) \in Nat /\ b # <<>>
      /\ Len(Tail(queue)) = Len(queue) - 1 /\ cut \in BOOLEAN
  <2>1. /\ queue \in Seq(Stream) /\ buf \in Seq(Stream) /\ sent \in Nat /\ lost \in Nat
        /\ cut \in BOOLEAN
    BY FragmentCount, HidAssumption DEF HInv, TypeOK
  <2>2. Len(queue) \in Nat \ {0} /\ Len(buf) \in Nat /\ Len(Tail(queue)) = Len(queue) - 1
    BY <1>1, <2>1
  <2>3. b # <<>>
    BY <1>1, BufferGrows DEF HInv
  <2> QED BY <2>1, <2>2, <2>3
<1>4. ASSUME lost = 0, ~cut
      PROVE  /\ NextPacket = sent - Len(queue) - Len(buf) + 1 /\ NextPacket \in Int
             /\ \A k \in 1..Len(b) : b[k] = NextPacket + k - 1
             /\ \A i \in 1..Len(queue') : queue'[i] = sent' - Len(queue') + i
             /\ b[1] = NextPacket /\ InOnePiece(b) /\ Part(b[1]) = 1
             /\ Seamless(data) /\ ~overran
             /\ IF data = <<>> THEN NextPacket = 1
                               ELSE data[Len(data)][1] + F = NextPacket
  <2>1. /\ NextPacket = sent - Len(queue) - Len(buf) + 1 /\ NextPacket \in Int
        /\ \A k \in 1..Len(b) : b[k] = NextPacket + k - 1
        /\ \A i \in 1..Len(Tail(queue)) : Tail(queue)[i] = sent - Len(Tail(queue)) + i
    BY <1>1, <1>4, NextFragment
  <2>2. b[1] = NextPacket
    BY <1>2, <1>3, <2>1
  <2>3. InOnePiece(b)
    BY <2>1, <2>2 DEF InOnePiece
  <2> QED BY <1>1, <1>4, <2>1, <2>2, <2>3 DEF LosslessInv
<1> HIDE DEF b, c
<1>5. CASE c < PacketSize /\ TryAgain(b, c) /\ UNCHANGED <<merge, overran>>
  <2>1. BufferInv'
    <3>1. Part(b[1]) = 1 /\ InOnePiece(b) => Len(b) < F /\ c = Offset[Len(b)]
      <4>1. F \in Nat /\ PacketSize \in Nat /\ Offset[F] = PacketSize
        BY FragmentCount, OffsetSums, HidAssumption
      <4> QED BY <1>2, <1>5, <4>1
    <3> QED BY <1>3, <1>5, <3>1, BufferTried
  <2>2. MessageInv'
    <3>1. UNCHANGED reader \/ reader' \notin {"closed", "returned"}
      BY <1>5 DEF TryAgain
    <3> QED BY <1>1, <1>5, <3>1, MessageUntouched DEF merge
  <2>3. LosslessInv'
    <3>1. CASE buf' = b /\ UNCHANGED <<reader, cut>>
      <4> SUFFICES ASSUME lost = 0, ~cut PROVE LosslessInv'
        BY <1>1, <3>1 DEF LosslessInv
      <4>1. NextPacket' = sent - (Len(queue) - 1) - (Len(buf) + 1) + 1
        BY <1>1, <1>2, <1>3, <3>1 DEF NextPacket
      <4>2. NextPacket' = NextPacket
        BY <1>3, <1>4, <4>1
      <4> QED BY <1>1, <1>4, <1>5, <3>1, <4>2 DEF LosslessInv, merge
    <3>2. CASE cut'
      BY <3>2 DEF LosslessInv
    <3> QED BY <1>3, <1>5, <3>1, <3>2 DEF TryAgain
  <2> QED BY <2>1, <2>2, <2>3 DEF SeamInv
<1>6. CASE c = PacketSize /\ Complete(b) /\ UNCHANGED overran
  <2>1. buf' = <<>> /\ count' = 0 /\ UNCHANGED cut
    BY <1>6 DEF Complete
  <2>2. BufferInv'
    BY <2>1 DEF BufferInv
  <2>3. Part(b[1]) = 1 /\ InOnePiece(b) => Len(b) = F
    BY <1>2, <1>6, OffsetFull
  <2>4. MessageInv'
    <3>1. CASE Part(b[1]) = 1
      <4>1. Merge(Header(b[1]), b)
        BY <1>6, <3>1 DEF Complete
      <4> QED BY <1>1, <1>2, <1>3, <2>3, <3>1, <4>1, MergeMessage
    <3>2. CASE Part(b[1]) # 1
      <4>1. UNCHANGED <<merge, reader>>
        BY <1>6, <3>2 DEF Complete
      <4> QED BY <1>1, <4>1, MessageUntouched DEF merge
    <3> QED BY <3>1, <3>2
  <2>5. LosslessInv'
    <3> SUFFICES ASSUME lost = 0, ~cut PROVE LosslessInv'
      BY <1>1, <2>1 DEF LosslessInv
    <3>1. Merge(Header(b[1]), b)
      BY <1>4, <1>6 DEF Complete
    <3>2. MergePkt(Header(b[1]), b)
      BY <3>1 DEF Merge
    <3>3. Len(b) = F
      BY <1>4, <2>3
    <3>4. Seamless(data') /\ data' # <<>> /\ data'[Len(data')] = b
      BY <1>1, <1>2, <1>3, <1>4, <3>2, <3>3, MergeLossless
    <3>5. NextPacket' = sent - (Len(queue) - 1) - 0 + 1
      BY <1>1, <1>3, <2>1 DEF NextPacket
    <3>6. NextPacket' = NextPacket + F
      <4>1. F = Len(buf) + 1
        BY <1>2, <3>3
      <4>2. NextPacket = sent - Len(queue) - Len(buf) + 1
        BY <1>4
      <4> QED BY <1>3, <3>5, <4>1, <4>2
    <3>7. NextPacket \in Nat \ {0}
      BY <1>2, <1>4, FragmentCount DEF Stream
    <3>8. Part(NextPacket') = 1
      BY <1>4, <3>6, <3>7, PacketLayout
    <3>9. ~overran' /\ data'[Len(data')][1] + F = NextPacket'
      BY <1>4, <1>6, <3>4, <3>6
    <3>10. \A k \in 1..Len(buf') : buf'[k] = NextPacket' + k - 1
      BY <2>1
    <3> QED BY <1>4, <3>4, <3>8, <3>9, <3>10 DEF LosslessInv
  <2> QED BY <2>2, <2>4, <2>5 DEF SeamInv
<1>7. CASE c > PacketSize /\ TryAgain(<<>>, 0) /\ overran' = TRUE /\ UNCHANGED merge
  <2>1. BufferInv'
    BY <1>7 DEF TryAgain, BufferInv
  <2>2. MessageInv'
    <3>1. UNCHANGED reader \/ reader' \notin {"closed", "returned"}
      BY <1>7 DEF TryAgain
    <3> QED BY <1>1, <1>7, <3>1, MessageUntouched DEF merge
  <2>3. LosslessInv'
    <3> SUFFICES ASSUME lost = 0, ~cut PROVE FALSE
      BY <1>1, <1>7 DEF LosslessInv, TryAgain
    <3>1. c = Offset[Len(b)] /\ Len(b) \in 0..F
      BY <1>2, <1>4, FragmentCount
    <3>2. c \in 0..PacketSize
      BY <3>1, OffsetSums
    <3> QED BY <1>7, <3>2, HidAssumption
  <2> QED BY <2>1, <2>2, <2>3 DEF SeamInv
<1> QED BY <1>5, <1>6, <1>7 DEF ReadFragment, b, c

(* Every step keeps the invariant. *)
LEMMA SeamStep == HInv /\ SeamInv /\ [Next]_vars => SeamInv'
<1> SUFFICES ASSUME HInv, SeamInv, [Next]_vars PROVE SeamInv'
  OBVIOUS
<1>1. CASE UNCHANGED vars
  BY <1>1 DEF SeamInv, BufferInv, MessageInv, LosslessInv, NextPacket,
              vars, device, packet, merge
<1>2. CASE Next
  BY <1>2, SendSeam, ControlSeam, NothingSeam, FragmentSeam, FailureSeam DEF Next, Reader
<1> QED BY <1>1, <1>2

LEMMA SeamInvariance == Spec => []SeamInv
  BY Invariance, SeamInit, SeamStep, PTL DEF Spec

(* As long as hidapi drops nothing and no packet is given up half read, the message of
   receiveHidData has no seam and no read goes past pkt.byte; and a message without a seam
   that it returns is a whole message, and one that was asked for. *)
THEOREM TornTheorem == Spec => []TornByLossOnly
<1>1. SeamInv => TornByLossOnly
  BY DEF SeamInv, LosslessInv, MessageInv, TornByLossOnly
<1> QED BY <1>1, SeamInvariance, PTL
=============================================================================
