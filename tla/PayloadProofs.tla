---------------------------- MODULE PayloadProofs ----------------------------
(***************************************************************************)
(* Theorems about Payload, for frames and buffers of every size and every    *)
(* number of frames.  The invariant PInv is about what is in the buffers;    *)
(* WInv adds what is in them while nothing is damaged.                       *)
(***************************************************************************)
EXTENDS Payload, TLAPS

(* What SwapBuffers and the others hand on. *)
Assembly ==
  [data : Seq(Unit), meta : 0..MetaSize, err : BOOLEAN, seq : Nat,
   hold : [seq : Nat, data : Seq(Unit), err : BOOLEAN]]

Fits(data) == data = <<>> \/ Len(data) < MaxSize

(* OneShot, when the shots in S have been seen. *)
OneShotOf(data, S) ==
  \A i \in 1..(Len(data) - 1) :
    \/ data[i].shot = data[i + 1].shot /\ data[i].pos < data[i + 1].pos
    \/ /\ data[i].shot < data[i + 1].shot /\ data[i].shot % 2 = data[i + 1].shot % 2
       /\ \A k \in data[i].shot .. data[i + 1].shot : k % 2 # data[i].shot % 2 => k \notin S

(* No data is from the future. *)
Past(data) == \A i \in 1..Len(data) : data[i].shot <= shot

(* The last unit of the data at hand has the bit f, is behind the next of the
   camera, and no shot after it that has the other bit was seen. *)
Follows(data, f, sentSoFar, S) ==
  data # <<>> =>
    /\ data[Len(data)].shot % 2 = f
    /\ data[Len(data)].shot = shot => data[Len(data)].pos <= sentSoFar
    /\ \A k \in data[Len(data)].shot .. shot : k % 2 # f => k \notin S

PInv ==
  /\ TypeOK /\ NoOverflow
  /\ seen \subseteq 1..shot
  /\ Past(outbuf) /\ Past(published.data)
  /\ MixedAcrossLostShotsOnly
  /\ Follows(outbuf, fid, sent, seen)

LEMMA OneShotIs ==
  ASSUME NEW data PROVE OneShot(data) <=> OneShotOf(data, seen)
BY DEF OneShot, OneShotOf

(* The units of a payload. *)
LEMMA PayloadUnits ==
  ASSUME TypeOK, shot <= MaxShots, NEW n \in 0..FrameSize, sent + n <= FrameSize
  PROVE  /\ Data(n) \in Seq(Unit) /\ Len(Data(n)) = n
         /\ \A i \in 1..n : Data(n)[i].shot = shot /\ Data(n)[i].pos = sent + i
<1>1. shot \in 1..MaxShots /\ sent \in Nat /\ n \in Nat
  BY PayloadAssumption DEF TypeOK
<1>2. \A i \in 1..n : sent + i \in 1..FrameSize
  BY <1>1, PayloadAssumption
<1>3. \A i \in 1..n : [shot |-> shot, pos |-> sent + i] \in Unit
  BY <1>1, <1>2 DEF Unit
<1>4. Data(n) \in [1..n -> Unit]
  BY <1>3 DEF Data
<1>5. Data(n) \in Seq(Unit) /\ Len(Data(n)) = n
  BY <1>1, <1>4 DEF Data
<1> QED BY <1>5 DEF Data

LEMMA ElementOf ==
  ASSUME NEW S, NEW s \in Seq(S), NEW i \in 1..Len(s)
  PROVE  s[i] \in S
OBVIOUS

LEMMA Joined ==
  ASSUME NEW S, NEW s \in Seq(S), NEW t \in Seq(S)
  PROVE  s \o t \in Seq(S) /\ Len(s \o t) = Len(s) + Len(t)
OBVIOUS

LEMMA SwapTypes ==
  ASSUME NEW a \in Assembly, PayloadAssumption
  PROVE  SwapBuffers(a) \in Assembly
<1>1. <<>> \in Seq(Unit)
  OBVIOUS
<1>2. a.seq + 1 \in Nat /\ 0 \in 0..MetaSize
  BY DEF Assembly, PayloadAssumption
<1> QED BY <1>1, <1>2 DEF Assembly, SwapBuffers

LEMMA MetaTypes ==
  ASSUME NEW a \in Assembly, NEW m \in 0..MetaSize, PayloadAssumption
  PROVE  AddMeta(a, m) \in Assembly /\ AddMeta(a, m).data = a.data /\ AddMeta(a, m).hold = a.hold
<1>1. (IF a.meta + m > MetaSize THEN MetaSize ELSE a.meta + m) \in 0..MetaSize
  BY DEF Assembly, PayloadAssumption
<1> QED BY <1>1 DEF Assembly, AddMeta

LEMMA DataTypes ==
  ASSUME NEW a \in Assembly, NEW d \in Seq(Unit)
  PROVE  /\ AddData(a, d) \in Assembly /\ AddData(a, d).hold = a.hold
         /\ AddData(a, d).data \in {a.data, a.data \o d}
         /\ Len(a.data) + Len(d) < MaxSize \/ AddData(a, d).data = a.data
<1>1. a.data \o d \in Seq(Unit)
  BY DEF Assembly
<1> QED BY <1>1 DEF Assembly, AddData

(* More shots are seen; none of them is between two pieces of data. *)
LEMMA SeenGrows ==
  ASSUME TypeOK, NEW data \in Seq(Unit), Past(data), OneShotOf(data, seen)
  PROVE  OneShotOf(data, seen \cup {shot})
<1> SUFFICES ASSUME NEW i \in 1..(Len(data) - 1),
                    ~(data[i].shot = data[i + 1].shot /\ data[i].pos < data[i + 1].pos)
             PROVE  /\ data[i].shot < data[i + 1].shot /\ data[i].shot % 2 = data[i + 1].shot % 2
                    /\ \A k \in data[i].shot .. data[i + 1].shot :
                         k % 2 # data[i].shot % 2 => k \notin seen \cup {shot}
  BY DEF OneShotOf
<1>1. /\ data[i].shot < data[i + 1].shot /\ data[i].shot % 2 = data[i + 1].shot % 2
      /\ \A k \in data[i].shot .. data[i + 1].shot : k % 2 # data[i].shot % 2 => k \notin seen
  BY DEF OneShotOf
<1>2. Len(data) \in Nat /\ i \in 1..Len(data) /\ i + 1 \in 1..Len(data)
  OBVIOUS
<1>3. data[i] \in Unit /\ data[i + 1] \in Unit
  BY <1>2, ElementOf
<1>4. data[i].shot \in Nat /\ data[i + 1].shot \in Nat /\ shot \in Nat
  <2>1. \A u \in Unit : u.shot \in Nat
    BY PayloadAssumption DEF Unit
  <2> QED BY <1>3, <2>1, PayloadAssumption DEF TypeOK
<1>5. data[i + 1].shot <= shot
  BY <1>2 DEF Past
<1>6. ASSUME NEW k \in data[i].shot .. data[i + 1].shot, k % 2 # data[i].shot % 2
      PROVE  k # shot
  BY <1>1, <1>4, <1>5, <1>6
<1> QED BY <1>1, <1>6

(* The data of a payload goes behind what is there. *)
LEMMA DataFollows ==
  ASSUME TypeOK, shot <= MaxShots, NEW n \in 0..FrameSize, sent + n <= FrameSize,
         NEW data \in Seq(Unit), NEW f, Past(data), OneShotOf(data, seen \cup {shot}),
         Follows(data, f, sent, seen), data # <<>> => f = Fid,
         NEW d \in {data, data \o Data(n)}
  PROVE  /\ d \in Seq(Unit) /\ Past(d)
         /\ OneShotOf(d, seen \cup {shot})
         /\ Follows(d, Fid, sent + n, seen \cup {shot})
<1> DEFINE S == seen \cup {shot}
<1>0. shot \in Nat /\ sent \in Nat /\ n \in Nat /\ Len(data) \in Nat
  BY PayloadAssumption DEF TypeOK
<1>1. /\ Data(n) \in Seq(Unit) /\ Len(Data(n)) = n
      /\ \A i \in 1..n : Data(n)[i].shot = shot /\ Data(n)[i].pos = sent + i
  BY PayloadUnits
<1>2. CASE d = data
  <2>1. ASSUME data # <<>> PROVE Follows(data, Fid, sent + n, S)
    <3> DEFINE u == data[Len(data)]
    <3>1. u \in Unit
      BY <2>1, <1>0, ElementOf
    <3> HIDE DEF u
    <3>2. u.shot \in Nat /\ u.pos \in Nat
      BY <3>1, PayloadAssumption DEF Unit
    <3> USE DEF u
    <3>3. /\ u.shot % 2 = Fid /\ (u.shot = shot => u.pos <= sent)
          /\ \A k \in u.shot .. shot : k % 2 # Fid => k \notin seen
      BY <2>1 DEF Follows
    <3>4. u.shot = shot => u.pos <= sent + n
      BY <3>2, <3>3, <1>0
    <3>5. \A k \in u.shot .. shot : k % 2 # Fid => k # shot
      BY DEF Fid
    <3> QED BY <3>3, <3>4, <3>5 DEF Follows
  <2>2. Follows(data, Fid, sent + n, S)
    BY <2>1 DEF Follows
  <2> QED BY <1>2, <2>2
<1>3. CASE d = data \o Data(n) /\ n = 0
  <2>1. d = data
    BY <1>1, <1>3
  <2> QED BY <2>1, <1>2
<1>4. CASE d = data \o Data(n) /\ n > 0
  <2>1. d \in Seq(Unit) /\ Len(d) = Len(data) + n
    <3> DEFINE e == Data(n)
    <3>1. e \in Seq(Unit) /\ Len(e) = n /\ d = data \o e
      BY <1>1, <1>4
    <3> HIDE DEF e
    <3>2. data \o e \in Seq(Unit) /\ Len(data \o e) = Len(data) + Len(e)
      BY <3>1, Joined
    <3> QED BY <3>1, <3>2
  <2>2. \A i \in 1..Len(data) : d[i] = data[i]
    BY <1>1, <1>4, <1>0
  <2>3. \A i \in (Len(data) + 1)..Len(d) : d[i].shot = shot /\ d[i].pos = sent + (i - Len(data))
    <3> SUFFICES ASSUME NEW i \in (Len(data) + 1)..Len(d)
                 PROVE  d[i].shot = shot /\ d[i].pos = sent + (i - Len(data))
      OBVIOUS
    <3>1. i - Len(data) \in 1..n /\ i \in Nat
      BY <2>1, <1>0
    <3>2. d[i] = Data(n)[i - Len(data)]
      BY <1>1, <1>4, <1>0, <2>1, <3>1
    <3> QED BY <3>1, <3>2, <1>1
  <2>4. Past(d)
    <3> SUFFICES ASSUME NEW i \in 1..Len(d) PROVE d[i].shot <= shot
      BY DEF Past
    <3>1. CASE i <= Len(data)
      BY <3>1, <2>2, <1>0 DEF Past
    <3>2. CASE i > Len(data)
      <4>1. i \in (Len(data) + 1)..Len(d)
        BY <3>2, <2>1, <1>0
      <4>2. d[i].shot = shot
        BY <4>1, <2>3
      <4> QED BY <4>2, <1>0
    <3> QED BY <3>1, <3>2, <1>0, <2>1
  <2>5. OneShotOf(d, S)
    <3> SUFFICES ASSUME NEW i \in 1..(Len(d) - 1)
                 PROVE  \/ d[i].shot = d[i + 1].shot /\ d[i].pos < d[i + 1].pos
                        \/ /\ d[i].shot < d[i + 1].shot /\ d[i].shot % 2 = d[i + 1].shot % 2
                           /\ \A k \in d[i].shot .. d[i + 1].shot :
                                k % 2 # d[i].shot % 2 => k \notin S
      BY DEF OneShotOf
    <3>0. i \in Nat /\ i >= 1 /\ i + 1 <= Len(data) + n
      BY <2>1, <1>0
    <3>1. CASE i + 1 <= Len(data)
      <4>1. i \in 1..(Len(data) - 1) /\ i \in 1..Len(data) /\ i + 1 \in 1..Len(data)
        BY <3>0, <3>1, <1>0
      <4>2. d[i] = data[i] /\ d[i + 1] = data[i + 1]
        BY <4>1, <2>2
      <4>3. \/ data[i].shot = data[i + 1].shot /\ data[i].pos < data[i + 1].pos
            \/ /\ data[i].shot < data[i + 1].shot /\ data[i].shot % 2 = data[i + 1].shot % 2
               /\ \A k \in data[i].shot .. data[i + 1].shot :
                    k % 2 # data[i].shot % 2 => k \notin S
        BY <4>1 DEF OneShotOf
      <4> HIDE DEF S
      <4> QED BY <4>2, <4>3
    <3>2. CASE i > Len(data)
      <4>1. i \in (Len(data) + 1)..Len(d) /\ i + 1 \in (Len(data) + 1)..Len(d)
        BY <3>0, <3>2, <2>1, <1>0
      <4>2. /\ d[i].shot = shot /\ d[i + 1].shot = shot
            /\ d[i].pos = sent + (i - Len(data)) /\ d[i + 1].pos = sent + (i + 1 - Len(data))
        BY <4>1, <2>3
      <4> QED BY <4>2, <3>0, <1>0
    <3>3. CASE i = Len(data)
      <4> DEFINE u == data[Len(data)]
      <4>1. data # <<>> /\ Len(data) \in 1..Len(data)
        BY <3>0, <3>3
      <4>2. d[i] = u
        BY <4>1, <2>2, <3>3
      <4>3. i + 1 \in (Len(data) + 1)..Len(d)
        BY <3>0, <3>3, <2>1, <1>0
      <4>4. d[i + 1].shot = shot /\ d[i + 1].pos = sent + 1
        BY <4>3, <2>3, <3>3, <1>0
      <4>5. u \in Unit
        BY <4>1, ElementOf
      <4>6. u.shot \in Nat /\ u.pos \in Nat /\ u.shot <= shot
        BY <4>1, <4>5, PayloadAssumption DEF Unit, Past
      <4>7. /\ u.shot % 2 = shot % 2 /\ (u.shot = shot => u.pos <= sent)
            /\ \A k \in u.shot .. shot : k % 2 # shot % 2 => k \notin seen
        BY <4>1 DEF Follows, Fid
      <4>8. CASE u.shot = shot
        BY <4>8, <4>2, <4>4, <4>6, <4>7, <1>0
      <4>9. CASE u.shot # shot
        <5>1. u.shot < shot
          BY <4>9, <4>6, <1>0
        <5>2. \A k \in u.shot .. shot : k % 2 # u.shot % 2 => k \notin S
          BY <4>7
        <5> QED BY <5>1, <5>2, <4>2, <4>4, <4>7
      <4> QED BY <4>8, <4>9
    <3> QED BY <3>0, <3>1, <3>2, <3>3, <1>0
  <2>6. Follows(d, Fid, sent + n, S)
    <3>1. Len(d) \in (Len(data) + 1)..Len(d) /\ Len(d) - Len(data) = n
      BY <2>1, <1>0, <1>4
    <3>2. d[Len(d)].shot = shot /\ d[Len(d)].pos = sent + n
      BY <3>1, <2>3
    <3>3. \A k \in shot .. shot : k % 2 = Fid
      BY <1>0 DEF Fid
    <3> QED BY <3>2, <3>3, <1>0 DEF Follows, Fid
  <2> QED BY <2>1, <2>4, <2>5, <2>6
<1> QED BY <1>0, <1>2, <1>3, <1>4

-----------------------------------------------------------------------------
(* What the steps of _uvc_process_payload preserve, when the shots in S have
   been seen. *)
Sound(a, S) ==
  /\ a \in Assembly /\ Fits(a.data)
  /\ Past(a.data) /\ Past(a.hold.data)
  /\ OneShotOf(a.data, S) /\ OneShotOf(a.hold.data, S)

LEMMA NothingIsSound ==
  ASSUME NEW S, NEW f, NEW p
  PROVE  OneShotOf(<<>>, S) /\ Past(<<>>) /\ Follows(<<>>, f, p, S) /\ Fits(<<>>)
BY DEF OneShotOf, Past, Follows, Fits

LEMMA SwapSound ==
  ASSUME NEW S, NEW a, Sound(a, S), PayloadAssumption
  PROVE  Sound(SwapBuffers(a), S) /\ SwapBuffers(a).data = <<>>
<1>1. SwapBuffers(a) \in Assembly
  BY SwapTypes DEF Sound
<1>2. SwapBuffers(a).data = <<>> /\ SwapBuffers(a).hold.data = a.data
  BY DEF SwapBuffers
<1>3. OneShotOf(<<>>, S) /\ Past(<<>>) /\ Fits(<<>>)
  BY NothingIsSound
<1> QED BY <1>1, <1>2, <1>3 DEF Sound

LEMMA InProgressSound ==
  ASSUME PInv
  PROVE  Sound(InProgress, seen \cup {shot})
<1>1. InProgress \in Assembly
  BY DEF PInv, TypeOK, InProgress, Assembly
<1>2. InProgress.data = outbuf /\ InProgress.hold.data = published.data
  BY DEF InProgress
<1>3. outbuf \in Seq(Unit) /\ published.data \in Seq(Unit) /\ TypeOK
  BY DEF PInv, TypeOK
<1>4. OneShotOf(outbuf, seen) /\ OneShotOf(published.data, seen)
  BY OneShotIs DEF PInv, MixedAcrossLostShotsOnly
<1>5. OneShotOf(outbuf, seen \cup {shot}) /\ OneShotOf(published.data, seen \cup {shot})
  BY <1>3, <1>4, SeenGrows DEF PInv
<1> QED BY <1>1, <1>2, <1>5 DEF PInv, NoOverflow, Fits, Sound

(* The whole of _uvc_process_payload. *)
LEMMA ProcessSound ==
  ASSUME PInv, shot <= MaxShots, NEW n \in 0..FrameSize, sent + n <= FrameSize,
         NEW m \in 0..MetaSize, NEW eof
  PROVE  /\ Sound(ProcessPayload(m, n, eof), seen \cup {shot})
         /\ Follows(ProcessPayload(m, n, eof).data, Fid, sent + n, seen \cup {shot})
<1> DEFINE S  == seen \cup {shot}
           a1 == TestFid(InProgress)
           a2 == AddMeta(a1, m)
           a3 == AddData(a2, Data(n))
           a4 == EndFrame(a3, n, eof)
<1>0. PayloadAssumption /\ TypeOK
  BY PayloadAssumption DEF PInv
<1>1. Sound(InProgress, S)
  BY InProgressSound
<1>2. Sound(a1, S) /\ a1.data \in {<<>>, outbuf} /\ (a1.data # <<>> => fid = Fid)
  <2>1. InProgress.data = outbuf
    BY DEF InProgress
  <2>2. CASE fid # Fid /\ outbuf # <<>>
    <3>1. a1 = SwapBuffers(InProgress)
      BY <2>1, <2>2 DEF TestFid
    <3> QED BY <3>1, <1>0, <1>1, SwapSound
  <2>3. CASE ~(fid # Fid /\ outbuf # <<>>)
    <3>1. a1 = InProgress
      BY <2>1, <2>3 DEF TestFid
    <3> QED BY <3>1, <2>1, <2>3, <1>1
  <2> QED BY <2>2, <2>3
<1>3. Follows(a1.data, fid, sent, seen)
  BY <1>2, NothingIsSound DEF PInv
<1> HIDE DEF a1
<1>4. Sound(a2, S) /\ a2.data = a1.data
  <2>1. a2 \in Assembly /\ a2.data = a1.data /\ a2.hold = a1.hold
    BY <1>0, <1>2, MetaTypes DEF Sound
  <2> QED BY <1>2, <2>1 DEF Sound
<1> HIDE DEF a2
<1>5. Sound(a3, S) /\ Follows(a3.data, Fid, sent + n, S)
  <2>1. Data(n) \in Seq(Unit) /\ Len(Data(n)) = n
    BY <1>0, PayloadUnits
  <2>2. /\ a3 \in Assembly /\ a3.hold = a2.hold
        /\ a3.data \in {a2.data, a2.data \o Data(n)}
        /\ Len(a2.data) + Len(Data(n)) < MaxSize \/ a3.data = a2.data
    BY <1>4, <2>1, DataTypes DEF Sound
  <2>3. a2.data \in Seq(Unit)
    BY <1>4 DEF Sound, Assembly
  <2> HIDE DEF a3
  <2>4. Past(a3.data) /\ OneShotOf(a3.data, S) /\ Follows(a3.data, Fid, sent + n, S)
    <3>1. Past(a2.data) /\ OneShotOf(a2.data, S) /\ Follows(a2.data, fid, sent, seen)
      BY <1>3, <1>4 DEF Sound
    <3>2. a2.data # <<>> => fid = Fid
      BY <1>2, <1>4
    <3> QED BY <1>0, <2>2, <2>3, <3>1, <3>2, DataFollows
  <2>5. Fits(a3.data)
    <3>1. CASE a3.data = a2.data
      BY <3>1, <1>4 DEF Sound
    <3>2. CASE a3.data # a2.data
      <4>1. Len(a3.data) = Len(a2.data) + Len(Data(n))
        BY <3>2, <2>1, <2>2, <2>3, Joined
      <4> QED BY <4>1, <3>2, <2>2 DEF Fits
    <3> QED BY <3>1, <3>2
  <2> QED BY <1>4, <2>2, <2>4, <2>5 DEF Sound
<1> HIDE DEF a3
<1>6. Sound(a4, S) /\ Follows(a4.data, Fid, sent + n, S)
  <2> DEFINE b == SwapBuffers(a3)
  <2>1. Sound(b, S) /\ b.data = <<>>
    BY <1>0, <1>5, SwapSound
  <2>2. Follows(<<>>, Fid, sent + n, S)
    BY NothingIsSound
  <2>3. a4 = b \/ a4 = a3
    BY DEF EndFrame
  <2> HIDE DEF b, a4
  <2>4. CASE a4 = b
    BY <2>1, <2>2, <2>4
  <2>5. CASE a4 = a3
    BY <2>5, <1>5
  <2> QED BY <2>3, <2>4, <2>5
<1>7. a4 = ProcessPayload(m, n, eof)
  BY DEF ProcessPayload, a1, a2, a3
<1> HIDE DEF a4
<1> QED BY <1>6, <1>7

-----------------------------------------------------------------------------
LEMMA PayloadInit == Init => PInv
<1> SUFFICES ASSUME Init PROVE PInv
  OBVIOUS
<1>1. TypeOK
  <2>1. <<>> \in Seq(Unit)
    OBVIOUS
  <2>2. published \in [seq : Nat, data : Seq(Unit), err : BOOLEAN]
    BY <2>1 DEF Init
  <2>3. 1 \in 1..(MaxShots + 1) /\ 0 \in 0..FrameSize /\ 0 \in 0..MetaSize
    BY PayloadAssumption
  <2> QED BY <2>1, <2>2, <2>3 DEF Init, TypeOK
<1>2. outbuf = <<>> /\ published.data = <<>> /\ seen = {} /\ meta = 0
  BY DEF Init
<1>3. NoOverflow
  BY <1>2, PayloadAssumption DEF NoOverflow
<1>4. MixedAcrossLostShotsOnly
  BY <1>2 DEF MixedAcrossLostShotsOnly, OneShot
<1> QED BY <1>1, <1>2, <1>3, <1>4, NothingIsSound DEF PInv

LEMMA NextShotKeeps ==
  ASSUME PInv, NextShot PROVE PInv'
<1>1. shot \in Nat /\ shot' = shot + 1 /\ sent' = 0 /\ shot <= MaxShots /\ MaxShots \in Nat
  BY PayloadAssumption DEF PInv, TypeOK, NextShot
<1>2. /\ fid' = fid /\ outbuf' = outbuf /\ meta' = meta /\ spoiled' = spoiled /\ seq' = seq
      /\ published' = published /\ seen' = seen /\ damaged' = damaged
  BY DEF NextShot, assembly
<1>3. TypeOK'
  BY <1>1, <1>2, PayloadAssumption DEF PInv, TypeOK
<1>4. NoOverflow' /\ MixedAcrossLostShotsOnly'
  BY <1>2 DEF PInv, NoOverflow, MixedAcrossLostShotsOnly, OneShot
<1>5. seen' \subseteq 1..shot'
  BY <1>1, <1>2 DEF PInv
<1>6. ASSUME NEW data \in Seq(Unit), Past(data)
      PROVE  \A i \in 1..Len(data) : data[i].shot \in Nat /\ data[i].shot <= shot + 1 /\ data[i].shot # shot + 1
  <2>1. \A u \in Unit : u.shot \in Nat
    BY PayloadAssumption DEF Unit
  <2>2. \A i \in 1..Len(data) : data[i] \in Unit
    BY ElementOf
  <2> QED BY <2>1, <2>2, <1>1, <1>6 DEF Past
<1>7. outbuf \in Seq(Unit) /\ published.data \in Seq(Unit) /\ Past(outbuf) /\ Past(published.data)
  BY DEF PInv, TypeOK
<1>8. Past(outbuf)' /\ Past(published.data)'
  BY <1>1, <1>2, <1>6, <1>7 DEF Past
<1>9. Follows(outbuf, fid, sent, seen)'
  <2> SUFFICES ASSUME outbuf # <<>>
               PROVE  LET u == outbuf[Len(outbuf)]
                      IN /\ u.shot % 2 = fid
                         /\ u.shot = shot + 1 => u.pos <= 0
                         /\ \A k \in u.shot .. (shot + 1) : k % 2 # fid => k \notin seen
    BY <1>1, <1>2 DEF Follows
  <2>1. Len(outbuf) \in 1..Len(outbuf)
    BY <1>7
  <2> DEFINE u == outbuf[Len(outbuf)]
  <2>2. u.shot # shot + 1 /\ u.shot \in Nat
    BY <2>1, <1>6, <1>7
  <2>3. u.shot % 2 = fid /\ \A k \in u.shot .. shot : k % 2 # fid => k \notin seen
    BY DEF PInv, Follows
  <2>4. shot + 1 \notin seen
    BY <1>1 DEF PInv
  <2> HIDE DEF u
  <2>5. \A k \in u.shot .. (shot + 1) : k = shot + 1 \/ k \in u.shot .. shot
    BY <1>1, <2>2
  <2>6. \A k \in u.shot .. (shot + 1) : k % 2 # fid => k \notin seen
    BY <2>3, <2>4, <2>5
  <2> QED BY <2>2, <2>3, <2>6 DEF u
<1> QED BY <1>3, <1>4, <1>5, <1>8, <1>9 DEF PInv

(* A payload that changes nothing but spoiled. *)
LEMMA DamageKeeps ==
  ASSUME PInv, NEW n \in 0..FrameSize, Lose(n) \/ Bogus(n) PROVE PInv'
<1>1. /\ shot \in Nat /\ shot' = shot /\ sent' = sent + n /\ sent + n <= FrameSize
      /\ shot <= MaxShots /\ sent \in Nat /\ n \in Nat
  BY PayloadAssumption DEF PInv, TypeOK, Lose, Bogus, Send
<1>2. /\ fid' = fid /\ outbuf' = outbuf /\ meta' = meta /\ seq' = seq
      /\ published' = published /\ seen' = seen
      /\ spoiled' \in {spoiled, TRUE} /\ damaged' = damaged \cup {shot}
  BY DEF Lose, Bogus, assembly
<1>3. TypeOK'
  <2>1. sent' \in 0..FrameSize /\ shot \in 1..MaxShots
    BY <1>1, PayloadAssumption DEF PInv, TypeOK
  <2>2. spoiled' \in BOOLEAN /\ damaged' \in SUBSET (1..MaxShots)
    BY <1>2, <2>1 DEF PInv, TypeOK
  <2> QED BY <1>1, <1>2, <2>1, <2>2 DEF PInv, TypeOK
<1>4. NoOverflow' /\ MixedAcrossLostShotsOnly' /\ seen' \subseteq 1..shot'
  BY <1>1, <1>2 DEF PInv, NoOverflow, MixedAcrossLostShotsOnly, OneShot
<1>5. Past(outbuf)' /\ Past(published.data)'
  BY <1>1, <1>2 DEF PInv, Past
<1>6. Follows(outbuf, fid, sent, seen)'
  <2>0. outbuf \in Seq(Unit)
    BY DEF PInv, TypeOK
  <2> SUFFICES ASSUME outbuf # <<>>
               PROVE  LET u == outbuf[Len(outbuf)]
                      IN /\ u.shot % 2 = fid
                         /\ u.shot = shot => u.pos <= sent + n
                         /\ \A k \in u.shot .. shot : k % 2 # fid => k \notin seen
    BY <1>1, <1>2 DEF Follows
  <2> DEFINE u == outbuf[Len(outbuf)]
  <2>1. Len(outbuf) \in 1..Len(outbuf)
    BY <2>0
  <2>2. u \in Unit
    BY <2>0, <2>1, ElementOf
  <2>3. /\ u.shot % 2 = fid /\ (u.shot = shot => u.pos <= sent)
        /\ \A k \in u.shot .. shot : k % 2 # fid => k \notin seen
    BY DEF PInv, Follows
  <2> HIDE DEF u
  <2>4. u.pos \in Nat
    BY <2>2, PayloadAssumption DEF Unit
  <2>5. u.shot = shot => u.pos <= sent + n
    BY <2>3, <2>4, <1>1
  <2> QED BY <2>3, <2>5 DEF u
<1> QED BY <1>3, <1>4, <1>5, <1>6 DEF PInv

LEMMA ArriveKeeps ==
  ASSUME PInv, NEW n \in 0..FrameSize, NEW m \in 0..MetaSize, NEW eof \in BOOLEAN,
         Arrive(m, n, eof)
  PROVE  PInv'
<1> DEFINE a == ProcessPayload(m, n, eof)
           S == seen \cup {shot}
<1>1. /\ shot \in 1..MaxShots /\ shot' = shot /\ sent' = sent + n /\ sent + n <= FrameSize
      /\ shot <= MaxShots /\ sent \in Nat /\ n \in Nat
  BY PayloadAssumption DEF PInv, TypeOK, Arrive, Send
<1>2. Sound(a, S) /\ Follows(a.data, Fid, sent + n, S)
  BY <1>1, ProcessSound
<1>3. /\ outbuf' = a.data /\ meta' = a.meta /\ spoiled' = a.err
      /\ seq' = a.seq /\ published' = a.hold
      /\ fid' = Fid /\ seen' = S /\ damaged' = damaged
  BY DEF Arrive, Becomes
<1> HIDE DEF a
<1>4. TypeOK'
  <2>1. a \in Assembly
    BY <1>2 DEF Sound
  <2>2. /\ outbuf' \in Seq(Unit) /\ meta' \in 0..MetaSize /\ spoiled' \in BOOLEAN
        /\ seq' \in Nat /\ published' \in [seq : Nat, data : Seq(Unit), err : BOOLEAN]
    BY <1>3, <2>1 DEF Assembly
  <2>3. Fid \in {0, 1}
    BY <1>1 DEF Fid
  <2> QED BY <1>1, <1>3, <2>2, <2>3, PayloadAssumption DEF PInv, TypeOK
<1>5. NoOverflow'
  BY <1>2, <1>3, <1>4 DEF Sound, Fits, NoOverflow, TypeOK
<1>6. seen' \subseteq 1..shot'
  BY <1>1, <1>3 DEF PInv
<1>7. Past(outbuf)' /\ Past(published.data)'
  BY <1>1, <1>2, <1>3 DEF Sound, Past
<1>8. MixedAcrossLostShotsOnly'
  BY <1>2, <1>3 DEF Sound, OneShotOf, MixedAcrossLostShotsOnly, OneShot
<1>9. Follows(outbuf, fid, sent, seen)'
  BY <1>1, <1>2, <1>3 DEF Follows
<1> QED BY <1>4, <1>5, <1>6, <1>7, <1>8, <1>9 DEF PInv

LEMMA PayloadStep == PInv /\ [Next]_vars => PInv'
<1> SUFFICES ASSUME PInv, [Next]_vars PROVE PInv'
  OBVIOUS
<1>1. CASE NextShot
  BY <1>1, NextShotKeeps
<1>2. ASSUME NEW n \in 0..FrameSize, NEW m \in 0..MetaSize, NEW eof \in BOOLEAN,
             Arrive(m, n, eof)
      PROVE  PInv'
  BY <1>2, ArriveKeeps
<1>3. ASSUME NEW n \in 0..FrameSize, Lose(n) \/ Bogus(n) PROVE PInv'
  BY <1>3, DamageKeeps
<1>4. CASE UNCHANGED vars
  <2>1. /\ shot' = shot /\ sent' = sent /\ fid' = fid /\ outbuf' = outbuf /\ meta' = meta
        /\ spoiled' = spoiled /\ seq' = seq /\ published' = published /\ seen' = seen
        /\ damaged' = damaged
    BY <1>4 DEF vars, camera, assembly
  <2> QED BY <2>1 DEF PInv, TypeOK, NoOverflow, Past, Follows, MixedAcrossLostShotsOnly, OneShot
<1> QED BY <1>1, <1>2, <1>3, <1>4 DEF Next

LEMMA PayloadInvariant == Spec => []PInv
BY PayloadInit, PayloadStep, PTL DEF Spec

(* Types: _uvc_process_payload keeps the state of a frame in progress well formed. *)
THEOREM PayloadTypes == Spec => []TypeOK
BY PayloadInvariant, PTL DEF PInv

(* Buffers: no payload, however long, makes _uvc_process_payload write beyond the
   image buffer or the buffer of the metadata. *)
THEOREM BuffersHold == Spec => []NoOverflow
BY PayloadInvariant, PTL DEF PInv

(* Frames: one bit of frame identifier keeps the data of two shots apart unless
   every payload of the shots between them with the other bit is lost. *)
THEOREM ShotsStayApart == Spec => []MixedAcrossLostShotsOnly
BY PayloadInvariant, PTL DEF PInv

-----------------------------------------------------------------------------
(* Damage stays where it is. *)

(* The first n units of shot k. *)
Prefix(k, n) == [i \in 1..n |-> [shot |-> k, pos |-> i]]

Apart(K) == K \cap damaged = {}

(* A shot is forgotten only with damage: one that is over was seen. *)
SeenInv ==
  /\ damaged \subseteq 1..shot
  /\ \A k \in 1..(shot - 1) : k \notin damaged => k \in seen
  /\ shot \in seen => fid = Fid

(* Once data of an undamaged shot has come, an empty buffer is a fresh one. *)
FreshInv == shot \notin damaged /\ sent > 0 => shot \in seen /\ (outbuf = <<>> => ~spoiled)

(* After an undamaged shot, an undamaged one begins with an empty buffer and is
   assembled unit by unit. *)
PrefixInv ==
  Apart({shot - 1, shot}) =>
    /\ shot \notin seen => sent = 0 /\ fid # Fid /\ (outbuf = <<>> => ~spoiled)
    /\ shot \in seen => ~spoiled /\ \/ outbuf = Prefix(shot, sent)
                                    \/ sent = FrameSize /\ outbuf = <<>>

(* What the next shot finds of two undamaged shots is the last one, whole, or nothing. *)
LeftInv ==
  shot \notin seen /\ Apart({shot - 2, shot - 1, shot}) =>
    outbuf = <<>> \/ (outbuf = Whole(shot - 1) /\ ~spoiled)

WInv == PInv /\ SeenInv /\ FreshInv /\ PrefixInv /\ LeftInv

LEMMA PrefixIs ==
  ASSUME TypeOK, shot <= MaxShots, NEW n \in 0..FrameSize, sent + n <= FrameSize
  PROVE  /\ Prefix(shot, sent) \o Data(n) = Prefix(shot, sent + n)
         /\ Len(Prefix(shot, sent)) = sent /\ Len(Prefix(shot, sent + n)) = sent + n
         /\ <<>> \o Data(n) = Data(n) /\ Len(Data(n)) = n /\ (n > 0 => Data(n) # <<>>)
         /\ sent = 0 => Data(n) = Prefix(shot, n)
<1>1. shot \in 1..MaxShots /\ sent \in Nat /\ n \in Nat /\ sent + n \in Nat
  BY PayloadAssumption DEF TypeOK
<1>2. Data(n) \in Seq(Unit) /\ Len(Data(n)) = n
  BY PayloadUnits
<1>3. Len(Prefix(shot, sent)) = sent /\ Len(Prefix(shot, sent + n)) = sent + n
  BY <1>1 DEF Prefix
<1>4. Prefix(shot, sent) \in Seq([shot : {shot}, pos : Nat])
  BY <1>1 DEF Prefix
<1>5. Prefix(shot, sent) \o Data(n) = Prefix(shot, sent + n)
  BY <1>1 DEF Prefix, Data
<1>6. <<>> \o Data(n) = Data(n)
  BY <1>2
<1>7. sent = 0 => Data(n) = Prefix(shot, n)
  BY <1>1 DEF Prefix, Data
<1>8. n > 0 => Data(n) # <<>>
  BY <1>2
<1> QED BY <1>2, <1>3, <1>5, <1>6, <1>7, <1>8

(* What _uvc_process_payload does, from beginning to end: the test of the frame
   identifier, the data, the end of the frame. *)
Flips == fid # Fid /\ outbuf # <<>>
Before == IF Flips THEN [data |-> <<>>, err |-> FALSE] ELSE [data |-> outbuf, err |-> spoiled]
After(n) ==
  IF Len(Before.data) + n < MaxSize THEN [data |-> Before.data \o Data(n), err |-> Before.err]
                                    ELSE [data |-> Before.data, err |-> TRUE]
Ends(n, eof) == n > 0 /\ (eof \/ Len(After(n).data) = MaxSize)

LEMMA ArriveIs ==
  ASSUME TypeOK, NEW n \in 0..FrameSize, NEW m \in 0..MetaSize, NEW eof \in BOOLEAN,
         Arrive(m, n, eof)
  PROVE  /\ Ends(n, eof) =>
              /\ outbuf' = <<>> /\ spoiled' = FALSE
              /\ published'.data = After(n).data /\ published'.err = After(n).err
         /\ ~Ends(n, eof) =>
              /\ outbuf' = After(n).data /\ spoiled' = After(n).err
              /\ ~Flips => published' = published
              /\ Flips => published'.data = outbuf /\ published'.err = spoiled
<1> DEFINE a1 == TestFid(InProgress)
           a2 == AddMeta(a1, m)
           a3 == AddData(a2, Data(n))
           a4 == EndFrame(a3, n, eof)
<1>1. outbuf' = a4.data /\ spoiled' = a4.err /\ published' = a4.hold
  BY DEF Arrive, Becomes, ProcessPayload
<1>2. Len(Data(n)) = n
  BY PayloadUnits, PayloadAssumption DEF Arrive, Send
<1>3. /\ a1.data = Before.data /\ a1.err = Before.err
      /\ ~Flips => a1.hold = published
      /\ Flips => a1.hold.data = outbuf /\ a1.hold.err = spoiled
      /\ a1 = [data |-> a1.data, meta |-> a1.meta, err |-> a1.err, seq |-> a1.seq, hold |-> a1.hold]
  BY DEF TestFid, InProgress, SwapBuffers, Before, Flips
<1> HIDE DEF a1
<1>4. /\ a2.data = a1.data /\ a2.err = a1.err /\ a2.hold = a1.hold
      /\ a2 = [data |-> a1.data, meta |-> a2.meta, err |-> a1.err, seq |-> a1.seq, hold |-> a1.hold]
  BY <1>3 DEF AddMeta
<1> HIDE DEF a2
<1>5. a3.data = After(n).data /\ a3.err = After(n).err /\ a3.hold = a1.hold
  BY <1>2, <1>3, <1>4 DEF AddData, After
<1> HIDE DEF a3
<1>6. Ends(n, eof) => /\ a4.data = <<>> /\ a4.err = FALSE
                      /\ a4.hold.data = a3.data /\ a4.hold.err = a3.err
  BY <1>5 DEF EndFrame, SwapBuffers, Ends
<1>7. ~Ends(n, eof) => a4 = a3
  BY <1>5 DEF EndFrame, Ends
<1> HIDE DEF a4
<1> QED BY <1>1, <1>3, <1>5, <1>6, <1>7

(* The shot of the last unit of some data. *)
LastShot(data) == data[Len(data)].shot

LEMMA WholeInit == Init => SeenInv /\ FreshInv /\ PrefixInv /\ LeftInv
BY PayloadAssumption DEF Init, SeenInv, FreshInv, PrefixInv, LeftInv, Fid

LEMMA WholeNextShot ==
  ASSUME WInv, NextShot
  PROVE  (SeenInv /\ FreshInv /\ PrefixInv /\ LeftInv)'
<1>1. /\ shot \in Nat /\ shot >= 1 /\ shot' = shot + 1 /\ sent' = 0 /\ sent = FrameSize /\ FrameSize > 0
      /\ fid' = fid /\ outbuf' = outbuf /\ spoiled' = spoiled /\ seen' = seen /\ damaged' = damaged
      /\ seen \subseteq 1..shot
  BY PayloadAssumption DEF WInv, PInv, TypeOK, NextShot, assembly
<1>2. shot + 1 \notin seen /\ shot + 1 \notin damaged /\ Fid' # Fid
  BY <1>1 DEF WInv, SeenInv, Fid
<1>3. shot \notin damaged => shot \in seen /\ fid = Fid /\ (outbuf = <<>> => ~spoiled)
  BY <1>1 DEF WInv, SeenInv, FreshInv
<1>4. SeenInv'
  <2>1. damaged' \subseteq 1..shot'
    BY <1>1 DEF WInv, SeenInv
  <2>2. \A k \in 1..(shot' - 1) : k \notin damaged' => k \in seen'
    <3> SUFFICES ASSUME NEW k \in 1..shot, k \notin damaged PROVE k \in seen
      BY <1>1
    <3> QED BY <1>1, <1>3 DEF WInv, SeenInv
  <2> QED BY <1>1, <1>2, <2>1, <2>2 DEF SeenInv
<1>5. FreshInv'
  BY <1>1 DEF FreshInv
<1>6. (shot + 1) - 1 = shot /\ (shot + 1) - 2 = shot - 1
  BY <1>1
<1>7. PrefixInv'
  BY <1>1, <1>2, <1>3, <1>6 DEF PrefixInv, Apart
<1>8. LeftInv'
  <2> SUFFICES ASSUME shot \notin damaged, shot - 1 \notin damaged
               PROVE  outbuf = <<>> \/ (outbuf = Whole(shot) /\ ~spoiled)
    BY <1>1, <1>6 DEF LeftInv, Apart, Whole
  <2>1. ~spoiled /\ (outbuf = Prefix(shot, sent) \/ (sent = FrameSize /\ outbuf = <<>>))
    BY <1>3 DEF WInv, PrefixInv, Apart
  <2> QED BY <1>1, <2>1 DEF Prefix, Whole
<1> QED BY <1>4, <1>5, <1>7, <1>8

(* A damaged payload makes the shot a damaged one, of which nothing is promised. *)
LEMMA WholeDamage ==
  ASSUME WInv, NEW n \in 0..FrameSize, Lose(n) \/ Bogus(n)
  PROVE  (SeenInv /\ FreshInv /\ PrefixInv /\ LeftInv)'
<1>1. /\ shot \in Nat /\ shot >= 1 /\ shot' = shot /\ fid' = fid /\ seen' = seen
      /\ damaged' = damaged \cup {shot}
  BY PayloadAssumption DEF WInv, PInv, TypeOK, Lose, Bogus, Send, assembly
<1>2. SeenInv'
  BY <1>1 DEF WInv, SeenInv, Fid
<1> QED BY <1>1, <1>2 DEF FreshInv, PrefixInv, LeftInv, Apart

(* A payload of an undamaged shot that follows an undamaged one. *)
LEMMA PrefixGrows ==
  ASSUME WInv, FrameSize < MaxSize,
         NEW n \in 0..FrameSize, NEW m \in 0..MetaSize, NEW eof \in BOOLEAN,
         Arrive(m, n, eof), Apart({shot - 1, shot})
  PROVE  /\ ~After(n).err
         /\ After(n).data = Prefix(shot, sent + n) \/ (n = 0 /\ sent = FrameSize /\ After(n).data = <<>>)
         /\ Ends(n, eof) => sent + n = FrameSize
<1>0. TypeOK /\ shot <= MaxShots /\ sent + n <= FrameSize /\ (eof => sent + n = FrameSize)
  BY DEF WInv, PInv, Arrive, Send
<1>1. n \in Nat /\ sent \in Nat /\ FrameSize \in Nat /\ MaxSize \in Nat
  BY <1>0, PayloadAssumption DEF TypeOK
<1>2. /\ Prefix(shot, sent) \o Data(n) = Prefix(shot, sent + n)
      /\ Len(Prefix(shot, sent)) = sent /\ Len(Prefix(shot, sent + n)) = sent + n
      /\ <<>> \o Data(n) = Data(n) /\ Len(Data(n)) = n
      /\ sent = 0 => Data(n) = Prefix(shot, n)
  BY <1>0, PrefixIs
<1>3. /\ ~Before.err
      /\ \/ Before.data = Prefix(shot, sent)
         \/ /\ Before.data = <<>>
            /\ sent = FrameSize \/ sent = 0
  <2>1. CASE shot \in seen
    BY <2>1 DEF WInv, SeenInv, PrefixInv, Before, Flips
  <2>2. CASE shot \notin seen
    BY <2>2 DEF WInv, PrefixInv, Before, Flips
  <2> QED BY <2>1, <2>2
<1>4. CASE Before.data = Prefix(shot, sent)
  <2>1. After(n) = [data |-> Prefix(shot, sent + n), err |-> Before.err]
    <3>1. Len(Before.data) = sent /\ Before.data \o Data(n) = Prefix(shot, sent + n)
      BY <1>2, <1>4
    <3>2. sent + n < MaxSize
      BY <1>0, <1>1
    <3> HIDE DEF Before
    <3> QED BY <3>1, <3>2 DEF After
  <2>2. Len(After(n).data) # MaxSize
    BY <1>0, <1>1, <1>2, <2>1
  <2> QED BY <1>0, <1>3, <2>1, <2>2 DEF Ends
<1>5. CASE Before.data = <<>> /\ sent = FrameSize
  <2>1. n = 0
    BY <1>0, <1>1, <1>5
  <2>2. Data(n) = <<>>
    BY <2>1 DEF Data
  <2>3. After(n) = [data |-> <<>>, err |-> Before.err]
    BY <1>1, <1>2, <1>5, <2>1, <2>2 DEF After
  <2> QED BY <1>1, <1>3, <1>5, <2>1, <2>3 DEF Ends
<1>6. CASE Before.data = <<>> /\ sent = 0
  <2>1. After(n) = [data |-> Prefix(shot, sent + n), err |-> Before.err]
    BY <1>0, <1>1, <1>2, <1>6 DEF After
  <2>2. Len(After(n).data) # MaxSize
    BY <1>0, <1>1, <1>2, <2>1
  <2> QED BY <1>0, <1>3, <2>1, <2>2 DEF Ends
<1> QED BY <1>3, <1>4, <1>5, <1>6

LEMMA WholeArrive ==
  ASSUME WInv, FrameSize < MaxSize,
         NEW n \in 0..FrameSize, NEW m \in 0..MetaSize, NEW eof \in BOOLEAN, Arrive(m, n, eof)
  PROVE  (SeenInv /\ FreshInv /\ PrefixInv /\ LeftInv)'
<1>0. TypeOK /\ shot <= MaxShots /\ sent + n <= FrameSize /\ (eof => sent + n = FrameSize)
  BY DEF WInv, PInv, Arrive, Send
<1>1. /\ n \in Nat /\ sent \in Nat /\ FrameSize \in Nat /\ MaxSize \in Nat
      /\ shot \in Nat /\ spoiled \in BOOLEAN
  BY <1>0, PayloadAssumption DEF TypeOK
<1>2. /\ shot' = shot /\ sent' = sent + n /\ fid' = Fid /\ seen' = seen \cup {shot}
      /\ damaged' = damaged
  BY DEF Arrive, Send
<1>3. /\ Ends(n, eof) => outbuf' = <<>> /\ spoiled' = FALSE
      /\ ~Ends(n, eof) => outbuf' = After(n).data /\ spoiled' = After(n).err
  BY <1>0, ArriveIs
<1>4. SeenInv'
  BY <1>2 DEF WInv, SeenInv, Fid
<1>5. FreshInv'
  <2> SUFFICES ASSUME shot \notin damaged, sent + n > 0, outbuf' = <<>>, spoiled'
               PROVE  FALSE
    BY <1>2 DEF FreshInv
  <2>1. ~Ends(n, eof) /\ After(n).data = <<>> /\ After(n).err
    BY <1>3
  <2>2. <<>> \o Data(n) = Data(n) /\ (n > 0 => Data(n) # <<>>) /\ Len(<<>>) = 0
    BY <1>0, PrefixIs
  <2>3. Before.data = <<>>
    <3> DEFINE b == Before.data
    <3>1. b \in Seq(Unit) /\ Data(n) \in Seq(Unit)
      BY <1>0, PayloadUnits DEF TypeOK, Before
    <3>2. b = <<>> \/ b \o Data(n) = <<>>
      BY <2>1 DEF After
    <3> HIDE DEF b
    <3>3. b = <<>>
      BY <3>1, <3>2
    <3> QED BY <3>3 DEF b
  <2>4. n < MaxSize
    BY <1>1
  <2>5. After(n) = [data |-> Data(n), err |-> Before.err]
    BY <1>1, <2>2, <2>3, <2>4 DEF After
  <2>6. n = 0 /\ Before.err
    BY <1>1, <2>1, <2>2, <2>5
  <2>7. shot \in seen /\ fid = Fid /\ (outbuf = <<>> => ~spoiled)
    BY <1>1, <2>6 DEF WInv, FreshInv, SeenInv
  <2> QED BY <2>3, <2>6, <2>7 DEF Before, Flips
<1>6. PrefixInv'
  <2> SUFFICES ASSUME Apart({shot - 1, shot})
               PROVE  ~spoiled' /\ \/ outbuf' = Prefix(shot, sent + n)
                                   \/ sent + n = FrameSize /\ outbuf' = <<>>
    BY <1>2 DEF PrefixInv, Apart
  <2>1. /\ ~After(n).err
        /\ After(n).data = Prefix(shot, sent + n) \/ (n = 0 /\ sent = FrameSize /\ After(n).data = <<>>)
        /\ Ends(n, eof) => sent + n = FrameSize
    BY PrefixGrows
  <2>2. n = 0 => sent + n = sent
    BY <1>1
  <2> QED BY <1>3, <2>1, <2>2
<1>7. LeftInv'
  BY <1>2 DEF LeftInv
<1> QED BY <1>4, <1>5, <1>6, <1>7

LEMMA WholeStep == FrameSize < MaxSize /\ WInv /\ [Next]_vars => WInv'
<1> SUFFICES ASSUME FrameSize < MaxSize, WInv, [Next]_vars PROVE WInv'
  OBVIOUS
<1>0. PInv'
  BY PayloadStep DEF WInv
<1>1. CASE NextShot
  BY <1>0, <1>1, WholeNextShot DEF WInv
<1>2. ASSUME NEW n \in 0..FrameSize, NEW m \in 0..MetaSize, NEW eof \in BOOLEAN,
             Arrive(m, n, eof)
      PROVE  WInv'
  BY <1>0, <1>2, WholeArrive DEF WInv
<1>3. ASSUME NEW n \in 0..FrameSize, Lose(n) \/ Bogus(n) PROVE WInv'
  BY <1>0, <1>3, WholeDamage DEF WInv
<1>4. CASE UNCHANGED vars
  <2>1. /\ shot' = shot /\ sent' = sent /\ fid' = fid /\ outbuf' = outbuf
        /\ spoiled' = spoiled /\ seen' = seen /\ damaged' = damaged
    BY <1>4 DEF vars, camera, assembly
  <2> QED BY <1>0, <2>1 DEF WInv, SeenInv, FreshInv, PrefixInv, LeftInv, Apart, Fid
<1> QED BY <1>1, <1>2, <1>3, <1>4 DEF Next

(* The data at hand are of the shot before, at the earliest, when that shot was
   not damaged. *)
LEMMA DataIsRecent ==
  ASSUME WInv, outbuf # <<>>, NEW k, k = LastShot(outbuf), k + 1 \notin damaged
  PROVE  k \in Nat /\ k <= shot /\ k % 2 = fid /\ (k = shot \/ k + 1 = shot)
<1>1. outbuf \in Seq(Unit) /\ Len(outbuf) \in 1..Len(outbuf) /\ shot \in Nat
  BY DEF WInv, PInv, TypeOK
<1>2. outbuf[Len(outbuf)] \in Unit
  BY <1>1, ElementOf
<1>3. k \in 1..MaxShots
  BY <1>2 DEF LastShot, Unit
<1>4. k \in Nat /\ k >= 1
  BY <1>3, PayloadAssumption
<1>5. k <= shot
  BY <1>1 DEF WInv, PInv, Past, LastShot
<1>6. k % 2 = fid /\ \A j \in k .. shot : j % 2 # fid => j \notin seen
  BY DEF WInv, PInv, Follows, LastShot
<1>7. ASSUME k + 1 < shot PROVE FALSE
  <2>1. k + 1 \in 1..(shot - 1) /\ k + 1 \in k .. shot /\ (k + 1) % 2 # k % 2
    BY <1>1, <1>4, <1>7
  <2>2. k + 1 \in seen
    BY <2>1 DEF WInv, SeenInv
  <2> QED BY <1>6, <2>1, <2>2
<1> QED BY <1>1, <1>4, <1>5, <1>6, <1>7

LEMMA PublishedWhole ==
  ASSUME WInv, FrameSize < MaxSize, [Next]_vars, published' # published, published'.data # <<>>,
         NEW k, k = LastShot(published'.data), {k - 1, k, k + 1} \cap damaged' = {}
  PROVE  published'.data = Whole(k) /\ ~published'.err
<1>1. PICK n \in 0..FrameSize, m \in 0..MetaSize, eof \in BOOLEAN : Arrive(m, n, eof)
  <2>1. ~NextShot /\ ~UNCHANGED vars /\ \A n \in 0..FrameSize : ~Lose(n) /\ ~Bogus(n)
    BY DEF NextShot, vars, Lose, Bogus, assembly
  <2> QED BY <2>1 DEF Next
<1>2. TypeOK /\ shot <= MaxShots /\ sent + n <= FrameSize /\ (eof => sent + n = FrameSize)
  BY <1>1 DEF WInv, PInv, Arrive, Send
<1>3. /\ n \in Nat /\ sent \in Nat /\ FrameSize \in Nat /\ MaxSize \in Nat
      /\ shot \in Nat /\ spoiled \in BOOLEAN /\ outbuf \in Seq(Unit)
  BY <1>2, PayloadAssumption DEF TypeOK
<1>4. k - 1 \notin damaged /\ k \notin damaged /\ k + 1 \notin damaged
  BY <1>1 DEF Arrive
<1>5. /\ Ends(n, eof) => published'.data = After(n).data /\ published'.err = After(n).err
      /\ ~Ends(n, eof) => Flips /\ published'.data = outbuf /\ published'.err = spoiled
  BY <1>1, <1>2, ArriveIs
<1>6. CASE Ends(n, eof) /\ k = shot
  <2>1. /\ ~After(n).err
        /\ After(n).data = Prefix(shot, sent + n) \/ (n = 0 /\ sent = FrameSize /\ After(n).data = <<>>)
        /\ Ends(n, eof) => sent + n = FrameSize
    BY <1>1, <1>4, <1>6, PrefixGrows DEF Apart
  <2> QED BY <1>5, <1>6, <2>1 DEF Prefix, Whole
<1>7. CASE Ends(n, eof) /\ k # shot
  <2>1. n > 0 /\ k = LastShot(After(n).data) /\ After(n).data # <<>>
    BY <1>5, <1>7 DEF Ends
  <2>2. /\ Data(n) \in Seq(Unit) /\ Len(Data(n)) = n
        /\ \A i \in 1..n : Data(n)[i].shot = shot
    BY <1>2, PayloadUnits
  <2>3. After(n).data = Before.data
    <3> SUFFICES ASSUME After(n).data = Before.data \o Data(n) PROVE FALSE
      BY DEF After
    <3> DEFINE b == Before.data
               d == Data(n)
    <3>1. b \in Seq(Unit)
      BY <1>3 DEF Before
    <3> HIDE DEF b, d
    <3>2. d \in Seq(Unit) /\ Len(d) = n /\ n \in 1..n /\ d[n].shot = shot
      BY <1>3, <2>1, <2>2 DEF d
    <3>3. (b \o d)[Len(b \o d)] = d[n]
      BY <1>3, <2>1, <3>1, <3>2
    <3>4. k = (b \o d)[Len(b \o d)].shot
      BY <2>1 DEF LastShot, b, d
    <3> QED BY <1>7, <3>2, <3>3, <3>4
  <2>4. outbuf # <<>> /\ fid = Fid /\ k = LastShot(outbuf)
    BY <2>1, <2>3 DEF Before, Flips
  <2>5. k \in Nat /\ k % 2 = fid /\ k + 1 = shot
    BY <1>4, <1>7, <2>4, DataIsRecent
  <2>6. k % 2 # (k + 1) % 2
    BY <2>5
  <2> QED BY <2>4, <2>5, <2>6 DEF Fid
<1>8. CASE ~Ends(n, eof)
  <2>1. outbuf # <<>> /\ fid # Fid /\ k = LastShot(outbuf)
    BY <1>5, <1>8 DEF Flips
  <2>2. k \in Nat /\ k % 2 = fid /\ (k = shot \/ k + 1 = shot)
    BY <1>4, <2>1, DataIsRecent
  <2>3. k + 1 = shot
    BY <2>1, <2>2 DEF Fid
  <2>4. k = shot - 1 /\ k - 1 = shot - 2
    BY <2>2, <2>3
  <2>5. shot \notin seen
    BY <2>1 DEF WInv, SeenInv
  <2>6. outbuf = Whole(k) /\ ~spoiled
    BY <1>4, <2>1, <2>3, <2>4, <2>5 DEF WInv, LeftInv, Apart
  <2> QED BY <1>5, <1>8, <2>6
<1> QED BY <1>6, <1>7, <1>8

(* Damage stays where it is, when a frame does not fill the buffer to the brim:
   _uvc_process_payload publishes every shot whole that was not damaged, and not its
   neighbours.  (The frames that fill the buffer are those of the run payload_exact.) *)
THEOREM DamageIsLocal ==
  ASSUME FrameSize < MaxSize
  PROVE  Spec => WholeFrames
<1> DEFINE Publishes ==
             published' # published /\ published'.data # <<>> =>
               LET k == published'.data[Len(published'.data)].shot
               IN {k - 1, k, k + 1} \cap damaged' = {} =>
                    published'.data = Whole(k) /\ ~published'.err
<1>1. Init => WInv
  BY PayloadInit, WholeInit DEF WInv
<1>2. WInv /\ [Next]_vars => WInv'
  BY WholeStep
<1>3. WInv /\ [Next]_vars => Publishes
  <2> SUFFICES ASSUME WInv, [Next]_vars, published' # published, published'.data # <<>>,
                      {LastShot(published'.data) - 1, LastShot(published'.data), LastShot(published'.data) + 1}
                        \cap damaged' = {}
               PROVE  published'.data = Whole(LastShot(published'.data)) /\ ~published'.err
    BY DEF LastShot
  <2> QED BY PublishedWhole
<1>4. WInv /\ [Next]_vars => [Publishes]_vars
  BY <1>3
<1> QED BY <1>1, <1>2, <1>4, PTL DEF Spec, WholeFrames
=============================================================================
