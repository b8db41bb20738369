--------------------------- MODULE NegotiateProofs ---------------------------
(***************************************************************************)
(* What holds of the negotiation of every camera, request and number of      *)
(* calls, from two invariants: NInv, about the control blocks, and SearchInv, *)
(* about the search.                                                        *)
(*                                                                         *)
(* The first half is about the descriptors.  The lists of blocks are parsed  *)
(* by recursive functions over their prefixes (ScanBlocks, ParseBlocks);     *)
(* what they compute is proved by induction over the length of the prefix,   *)
(* as a set of numbers that has 0 and the successor of its members: the      *)
(* frames that are parsed are those that are declared, each of the format    *)
(* it is behind.                                                            *)
(***************************************************************************)
EXTENDS Negotiate, WellFoundedInduction, TLAPS

(* The least element of a set of natural numbers. *)
LEMMA LeastNatural ==
  ASSUME NEW T \in SUBSET Nat, T # {}
  PROVE  \E n \in T : \A m \in T : n <= m
<1>1. \E n \in T : \A m \in T : ~ (<<m, n>> \in OpToRel(<, Nat))
  BY NatLessThanWellFounded, WFMin
<1>2. PICK n \in T : \A m \in T : ~ (<<m, n>> \in OpToRel(<, Nat))
  BY <1>1
<1>3. ASSUME NEW m \in T PROVE n <= m
  <2>1. ~ (m < n)
    BY <1>2 DEF OpToRel
  <2> QED BY <2>1
<1> QED BY <1>3

(* Induction up to a bound, over a set of numbers. *)
LEMMA SetInduction ==
  ASSUME NEW N \in Nat, NEW T, 0 \in T, \A n \in 0 .. N - 1 : n \in T => n + 1 \in T
  PROVE  \A n \in 0 .. N : n \in T
<1> DEFINE U == {n \in 0 .. N : n \notin T}
<1> SUFFICES ASSUME U # {} PROVE FALSE
  OBVIOUS
<1>1. PICK n \in U : \A m \in U : n <= m
  <2>1. U \in SUBSET Nat
    OBVIOUS
  <2> HIDE DEF U
  <2> QED BY <2>1, LeastNatural
<1>2. n \in 0 .. N /\ n \notin T /\ n # 0
  BY <1>1
<1>3. n - 1 \in 0 .. N - 1 /\ n - 1 \notin U
  BY <1>1, <1>2
<1>4. n - 1 \in T
  BY <1>2, <1>3
<1>5. (n - 1) + 1 = n
  BY <1>2
<1> QED BY <1>2, <1>3, <1>4, <1>5

(* The first of the places in a set. *)
LEMMA FirstOf ==
  ASSUME NEW S \in SUBSET (Nat \X Nat), S # {}
  PROVE  First(S) \in S
<1> DEFINE I == {k[1] : k \in S}
<1>1. PICK i \in I : \A j \in I : i <= j
  <2>1. I \in SUBSET Nat /\ I # {}
    OBVIOUS
  <2> HIDE DEF I
  <2> QED BY <2>1, LeastNatural
<1> DEFINE F == {k[2] : k \in {l \in S : l[1] = i}}
<1>2. PICK f \in F : \A g \in F : f <= g
  <2>1. F \in SUBSET Nat /\ F # {}
    BY <1>1
  <2> HIDE DEF F
  <2> QED BY <2>1, LeastNatural
<1>3. PICK k \in S : k[1] = i /\ k[2] = f
  BY <1>2
<1>4. ASSUME NEW l \in S PROVE ~Before(l, k)
  <2>1. l[1] \in Nat /\ l[2] \in Nat /\ k[1] \in Nat /\ k[2] \in Nat
    OBVIOUS
  <2>2. k[1] <= l[1]
    BY <1>1, <1>3
  <2>3. l[1] = k[1] => k[2] <= l[2]
    BY <1>2, <1>3
  <2> QED BY <2>1, <2>2, <2>3 DEF Before
<1> QED BY <1>3, <1>4 DEF First

-----------------------------------------------------------------------------
(* The blocks of an interface, parsed one after the other. *)

(* The blocks that are frames, and what a format made of the blocks can be. *)
FrameBlocks(blocks) == {b \in 1 .. Len(blocks) : blocks[b].type = "frame"}

ParsedFormat(blocks) ==
  [index : {blocks[b].index : b \in 1 .. Len(blocks)},
   mode : {blocks[b].mode : b \in 1 .. Len(blocks)},
   frames : Seq({Frame(blocks[b]) : b \in FrameBlocks(blocks)})]

(* A recursive function over the prefixes of a list exists. *)
LEMMA ScanDefined ==
  ASSUME NEW blocks, Len(blocks) \in Nat
  PROVE  ScanBlocks(blocks) =
           [n \in 0 .. Len(blocks) |->
              IF n = 0 THEN <<>> ELSE ParseVs(ScanBlocks(blocks)[n - 1], blocks[n])]
<1> DEFINE Scans(g, N) == g = [n \in 0 .. N |-> IF n = 0 THEN <<>> ELSE ParseVs(g[n - 1], blocks[n])]
           T == {N \in 0 .. Len(blocks) : \E g : Scans(g, N)}
<1>1. 0 \in T
  <2> DEFINE g == [n \in 0 .. 0 |-> <<>>]
  <2>1. Scans(g, 0)
    OBVIOUS
  <2> HIDE DEF g
  <2> QED BY <2>1
<1>2. ASSUME NEW N \in 0 .. Len(blocks) - 1, N \in T PROVE N + 1 \in T
  <2>1. PICK g : Scans(g, N)
    BY <1>2
  <2> DEFINE h == [n \in 0 .. N + 1 |-> IF n <= N THEN g[n] ELSE ParseVs(g[N], blocks[N + 1])]
  <2>2. ASSUME NEW n \in 0 .. N + 1
        PROVE  h[n] = IF n = 0 THEN <<>> ELSE ParseVs(h[n - 1], blocks[n])
    <3>1. CASE n = 0
      BY <2>1, <3>1
    <3>2. CASE n \in 1 .. N
      <4>1. n - 1 \in 0 .. N + 1 /\ n - 1 <= N /\ n # 0 /\ n \in 0 .. N
        BY <3>2
      <4>2. h[n - 1] = g[n - 1] /\ h[n] = g[n]
        BY <3>2, <4>1
      <4>3. g[n] = ParseVs(g[n - 1], blocks[n])
        BY <2>1, <4>1
      <4> QED BY <4>1, <4>2, <4>3
    <3>3. CASE n = N + 1
      <4>1. n - 1 = N /\ n # 0 /\ N \in 0 .. N + 1 /\ ~(n <= N)
        BY <3>3
      <4>2. h[n - 1] = g[N] /\ h[n] = ParseVs(g[N], blocks[n])
        BY <3>3, <4>1
      <4> QED BY <4>1, <4>2
    <3> QED BY <3>1, <3>2, <3>3
  <2>3. Scans(h, N + 1)
    <3>1. h = [n \in 0 .. N + 1 |-> h[n]]
      OBVIOUS
    <3> HIDE DEF h
    <3> QED BY <2>2, <3>1
  <2>4. N + 1 \in 0 .. Len(blocks)
    OBVIOUS
  <2> QED BY <2>3, <2>4
<1>3. Len(blocks) \in T
  <2> HIDE DEF T
  <2>1. \A N \in 0 .. Len(blocks) - 1 : N \in T => N + 1 \in T
    BY <1>2
  <2>2. \A N \in 0 .. Len(blocks) : N \in T
    BY <1>1, <2>1, SetInduction
  <2> QED BY <2>2
<1>4. \E g : Scans(g, Len(blocks))
  BY <1>3
<1> QED BY <1>4 DEF ScanBlocks

(* k is the last of the first n blocks that is a format. *)
LastFormat(blocks, k, n) ==
  /\ k \in 1 .. n /\ blocks[k].type = "format"
  /\ \A j \in k + 1 .. n : blocks[j].type # "format"

(* The frame is that of block b, and the format that of the last format before b. *)
Belongs(blocks, b, format, frame) ==
  /\ b \in FrameBlocks(blocks) /\ frame = Frame(blocks[b])
  /\ format.index = blocks[FormatOf(blocks, b)].index
  /\ format.mode = blocks[FormatOf(blocks, b)].mode

(* What is known of the formats made of the first n blocks. *)
ScanInv(blocks, formats, n) ==
  /\ formats \in Seq(ParsedFormat(blocks))
  /\ \A k \in 1 .. n : LastFormat(blocks, k, n) =>
       /\ formats # <<>>
       /\ formats[Len(formats)].index = blocks[k].index
       /\ formats[Len(formats)].mode = blocks[k].mode
  /\ \A f \in 1 .. Len(formats) : \A j \in 1 .. Len(formats[f].frames) :
       \E b \in FrameBlocks(blocks) : Belongs(blocks, b, formats[f], formats[f].frames[j])
  /\ \A b \in FrameBlocks(blocks) : b <= n =>
       \E f \in 1 .. Len(formats) : \E j \in 1 .. Len(formats[f].frames) :
         Belongs(blocks, b, formats[f], formats[f].frames[j])

(* Behind a format there is a last one. *)
LEMMA LastFormatExists ==
  ASSUME NEW blocks, NEW n \in Nat, NEW i \in 1 .. n, blocks[i].type = "format"
  PROVE  \E k \in 1 .. n : LastFormat(blocks, k, n)
<1> DEFINE T == {n - k : k \in {j \in 1 .. n : blocks[j].type = "format"}}
<1>1. PICK m \in T : \A d \in T : m <= d
  <2>1. T \in SUBSET Nat /\ T # {}
    OBVIOUS
  <2> HIDE DEF T
  <2> QED BY <2>1, LeastNatural
<1>2. n - m \in 1 .. n /\ blocks[n - m].type = "format"
  OBVIOUS
<1>3. ASSUME NEW j \in (n - m) + 1 .. n PROVE blocks[j].type # "format"
  <2> SUFFICES ASSUME blocks[j].type = "format" PROVE FALSE
    OBVIOUS
  <2>1. m \in Nat /\ j \in 1 .. n /\ n - j < m
    BY <1>2
  <2>2. n - j \in T
    BY <2>1
  <2>3. m <= n - j
    <3> HIDE DEF T
    <3> QED BY <1>1, <2>2
  <2> QED BY <2>1, <2>3
<1> QED BY <1>2, <1>3 DEF LastFormat

(* uvc_parse_vs puts a format behind the others, and a frame into the last of them. *)
LEMMA ScanStep ==
  ASSUME NEW blocks, Len(blocks) \in Nat,
         \A f \in FrameBlocks(blocks) : \E k \in 1 .. Len(blocks) : k < f /\ blocks[k].type = "format",
         NEW n \in 0 .. Len(blocks) - 1, NEW formats, ScanInv(blocks, formats, n)
  PROVE  ScanInv(blocks, ParseVs(formats, blocks[n + 1]), n + 1)
<1> DEFINE block == blocks[n + 1]
           next == ParseVs(formats, block)
<1>1. /\ formats \in Seq(ParsedFormat(blocks))
      /\ n + 1 \in 1 .. Len(blocks) /\ n \in Nat
  BY DEF ScanInv
<1>2. CASE block.type = "format"
  <2> DEFINE new == NewFormat(block)
  <2>1. next = Append(formats, new)
    BY <1>2 DEF ParseVs
  <2>2. /\ new \in ParsedFormat(blocks)
        /\ new.index = block.index /\ new.mode = block.mode /\ new.frames = <<>>
    BY <1>1 DEF ParsedFormat, NewFormat
  <2> HIDE DEF new
  <2>3. /\ next \in Seq(ParsedFormat(blocks)) /\ Len(next) = Len(formats) + 1 /\ Len(formats) \in Nat
        /\ next[Len(formats) + 1] = new /\ \A f \in 1 .. Len(formats) : next[f] = formats[f]
    BY <1>1, <2>1, <2>2
  <2> HIDE DEF next
  <2>4. ASSUME NEW k \in 1 .. n + 1, LastFormat(blocks, k, n + 1)
        PROVE  /\ next # <<>>
               /\ next[Len(next)].index = blocks[k].index
               /\ next[Len(next)].mode = blocks[k].mode
    <3>1. k = n + 1
      BY <1>1, <1>2, <2>4 DEF LastFormat
    <3> QED BY <2>2, <2>3, <3>1
  <2>5. ASSUME NEW f \in 1 .. Len(next), NEW j \in 1 .. Len(next[f].frames)
        PROVE  \E b \in FrameBlocks(blocks) : Belongs(blocks, b, next[f], next[f].frames[j])
    <3>1. f \in 1 .. Len(formats)
      BY <2>2, <2>3
    <3> QED BY <2>3, <3>1 DEF ScanInv
  <2>6. ASSUME NEW b \in FrameBlocks(blocks), b <= n + 1
        PROVE  \E f \in 1 .. Len(next) : \E j \in 1 .. Len(next[f].frames) :
                 Belongs(blocks, b, next[f], next[f].frames[j])
    <3>1. b <= n
      BY <1>1, <1>2, <2>6 DEF FrameBlocks
    <3>2. PICK f \in 1 .. Len(formats) : \E j \in 1 .. Len(formats[f].frames) :
            Belongs(blocks, b, formats[f], formats[f].frames[j])
      BY <3>1 DEF ScanInv
    <3>3. f \in 1 .. Len(next) /\ next[f] = formats[f]
      BY <2>3
    <3> QED BY <3>2, <3>3
  <2> QED BY <2>3, <2>4, <2>5, <2>6 DEF ScanInv, next
<1>3. CASE block.type = "frame"
  <2>1. n + 1 \in FrameBlocks(blocks)
    BY <1>1, <1>3 DEF FrameBlocks
  <2>2. PICK i \in 1 .. n : blocks[i].type = "format"
    BY <1>1, <2>1
  <2>3. PICK k \in 1 .. n : LastFormat(blocks, k, n)
    BY <1>1, <2>2, LastFormatExists
  <2>4. FormatOf(blocks, n + 1) = k
    <3> DEFINE IsLast(j) == /\ blocks[j].type = "format"
                          /\ \A l \in j + 1 .. (n + 1) - 1 : blocks[l].type # "format"
    <3>1. k \in 1 .. (n + 1) - 1 /\ IsLast(k)
      BY <1>1, <2>3 DEF LastFormat
    <3>2. ASSUME NEW j \in 1 .. (n + 1) - 1, IsLast(j) PROVE j = k
      <4>1. CASE j < k
        BY <1>1, <3>1, <3>2, <4>1
      <4>2. CASE k < j
        BY <1>1, <3>1, <3>2, <4>2
      <4> QED BY <4>1, <4>2
    <3> QED BY <3>1, <3>2 DEF FormatOf
  <2> DEFINE L == Len(formats)
             frame == Frame(block)
             old == formats[L]
             new == [old EXCEPT !.frames = Append(old.frames, frame)]
  <2>5. formats # <<>> /\ old.index = blocks[k].index /\ old.mode = blocks[k].mode
    BY <2>3 DEF ScanInv
  <2>6. L \in 1 .. L /\ L \in Nat /\ old \in ParsedFormat(blocks)
    BY <1>1, <2>5
  <2>7. next = [formats EXCEPT ![L] = new]
    BY <1>3 DEF ParseVs
  <2>8. frame \in {Frame(blocks[b]) : b \in FrameBlocks(blocks)}
    BY <2>1
  <2> HIDE DEF frame
  <2>9. /\ old.frames \in Seq({Frame(blocks[b]) : b \in FrameBlocks(blocks)})
        /\ Append(old.frames, frame) \in Seq({Frame(blocks[b]) : b \in FrameBlocks(blocks)})
        /\ Len(Append(old.frames, frame)) = Len(old.frames) + 1 /\ Len(old.frames) \in Nat
        /\ Append(old.frames, frame)[Len(old.frames) + 1] = frame
        /\ \A j \in 1 .. Len(old.frames) : Append(old.frames, frame)[j] = old.frames[j]
    <3>1. old.frames \in Seq({Frame(blocks[b]) : b \in FrameBlocks(blocks)})
      BY <2>6 DEF ParsedFormat
    <3> QED BY <2>8, <3>1
  <2>10. /\ new \in ParsedFormat(blocks)
         /\ new.index = old.index /\ new.mode = old.mode
         /\ new.frames = Append(old.frames, frame)
    BY <2>6, <2>9 DEF ParsedFormat
  <2> HIDE DEF new
  <2>11. /\ next \in Seq(ParsedFormat(blocks)) /\ Len(next) = L /\ next # <<>> /\ next[L] = new
         /\ \A f \in 1 .. L : f # L => next[f] = formats[f]
    BY <1>1, <2>5, <2>6, <2>7, <2>10
  <2> HIDE DEF next
  <2>12. ASSUME NEW m \in 1 .. n + 1, LastFormat(blocks, m, n + 1)
         PROVE  /\ next # <<>>
                /\ next[Len(next)].index = blocks[m].index
                /\ next[Len(next)].mode = blocks[m].mode
    <3>1. m # n + 1
      BY <1>3, <2>12 DEF LastFormat
    <3>2. m \in 1 .. n /\ LastFormat(blocks, m, n)
      BY <1>1, <2>12, <3>1 DEF LastFormat
    <3>3. old.index = blocks[m].index /\ old.mode = blocks[m].mode
      BY <3>2 DEF ScanInv
    <3> QED BY <2>10, <2>11, <3>3
  <2>13. ASSUME NEW f \in 1 .. Len(next), NEW j \in 1 .. Len(next[f].frames)
         PROVE  \E b \in FrameBlocks(blocks) : Belongs(blocks, b, next[f], next[f].frames[j])
    <3>1. CASE f # L
      <4>1. f \in 1 .. Len(formats) /\ next[f] = formats[f]
        BY <2>11, <3>1
      <4> QED BY <4>1 DEF ScanInv
    <3>2. CASE f = L /\ j \in 1 .. Len(old.frames)
      <4>1. next[f].frames[j] = old.frames[j] /\ next[f].index = old.index /\ next[f].mode = old.mode
        BY <2>9, <2>10, <2>11, <3>2
      <4>2. PICK b \in FrameBlocks(blocks) : Belongs(blocks, b, old, old.frames[j])
        BY <2>6, <3>2 DEF ScanInv
      <4> QED BY <4>1, <4>2 DEF Belongs
    <3>3. CASE f = L /\ j = Len(old.frames) + 1
      <4>1. next[f].frames[j] = frame /\ next[f].index = old.index /\ next[f].mode = old.mode
        BY <2>9, <2>10, <2>11, <3>3
      <4>2. Belongs(blocks, n + 1, next[f], next[f].frames[j])
        BY <2>1, <2>4, <2>5, <4>1 DEF Belongs, frame
      <4> QED BY <2>1, <4>2
    <3> QED BY <2>9, <2>10, <2>11, <3>1, <3>2, <3>3
  <2>14. ASSUME NEW b \in FrameBlocks(blocks), b <= n + 1
         PROVE  \E f \in 1 .. Len(next) : \E j \in 1 .. Len(next[f].frames) :
                  Belongs(blocks, b, next[f], next[f].frames[j])
    <3>1. CASE b <= n
      <4>1. PICK f \in 1 .. Len(formats) : \E j \in 1 .. Len(formats[f].frames) :
              Belongs(blocks, b, formats[f], formats[f].frames[j])
        BY <3>1 DEF ScanInv
      <4>2. PICK j \in 1 .. Len(formats[f].frames) :
              Belongs(blocks, b, formats[f], formats[f].frames[j])
        BY <4>1
      <4>3. f \in 1 .. Len(next)
        BY <2>11
      <4>4. CASE f # L
        <5>1. next[f] = formats[f]
          BY <2>11, <4>4
        <5> QED BY <4>2, <4>3, <5>1
      <4>5. CASE f = L
        <5>1. j \in 1 .. Len(old.frames) /\ Belongs(blocks, b, old, old.frames[j])
          BY <4>2, <4>5
        <5>2. next[f] = new
          BY <2>11, <4>5
        <5>3. j \in 1 .. Len(new.frames) /\ new.frames[j] = old.frames[j]
          <6> HIDE DEF old
          <6> QED BY <2>9, <2>10, <5>1
        <5>4. next[f].index = old.index /\ next[f].mode = old.mode
          BY <2>10, <5>2
        <5>5. Belongs(blocks, b, next[f], next[f].frames[j])
          BY <5>1, <5>2, <5>3, <5>4 DEF Belongs
        <5> QED BY <4>3, <5>2, <5>3, <5>5
      <4> QED BY <4>4, <4>5
    <3>2. CASE b = n + 1
      <4> DEFINE j == Len(old.frames) + 1
      <4>1. /\ next[L].frames[j] = frame /\ next[L].index = old.index /\ next[L].mode = old.mode
            /\ L \in 1 .. Len(next) /\ j \in 1 .. Len(next[L].frames)
        BY <2>6, <2>9, <2>10, <2>11
      <4>2. Belongs(blocks, n + 1, next[L], next[L].frames[j])
        BY <2>1, <2>4, <2>5, <4>1 DEF Belongs, frame
      <4> HIDE DEF j
      <4> QED BY <3>2, <4>1, <4>2
    <3>3. b \in Nat
      BY DEF FrameBlocks
    <3> QED BY <1>1, <2>14, <3>1, <3>2, <3>3
  <2> QED BY <2>11, <2>12, <2>13, <2>14 DEF ScanInv, next
<1>4. CASE block.type \notin {"format", "frame"}
  <2>1. next = formats
    BY <1>4 DEF ParseVs
  <2>2. ASSUME NEW k \in 1 .. n + 1, LastFormat(blocks, k, n + 1)
        PROVE  k \in 1 .. n /\ LastFormat(blocks, k, n)
    <3>1. k # n + 1
      BY <1>4, <2>2 DEF LastFormat
    <3> QED BY <1>1, <2>2, <3>1 DEF LastFormat
  <2>3. ASSUME NEW b \in FrameBlocks(blocks), b <= n + 1
        PROVE  b <= n
    BY <1>1, <1>4, <2>3 DEF FrameBlocks
  <2> QED BY <2>1, <2>2, <2>3 DEF ScanInv
<1> QED BY <1>2, <1>3, <1>4

(* A configuration as the specification of the class wants it: what is behind a frame. *)
LEMMA ConfigBlocks ==
  ASSUME NEW i \in DOMAIN Config
  PROVE  LET blocks == Config[i].blocks
         IN /\ Len(blocks) \in Nat /\ DOMAIN blocks = 1 .. Len(blocks)
            /\ \A f \in FrameBlocks(blocks) :
                 \E k \in 1 .. Len(blocks) : k < f /\ blocks[k].type = "format"
<1> DEFINE blocks == Config[i].blocks
<1>1. blocks \in Seq(ToSet(blocks))
  BY ConfigAssumption DEF IsList
<1>2. Len(blocks) \in Nat /\ DOMAIN blocks = 1 .. Len(blocks)
  BY <1>1
<1>3. ASSUME NEW f \in FrameBlocks(blocks)
      PROVE  \E k \in 1 .. Len(blocks) : k < f /\ blocks[k].type = "format"
  <2>1. f \in Blocks(i, "frame")
    BY <1>2 DEF FrameBlocks, Blocks
  <2>2. PICK k \in Blocks(i, "format") : k < f
    BY <2>1, ConfigAssumption
  <2> QED BY <1>2, <2>2 DEF Blocks
<1> QED BY <1>2, <1>3

(* uvc_scan_streaming, to the last block. *)
LEMMA ScanAll ==
  ASSUME NEW i \in DOMAIN Config
  PROVE  LET blocks == Config[i].blocks
         IN ScanInv(blocks, ScanBlocks(blocks)[Len(blocks)], Len(blocks))
<1> DEFINE blocks == Config[i].blocks
           N == Len(blocks)
           scan == ScanBlocks(blocks)
           T == {n \in 0 .. N : ScanInv(blocks, scan[n], n)}
<1>1. /\ N \in Nat
      /\ \A f \in FrameBlocks(blocks) : \E k \in 1 .. N : k < f /\ blocks[k].type = "format"
  BY ConfigBlocks
<1> HIDE DEF blocks
<1>2. scan = [n \in 0 .. N |-> IF n = 0 THEN <<>> ELSE ParseVs(scan[n - 1], blocks[n])]
  BY <1>1, ScanDefined
<1>3. 0 \in T
  <2>1. scan[0] = <<>>
    BY <1>1, <1>2
  <2>2. ScanInv(blocks, <<>>, 0)
    BY DEF ScanInv, FrameBlocks
  <2> QED BY <1>1, <2>1, <2>2
<1> HIDE DEF scan
<1>4. ASSUME NEW n \in 0 .. N - 1, n \in T PROVE n + 1 \in T
  <2>1. ScanInv(blocks, scan[n], n)
    BY <1>4
  <2>2. ScanInv(blocks, ParseVs(scan[n], blocks[n + 1]), n + 1)
    BY <1>1, <2>1, ScanStep
  <2>3. n + 1 \in 0 .. N /\ n + 1 # 0 /\ (n + 1) - 1 = n
    BY <1>1
  <2>4. scan[n + 1] = ParseVs(scan[n], blocks[n + 1])
    BY <1>2, <2>3
  <2> QED BY <2>2, <2>3, <2>4
<1>5. N \in T
  <2> HIDE DEF T, N
  <2>1. \A n \in 0 .. N - 1 : n \in T => n + 1 \in T
    BY <1>4
  <2>2. \A n \in 0 .. N : n \in T
    BY <1>1, <1>3, <2>1, SetInduction
  <2> QED BY <1>1, <2>2
<1>6. ScanInv(blocks, scan[N], N)
  BY <1>5
<1> QED BY <1>6 DEF scan, blocks

-----------------------------------------------------------------------------
(* The control interface. *)

(* The same for the blocks of the control interface. *)
LEMMA ParseDefined ==
  ASSUME NEW blocks, Len(blocks) \in Nat
  PROVE  ParseBlocks(blocks) =
           [n \in 0 .. Len(blocks) |->
              IF n = 0 THEN [ok |-> TRUE, stream_ifs |-> <<>>]
              ELSE ParseVc(ParseBlocks(blocks)[n - 1], blocks[n])]
<1> DEFINE Start == [ok |-> TRUE, stream_ifs |-> <<>>]
           Scans(g, N) == g = [n \in 0 .. N |-> IF n = 0 THEN Start ELSE ParseVc(g[n - 1], blocks[n])]
           T == {N \in 0 .. Len(blocks) : \E g : Scans(g, N)}
<1> HIDE DEF Start
<1>1. 0 \in T
  <2> DEFINE g == [n \in 0 .. 0 |-> Start]
  <2>1. Scans(g, 0)
    OBVIOUS
  <2> HIDE DEF g
  <2> QED BY <2>1
<1>2. ASSUME NEW N \in 0 .. Len(blocks) - 1, N \in T PROVE N + 1 \in T
  <2>1. PICK g : Scans(g, N)
    BY <1>2
  <2> DEFINE h == [n \in 0 .. N + 1 |-> IF n <= N THEN g[n] ELSE ParseVc(g[N], blocks[N + 1])]
  <2>2. ASSUME NEW n \in 0 .. N + 1
        PROVE  h[n] = IF n = 0 THEN Start ELSE ParseVc(h[n - 1], blocks[n])
    <3>1. CASE n = 0
      BY <2>1, <3>1
    <3>2. CASE n \in 1 .. N
      <4>1. n - 1 \in 0 .. N + 1 /\ n - 1 <= N /\ n # 0 /\ n \in 0 .. N
        BY <3>2
      <4>2. h[n - 1] = g[n - 1] /\ h[n] = g[n]
        BY <3>2, <4>1
      <4>3. g[n] = ParseVc(g[n - 1], blocks[n])
        BY <2>1, <4>1
      <4> QED BY <4>1, <4>2, <4>3
    <3>3. CASE n = N + 1
      <4>1. n - 1 = N /\ n # 0 /\ N \in 0 .. N + 1 /\ ~(n <= N)
        BY <3>3
      <4>2. h[n - 1] = g[N] /\ h[n] = ParseVc(g[N], blocks[n])
        BY <3>3, <4>1
      <4> QED BY <4>1, <4>2
    <3> QED BY <3>1, <3>2, <3>3
  <2>3. Scans(h, N + 1)
    <3>1. h = [n \in 0 .. N + 1 |-> h[n]]
      OBVIOUS
    <3> HIDE DEF h
    <3> QED BY <2>2, <3>1
  <2>4. N + 1 \in 0 .. Len(blocks)
    OBVIOUS
  <2> QED BY <2>3, <2>4
<1>3. Len(blocks) \in T
  <2> HIDE DEF T
  <2>1. \A N \in 0 .. Len(blocks) - 1 : N \in T => N + 1 \in T
    BY <1>2
  <2>2. \A N \in 0 .. Len(blocks) : N \in T
    BY <1>1, <2>1, SetInduction
  <2> QED BY <2>2
<1>4. \E g : Scans(g, Len(blocks))
  BY <1>3
<1> QED BY <1>4 DEF ParseBlocks, Start

(* What a scan of an interface of the camera gives. *)
Scanned == {ScanStreaming(p) : p \in Streaming}

(* Every interface the program knows was scanned. *)
LEMMA InterfacesScanned == Interfaces \in Seq(Scanned)
<1> DEFINE control == {k \in DOMAIN Config : Config[k].class = "control"}
<1>1. CASE control = {}
  <2>1. Interfaces = <<>>
    BY <1>1 DEF Interfaces, ScanControl
  <2> QED BY <2>1
<1>2. CASE control # {}
  <2> DEFINE c == CHOOSE k \in control : \A j \in control : k <= j
             blocks == Config[c].blocks
             N == Len(blocks)
             parse == ParseBlocks(blocks)
             Info == [ok : BOOLEAN, stream_ifs : Seq(Scanned)]
             T == {n \in 0 .. N : parse[n] \in Info}
  <2>1. c \in control
    <3>1. control \in SUBSET Nat
      BY ConfigAssumption DEF IsList
    <3>2. \E k \in control : \A j \in control : k <= j
      <4> HIDE DEF control
      <4> QED BY <1>2, <3>1, LeastNatural
    <3> QED BY <3>2
  <2> HIDE DEF c
  <2>2. c \in DOMAIN Config
    BY <2>1
  <2>3. N \in Nat /\ DOMAIN blocks = 1 .. N
    BY <2>2, ConfigBlocks
  <2>4. \A n \in 1 .. N : blocks[n].type = "header" => blocks[n].streaming \in Seq(Streaming)
    BY <2>2, <2>3, ConfigAssumption DEF Blocks
  <2>5. Interfaces = parse[N].stream_ifs
    BY <1>2 DEF Interfaces, ScanControl, c
  <2> HIDE DEF blocks, control
  <2>6. parse = [n \in 0 .. N |-> IF n = 0 THEN [ok |-> TRUE, stream_ifs |-> <<>>]
                                  ELSE ParseVc(parse[n - 1], blocks[n])]
    BY <2>3, ParseDefined
  <2> HIDE DEF parse
  <2>7. 0 \in T
    <3>1. parse[0] = [ok |-> TRUE, stream_ifs |-> <<>>] /\ 0 \in 0 .. N
      BY <2>3, <2>6
    <3>2. <<>> \in Seq(Scanned)
      OBVIOUS
    <3>3. [ok |-> TRUE, stream_ifs |-> <<>>] \in Info
      BY <3>2
    <3> QED BY <3>1, <3>3
  <2>8. ASSUME NEW n \in 0 .. N - 1, n \in T PROVE n + 1 \in T
    <3> DEFINE info == parse[n]
               block == blocks[n + 1]
    <3>1. n + 1 \in 0 .. N /\ n + 1 \in 1 .. N /\ n + 1 # 0 /\ (n + 1) - 1 = n /\ info \in Info
      BY <2>3, <2>8
    <3>2. parse[n + 1] = ParseVc(info, block)
      BY <2>6, <3>1
    <3>3. block.type = "header" => block.streaming \in Seq(Streaming)
      BY <2>4, <3>1
    <3> HIDE DEF info, block
    <3>4. ASSUME block.type = "header"
          PROVE  ParseHeader(info, block) \in Info
      <4> DEFINE new == [i \in DOMAIN block.streaming |-> ScanStreaming(block.streaming[i])]
      <4>1. new \in Seq(Scanned)
        <5>1. \A p \in Streaming : ScanStreaming(p) \in Scanned
          BY DEF Scanned
        <5> HIDE DEF Scanned
        <5> QED BY <3>3, <3>4, <5>1
      <4> HIDE DEF new
      <4>2. info.stream_ifs \o new \in Seq(Scanned)
        BY <3>1, <4>1
      <4>3. /\ [info EXCEPT !.ok = FALSE] \in Info
            /\ [info EXCEPT !.stream_ifs = @ \o new] \in Info
        BY <3>1, <4>2
      <4> QED BY <4>3 DEF ParseHeader, new
    <3>5. ParseVc(info, block) \in Info
      <4>1. [info EXCEPT !.ok = FALSE] \in Info
        BY <3>1
      <4> QED BY <3>1, <3>4, <4>1 DEF ParseVc
    <3> QED BY <3>1, <3>2, <3>5
  <2>9. N \in T
    <3> HIDE DEF T, N
    <3>1. \A n \in 0 .. N - 1 : n \in T => n + 1 \in T
      BY <2>8
    <3>2. \A n \in 0 .. N : n \in T
      BY <2>3, <2>7, <3>1, SetInduction
    <3> QED BY <2>3, <3>2
  <2> QED BY <2>5, <2>9
<1> QED BY <1>1, <1>2

-----------------------------------------------------------------------------
(* What is parsed is what is declared. *)

(* What block f of interface i declares. *)
DeclaredAt(i, f) ==
  LET blocks == Config[i].blocks
  IN [interface |-> Config[i].number, format |-> blocks[FormatOf(blocks, f)].index,
      mode |-> blocks[FormatOf(blocks, f)].mode, frame |-> Frame(blocks[f])]

StreamingInterfaces == {i \in DOMAIN Config : Config[i].class = "streaming"}

(* The declared frames, one by one. *)
LEMMA DeclaredAre ==
  ASSUME NEW d
  PROVE  d \in Declared <=>
           \E i \in StreamingInterfaces : \E f \in FrameBlocks(Config[i].blocks) : d = DeclaredAt(i, f)
<1>1. \A i \in StreamingInterfaces : DOMAIN Config[i].blocks = 1 .. Len(Config[i].blocks)
  BY ConfigBlocks DEF StreamingInterfaces
<1> DEFINE Here(i) ==
             LET blocks == Config[i].blocks
             IN {[interface |-> Config[i].number, format |-> blocks[FormatOf(blocks, f)].index,
                  mode |-> blocks[FormatOf(blocks, f)].mode, frame |-> Frame(blocks[f])] :
                   f \in {b \in DOMAIN blocks : blocks[b].type = "frame"}}
<1>2. Declared = UNION {Here(i) : i \in StreamingInterfaces}
  BY DEF Declared, StreamingInterfaces
<1>3. ASSUME NEW i \in StreamingInterfaces
      PROVE  d \in Here(i) <=> \E f \in FrameBlocks(Config[i].blocks) : d = DeclaredAt(i, f)
  BY <1>1 DEF DeclaredAt, FrameBlocks
<1> HIDE DEF Here
<1> QED BY <1>2, <1>3

(* The format of a frame is a block before it. *)
LEMMA FormatOfFrame ==
  ASSUME NEW i \in DOMAIN Config, NEW f \in FrameBlocks(Config[i].blocks)
  PROVE  FormatOf(Config[i].blocks, f) \in Blocks(i, "format")
<1> DEFINE blocks == Config[i].blocks
<1>1. /\ Len(blocks) \in Nat /\ DOMAIN blocks = 1 .. Len(blocks) /\ f \in 1 .. Len(blocks)
      /\ \E k \in 1 .. Len(blocks) : k < f /\ blocks[k].type = "format"
  BY ConfigBlocks DEF FrameBlocks
<1>2. PICK k \in 1 .. f - 1 : LastFormat(blocks, k, f - 1)
  <2>1. f - 1 \in Nat /\ \E j \in 1 .. f - 1 : blocks[j].type = "format"
    BY <1>1
  <2> HIDE DEF blocks
  <2> QED BY <2>1, LastFormatExists
<1>3. FormatOf(blocks, f) \in 1 .. f - 1 /\ blocks[FormatOf(blocks, f)].type = "format"
  BY <1>2 DEF LastFormat, FormatOf
<1> QED BY <1>1, <1>3 DEF Blocks

(* No two frames of an interface have the same pair of indices. *)
LEMMA DeclaredOnce ==
  ASSUME NEW d \in Declared, NEW e \in Declared,
         d.interface = e.interface, d.format = e.format, d.frame.index = e.frame.index
  PROVE  d = e
<1>1. PICK i \in StreamingInterfaces : \E f \in FrameBlocks(Config[i].blocks) : d = DeclaredAt(i, f)
  BY DeclaredAre
<1>2. PICK j \in StreamingInterfaces : \E g \in FrameBlocks(Config[j].blocks) : e = DeclaredAt(j, g)
  BY DeclaredAre
<1>3. i = j
  <2>1. i \in Nat /\ j \in Nat /\ Config[i].number = i - 1 /\ Config[j].number = j - 1
    BY ConfigAssumption DEF IsList, StreamingInterfaces
  <2>2. Config[i].number = Config[j].number
    BY <1>1, <1>2 DEF DeclaredAt
  <2> QED BY <2>1, <2>2
<1> DEFINE blocks == Config[i].blocks
<1>10. PICK f \in FrameBlocks(blocks) : d = DeclaredAt(i, f)
  BY <1>1
<1>11. PICK g \in FrameBlocks(blocks) : e = DeclaredAt(i, g)
  BY <1>2, <1>3
<1>4. /\ FormatOf(blocks, f) \in Blocks(i, "format") /\ FormatOf(blocks, g) \in Blocks(i, "format")
      /\ blocks[FormatOf(blocks, f)].index = blocks[FormatOf(blocks, g)].index
  BY <1>10, <1>11, FormatOfFrame DEF DeclaredAt, StreamingInterfaces
<1>5. FormatOf(blocks, f) = FormatOf(blocks, g)
  BY <1>4, ConfigAssumption DEF StreamingInterfaces
<1>6. \A b : Frame(blocks[b]).index = blocks[b].index
  BY DEF Frame
<1>7. blocks[f].index = blocks[g].index
  BY <1>10, <1>11, <1>6 DEF DeclaredAt
<1>8. f \in Blocks(i, "frame") /\ g \in Blocks(i, "frame")
  BY ConfigBlocks DEF Blocks, FrameBlocks, StreamingInterfaces
<1>9. f = g
  BY <1>5, <1>7, <1>8, ConfigAssumption DEF StreamingInterfaces
<1> QED BY <1>10, <1>11, <1>9

(* What the program knows of a frame of the format at k. *)
Entry(k, frame) ==
  [interface |-> Number(k), format |-> Format(k).index, mode |-> Format(k).mode, frame |-> frame]

(* A place of a format is one of an interface that was scanned. *)
LEMMA PlaceIsScanned ==
  ASSUME NEW k \in Places
  PROVE  /\ k \in Nat \X Nat /\ Number(k) \in Numbers
         /\ \E i \in StreamingInterfaces :
              /\ Number(k) = Config[i].number
              /\ Format(k) \in ParsedFormat(Config[i].blocks)
              /\ \A j \in 1 .. Len(Format(k).frames) : \E b \in FrameBlocks(Config[i].blocks) :
                   Belongs(Config[i].blocks, b, Format(k), Format(k).frames[j])
<1>1. PICK n \in DOMAIN Interfaces : k \in {<<n, f>> : f \in DOMAIN Interfaces[n].formats}
  BY DEF Places
<1>2. PICK f \in DOMAIN Interfaces[n].formats : k = <<n, f>>
  BY <1>1
<1>3. n \in Nat /\ Interfaces[n] \in Scanned
  BY InterfacesScanned
<1>4. PICK p \in Streaming : Interfaces[n] = ScanStreaming(p)
  BY <1>3 DEF Scanned
<1>5. PICK i \in StreamingInterfaces : p = i - 1
  BY <1>4 DEF Streaming, StreamingInterfaces
<1>6. i \in DOMAIN Config /\ p + 1 = i
  <2>1. i \in DOMAIN Config /\ i \in Nat
    BY ConfigAssumption DEF IsList, StreamingInterfaces
  <2> QED BY <1>5, <2>1
<1> DEFINE blocks == Config[i].blocks
           formats == ScanBlocks(blocks)[Len(blocks)]
<1>7. Interfaces[n] = [number |-> Config[i].number, formats |-> formats]
  BY <1>4, <1>6 DEF ScanStreaming
<1>8. ScanInv(blocks, formats, Len(blocks))
  BY <1>6, ScanAll
<1> HIDE DEF blocks, formats
<1>9. Number(k) = Config[i].number /\ Format(k) = formats[f] /\ f \in DOMAIN formats
  BY <1>2, <1>7 DEF Number, Format
<1>10. /\ f \in Nat /\ f \in 1 .. Len(formats) /\ Format(k) \in ParsedFormat(blocks)
  BY <1>8, <1>9 DEF ScanInv
<1>11. \A j \in 1 .. Len(Format(k).frames) : \E b \in FrameBlocks(blocks) :
         Belongs(blocks, b, Format(k), Format(k).frames[j])
  BY <1>8, <1>9, <1>10 DEF ScanInv
<1>12. k \in Nat \X Nat
  BY <1>2, <1>3, <1>10
<1>13. Number(k) \in Numbers
  BY <1>2 DEF Number, Numbers
<1> QED BY <1>9, <1>10, <1>11, <1>12, <1>13 DEF blocks

(* No frame is known that is not declared. *)
LEMMA ParsedIsDeclared ==
  ASSUME NEW k \in Places
  PROVE  /\ DOMAIN Format(k).frames \in SUBSET Nat
         /\ \A j \in DOMAIN Format(k).frames : Entry(k, Format(k).frames[j]) \in Declared
<1>1. PICK i \in StreamingInterfaces :
         /\ Number(k) = Config[i].number
         /\ Format(k) \in ParsedFormat(Config[i].blocks)
         /\ \A j \in 1 .. Len(Format(k).frames) : \E b \in FrameBlocks(Config[i].blocks) :
              Belongs(Config[i].blocks, b, Format(k), Format(k).frames[j])
  BY PlaceIsScanned
<1> DEFINE blocks == Config[i].blocks
           frames == Format(k).frames
<1>2. frames \in Seq({Frame(blocks[b]) : b \in FrameBlocks(blocks)})
  BY <1>1 DEF ParsedFormat
<1>3. DOMAIN frames = 1 .. Len(frames) /\ Len(frames) \in Nat
  BY <1>2
<1>4. ASSUME NEW j \in DOMAIN frames PROVE Entry(k, frames[j]) \in Declared
  <2>1. PICK b \in FrameBlocks(blocks) : Belongs(blocks, b, Format(k), frames[j])
    BY <1>1, <1>3
  <2>2. Entry(k, frames[j]) = DeclaredAt(i, b)
    BY <1>1, <2>1 DEF Entry, DeclaredAt, Belongs
  <2> QED BY <2>1, <2>2, DeclaredAre
<1> QED BY <1>3, <1>4

(* A name is that of a declared frame. *)
LEMMA NamesAre ==
  ASSUME NEW n
  PROVE  n \in Names <=>
           \E k \in Places : \E f \in ToSet(Format(k).frames) :
             n = [interface |-> Number(k), format |-> Format(k).index, mode |-> Format(k).mode,
                  frame |-> f, at |-> k]
<1> DEFINE Here(k) == {[interface |-> Number(k), format |-> Format(k).index, mode |-> Format(k).mode,
                        frame |-> f, at |-> k] : f \in ToSet(Format(k).frames)}
<1>1. Names = UNION {Here(k) : k \in Places}
  BY DEF Names
<1>2. \A k : n \in Here(k) <=> \E f \in ToSet(Format(k).frames) :
        n = [interface |-> Number(k), format |-> Format(k).index, mode |-> Format(k).mode,
             frame |-> f, at |-> k]
  OBVIOUS
<1> HIDE DEF Here
<1> QED BY <1>1, <1>2

(* The descriptor of a frame without its place. *)
Declaration(n) ==
  [interface |-> n.interface, format |-> n.format, mode |-> n.mode, frame |-> n.frame]

(* A name is a place and a declared frame. *)
LEMMA NameIsDeclared ==
  ASSUME NEW n \in Names
  PROVE  n.at \in Places /\ Declaration(n) \in Declared
<1>1. PICK k \in Places : \E f \in ToSet(Format(k).frames) :
             n = [interface |-> Number(k), format |-> Format(k).index, mode |-> Format(k).mode,
                  frame |-> f, at |-> k]
  BY NamesAre
<1>2. PICK f \in ToSet(Format(k).frames) :
             n = [interface |-> Number(k), format |-> Format(k).index, mode |-> Format(k).mode,
                  frame |-> f, at |-> k]
  BY <1>1
<1>3. PICK j \in DOMAIN Format(k).frames : f = Format(k).frames[j]
  BY <1>2 DEF ToSet
<1>4. Declaration(n) = Entry(k, Format(k).frames[j])
  BY <1>2, <1>3 DEF Declaration, Entry
<1> QED BY <1>2, <1>4, ParsedIsDeclared

(* The interfaces that were scanned lose no frame. *)
LEMMA DeclaredIsNamed ==
  ASSUME NEW d \in Declared, d.interface \in Numbers
  PROVE  \E n \in Names : Declaration(n) = d
<1>1. PICK q \in DOMAIN Interfaces : d.interface = Interfaces[q].number
  BY DEF Numbers
<1>2. Interfaces[q] \in Scanned
  BY InterfacesScanned
<1>3. PICK p \in Streaming : Interfaces[q] = ScanStreaming(p)
  BY <1>2 DEF Scanned
<1>4. PICK i \in StreamingInterfaces : p = i - 1
  BY <1>3 DEF Streaming, StreamingInterfaces
<1>5. i \in DOMAIN Config /\ i \in Nat /\ p + 1 = i /\ Config[i].number = i - 1
  <2>1. i \in DOMAIN Config /\ i \in Nat /\ Config[i].number = i - 1
    BY ConfigAssumption DEF IsList, StreamingInterfaces
  <2> QED BY <1>4, <2>1
<1> DEFINE blocks == Config[i].blocks
           formats == ScanBlocks(blocks)[Len(blocks)]
<1>6. Interfaces[q] = [number |-> Config[i].number, formats |-> formats]
  BY <1>3, <1>5 DEF ScanStreaming
<1>7. PICK k \in StreamingInterfaces : \E b \in FrameBlocks(Config[k].blocks) : d = DeclaredAt(k, b)
  BY DeclaredAre
<1>8. k = i
  <2>1. k \in Nat /\ Config[k].number = k - 1
    BY ConfigAssumption DEF IsList, StreamingInterfaces
  <2>2. d.interface = Config[k].number
    BY <1>7 DEF DeclaredAt
  <2> QED BY <1>1, <1>5, <1>6, <2>1, <2>2
<1>9. PICK b \in FrameBlocks(blocks) : d = DeclaredAt(i, b)
  BY <1>7, <1>8
<1>10. ScanInv(blocks, formats, Len(blocks)) /\ b <= Len(blocks)
  BY <1>5, ScanAll DEF FrameBlocks
<1>11. d = [interface |-> Config[i].number, format |-> blocks[FormatOf(blocks, b)].index,
            mode |-> blocks[FormatOf(blocks, b)].mode, frame |-> Frame(blocks[b])]
  BY <1>9 DEF DeclaredAt
<1> HIDE DEF blocks, formats
<1>12. PICK f \in 1 .. Len(formats) : \E j \in 1 .. Len(formats[f].frames) :
         Belongs(blocks, b, formats[f], formats[f].frames[j])
  BY <1>10 DEF ScanInv
<1>13. PICK j \in 1 .. Len(formats[f].frames) : Belongs(blocks, b, formats[f], formats[f].frames[j])
  BY <1>12
<1> DEFINE k0 == <<q, f>>
           n == [interface |-> Number(k0), format |-> Format(k0).index, mode |-> Format(k0).mode,
                 frame |-> formats[f].frames[j], at |-> k0]
<1>14. f \in DOMAIN formats /\ formats[f] \in ParsedFormat(blocks)
  BY <1>10 DEF ScanInv
<1>15. j \in DOMAIN formats[f].frames
  BY <1>14 DEF ParsedFormat
<1>16. Number(k0) = Config[i].number /\ Format(k0) = formats[f]
  BY <1>6 DEF Number, Format
<1>17. k0 \in Places
  BY <1>6, <1>14 DEF Places
<1>18. n \in Names
  <2>1. formats[f].frames[j] \in ToSet(Format(k0).frames)
    BY <1>15, <1>16 DEF ToSet
  <2> QED BY <1>17, <2>1, NamesAre
<1>19. Declaration(n) = d
  BY <1>11, <1>13, <1>16 DEF Declaration, Belongs
<1> QED BY <1>18, <1>19

(* uvc_scan_control, uvc_scan_streaming and uvc_parse_vs know of the interfaces they
   scan the frames the camera declares, each with its format, and no others. *)
THEOREM ParsedExactly ==
  {Declaration(n) : n \in Names} = {d \in Declared : d.interface \in Numbers}
<1>1. ASSUME NEW n \in Names
      PROVE  Declaration(n) \in Declared /\ Declaration(n).interface \in Numbers
  <2>1. PICK k \in Places : \E f \in ToSet(Format(k).frames) :
             n = [interface |-> Number(k), format |-> Format(k).index, mode |-> Format(k).mode,
                  frame |-> f, at |-> k]
    BY NamesAre
  <2>2. Declaration(n).interface = Number(k)
    BY <2>1 DEF Declaration
  <2> QED BY <2>2, NameIsDeclared, PlaceIsScanned
<1> QED BY <1>1, DeclaredIsNamed

(* What uvc_find_frame_desc finds has the indices asked for. *)
LEMMA FrameDescIsNamed ==
  ASSUME NEW c, Named(c) # {}
  PROVE  FrameDesc(c) \in Named(c)
<1> DEFINE ats == {m.at : m \in Named(c)}
<1>1. ats \in SUBSET (Nat \X Nat)
  BY NameIsDeclared, PlaceIsScanned DEF Named
<1>2. ats # {}
  OBVIOUS
<1> HIDE DEF ats
<1>3. First(ats) \in ats
  BY <1>1, <1>2, FirstOf
<1>4. \E n \in Named(c) : n.at = First(ats)
  BY <1>3 DEF ats
<1> QED BY <1>4 DEF FrameDesc, ats

-----------------------------------------------------------------------------
(* The negotiation. *)

(* A control block is a record of five fields, whatever is in them. *)
IsControl(c) ==
  c = [field \in {"interface", "format", "frame", "interval", "payload"} |-> c[field]]

(* A control block that names a frame the program knows and the camera declares, of the
   size and the mode of a request. *)
Answers(c, r) ==
  /\ c.interface \in Numbers /\ Named(c) # {}
  /\ \E d \in Declared :
       /\ d.interface = c.interface /\ d.format = c.format /\ d.frame.index = c.frame
       /\ d.frame.size = r.size /\ d.mode = r.mode

(* The control block of a thread and the probe controls are control blocks; the probe
   control of an interface names that interface. *)
TypeInv ==
  /\ DOMAIN at = Threads /\ DOMAIN asked = Threads /\ DOMAIN left = Threads
  /\ DOMAIN ctrl = Threads /\ DOMAIN required = Threads /\ DOMAIN probe = Numbers
  /\ \A t \in Threads : left[t] \subseteq Places
  /\ \A t \in Threads : IsControl(ctrl[t])
  /\ \A n \in Numbers : IsControl(probe[n]) /\ probe[n].interface = n
  /\ losses \in Nat

(* From the search to the commit a thread has a control block that answers its request;
   the transfers keep it so or end the negotiation. *)
AnswerInv ==
  /\ \A t \in Threads :
       at[t] \in {"set", "get", "configure", "open"} => Answers(ctrl[t], asked[t])
  /\ \A t \in Threads : at[t] = "get" => required[t] = ctrl[t]
  /\ at["preview"] = "streaming" => Answers(committed, asked["preview"])

(* The size of the frame is looked up by its two indices. *)
GeometryInv ==
  /\ at["preview"] = "open" /\ ~Ambiguous(ctrl["preview"]) => geometry = asked["preview"].size
  /\ at["preview"] = "streaming" /\ ~Ambiguous(committed) => geometry = asked["preview"].size

(* Alone and without a loss the preview thread has in its control block what the
   camera has in its probe control. *)
OfferInv ==
  ~raced /\ at["preview"] \in Window =>
    /\ at["app"] \notin Window
    /\ losses = 0 /\ at["preview"] \in {"configure", "open"} =>
         ctrl["preview"] = probe[ctrl["preview"].interface]

(* A frame found for a request answers it. *)
LEMMA FoundAnswers ==
  ASSUME NEW k \in Places, NEW r, Matches(k, r), NEW f \in Found(k, r), NEW c,
         c.interface = Number(k), c.format = Format(k).index, c.frame = f.frame
  PROVE  Answers(c, r)
<1> DEFINE frames == Format(k).frames
           good == {i \in DOMAIN frames : frames[i].size = r.size /\ Intervals(frames[i], r) # {}}
           j == CHOOSE i \in good : \A l \in good : i <= l
<1>1. good # {} /\ f \in {[frame |-> frames[j].index, interval |-> i] : i \in Intervals(frames[j], r)}
  <2>1. good # {}
    BY DEF Found
  <2> HIDE DEF good
  <2>2. Found(k, r) = {[frame |-> frames[j].index, interval |-> i] : i \in Intervals(frames[j], r)}
    BY <2>1 DEF Found, good
  <2> QED BY <2>1, <2>2
<1>2. j \in good
  <2>1. good \in SUBSET Nat
    BY ParsedIsDeclared
  <2>2. \E i \in good : \A l \in good : i <= l
    <3> HIDE DEF good
    <3> QED BY <1>1, <2>1, LeastNatural
  <2> QED BY <2>2
<1>3. f.frame = frames[j].index
  <2> DEFINE index == frames[j].index
             intervals == Intervals(frames[j], r)
  <2>1. f \in {[frame |-> index, interval |-> i] : i \in intervals}
    BY <1>1
  <2> HIDE DEF index, intervals
  <2>2. f.frame = index
    BY <2>1
  <2> QED BY <2>2 DEF index
<1> HIDE DEF j
<1>4. j \in DOMAIN frames /\ frames[j].size = r.size
  BY <1>2
<1>5. Entry(k, frames[j]) \in Declared
  BY <1>4, ParsedIsDeclared
<1>6. \E d \in Declared :
       /\ d.interface = c.interface /\ d.format = c.format /\ d.frame.index = c.frame
       /\ d.frame.size = r.size /\ d.mode = r.mode
  <2> DEFINE d == Entry(k, frames[j])
  <2>1. /\ d.interface = Number(k) /\ d.format = Format(k).index /\ d.mode = Format(k).mode
        /\ d.frame = frames[j]
    BY DEF Entry
  <2>2. Format(k).mode = r.mode
    BY DEF Matches
  <2> HIDE DEF d
  <2> QED BY <1>3, <1>4, <1>5, <2>1, <2>2 DEF d
<1>7. Named(c) # {}
  <2> DEFINE n == [interface |-> Number(k), format |-> Format(k).index, mode |-> Format(k).mode,
                   frame |-> frames[j], at |-> k]
  <2>1. n \in Names
    <3>1. frames[j] \in ToSet(frames)
      BY <1>4 DEF ToSet
    <3> QED BY <3>1, NamesAre
  <2>2. n.format = c.format /\ n.frame.index = c.frame
    BY <1>3
  <2> HIDE DEF n
  <2> QED BY <2>1, <2>2 DEF Named
<1>8. Number(k) \in Numbers
  BY PlaceIsScanned
<1> QED BY <1>6, <1>7, <1>8 DEF Answers

(* The test of an answer lets only the same frame of the same format through. *)
LEMMA NegotiatedAnswers ==
  ASSUME NEW r, NEW c, NEW d, Answers(c, r), Negotiated(c, d), d.interface = c.interface
  PROVE  Answers(d, r)
<1>1. d.format = c.format /\ d.frame = c.frame
  BY DEF Negotiated, NegotiatedFormat
<1>2. Named(d) = Named(c)
  BY <1>1 DEF Named
<1> QED BY <1>1, <1>2 DEF Answers

(* A frame found by its indices in the interface of the control block has the size
   that was asked for. *)
LEMMA SizeOfAnswer ==
  ASSUME NEW r, NEW c, Answers(c, r), ~Ambiguous(c)
  PROVE  FrameDesc(c).frame.size = r.size
<1> DEFINE n == FrameDesc(c)
<1>1. n \in Names /\ n.format = c.format /\ n.frame.index = c.frame
  BY FrameDescIsNamed DEF Named, Answers
<1>2. n.interface = c.interface
  BY DEF Ambiguous
<1> HIDE DEF n
<1>3. Declaration(n) \in Declared
  BY <1>1, NameIsDeclared
<1>4. PICK d \in Declared :
       /\ d.interface = c.interface /\ d.format = c.format /\ d.frame.index = c.frame
       /\ d.frame.size = r.size /\ d.mode = r.mode
  BY DEF Answers
<1>5. /\ Declaration(n).interface = n.interface /\ Declaration(n).format = n.format
      /\ Declaration(n).frame = n.frame
  BY DEF Declaration
<1>6. d = Declaration(n)
  BY <1>1, <1>2, <1>3, <1>4, <1>5, DeclaredOnce
<1> QED BY <1>4, <1>5, <1>6 DEF n

-----------------------------------------------------------------------------
(* The invariants are inductive. *)

(* Nobody negotiates yet. *)
LEMMA InitInv == Init => TypeInv /\ AnswerInv /\ GeometryInv /\ OfferInv
<1> SUFFICES ASSUME Init PROVE TypeInv /\ AnswerInv /\ GeometryInv /\ OfferInv
  OBVIOUS
<1>1. TypeInv
  BY DEF Init, TypeInv, IsControl, Blank
<1>2. at["app"] = "idle" /\ at["preview"] = "idle"
  BY DEF Init, Threads
<1>3. \A t \in Threads : at[t] = "idle"
  BY <1>2 DEF Threads
<1> QED BY <1>1, <1>2, <1>3 DEF AnswerInv, GeometryInv, OfferInv, Window

(* The format that is looked at next is one of those left. *)
LEMMA FirstLeft ==
  ASSUME TypeInv, NEW t \in Threads, left[t] # {}
  PROVE  First(left[t]) \in left[t] /\ First(left[t]) \in Places
<1>1. left[t] \subseteq Places
  BY DEF TypeInv
<1>2. Places \subseteq Nat \X Nat
  BY PlaceIsScanned
<1>3. left[t] \in SUBSET (Nat \X Nat)
  BY <1>1, <1>2
<1> QED BY <1>1, <1>3, FirstOf

(* What the camera gives as a control of an interface is a control of it. *)
LEMMA OfferIsControl ==
  ASSUME NEW n, NEW c \in Offers(n)
  PROVE  IsControl(c) /\ c.interface = n
BY DEF Offers, IsControl

(* A negotiation begins with an empty control block. *)
LEMMA BeginInv ==
  ASSUME TypeInv, AnswerInv, GeometryInv, OfferInv, NEW t \in Threads, NEW r, Begin(t, r),
         at[t] \notin Window, UNCHANGED <<required, geometry, device>>
  PROVE  (TypeInv /\ AnswerInv /\ GeometryInv /\ OfferInv)'
<1>1. /\ asked' = [asked EXCEPT ![t] = r] /\ left' = [left EXCEPT ![t] = Places]
      /\ ctrl' = [ctrl EXCEPT ![t] = Blank] /\ at' = [at EXCEPT ![t] = "max"]
      /\ raced' = (at[Other(t)] \in Window \/ (t = "app" /\ raced))
      /\ required' = required /\ geometry' = geometry
      /\ probe' = probe /\ committed' = committed /\ losses' = losses
  BY DEF Begin, Goto, device
<1>2. /\ DOMAIN at = Threads /\ DOMAIN asked = Threads /\ DOMAIN left = Threads
      /\ DOMAIN ctrl = Threads
  BY DEF TypeInv
<1>3. /\ at'[t] = "max" /\ ctrl'[t] = Blank /\ left'[t] = Places /\ asked'[t] = r
      /\ \A u \in Threads : u # t =>
           at'[u] = at[u] /\ ctrl'[u] = ctrl[u] /\ left'[u] = left[u] /\ asked'[u] = asked[u]
  BY <1>1, <1>2
<1>4. TypeInv'
  <2>1. IsControl(Blank)
    BY DEF IsControl, Blank
  <2>2. \A u \in Threads : left'[u] \subseteq Places /\ IsControl(ctrl'[u])
    BY <1>3, <2>1 DEF TypeInv
  <2> QED BY <1>1, <2>2 DEF TypeInv
<1>5. AnswerInv'
  <2>1. ASSUME NEW u \in Threads
        PROVE  /\ at'[u] \in {"set", "get", "configure", "open"} => Answers(ctrl'[u], asked'[u])
               /\ at'[u] = "get" => required'[u] = ctrl'[u]
    BY <1>1, <1>3 DEF AnswerInv
  <2>2. at'["preview"] = "streaming" => Answers(committed', asked'["preview"])
    BY <1>1, <1>3 DEF AnswerInv, Threads
  <2> QED BY <2>1, <2>2 DEF AnswerInv
<1>6. GeometryInv'
  BY <1>1, <1>3 DEF GeometryInv, Threads
<1>7. OfferInv'
  <2>1. Other("app") = "preview" /\ Other("preview") = "app"
    BY DEF Other, Threads
  <2>2. CASE t = "preview"
    BY <1>1, <1>3, <2>1, <2>2 DEF OfferInv, Threads, Window
  <2>3. CASE t = "app"
    BY <1>1, <1>3, <2>1, <2>3 DEF OfferInv, Threads, Window
  <2> QED BY <2>2, <2>3 DEF Threads
<1> QED BY <1>4, <1>5, <1>6, <1>7

(* A step of a thread inside its negotiation, which changes nothing of the other. *)
Inside(t) ==
  /\ at[t] \in Window
  /\ \A u \in Threads : u # t =>
       at'[u] = at[u] /\ ctrl'[u] = ctrl[u] /\ left'[u] = left[u] /\ required'[u] = required[u]
  /\ asked' = asked /\ raced' = raced /\ committed' = committed

(* The types, and what a step leaves alone. *)
LEMMA TypeStep ==
  ASSUME TypeInv, AnswerInv, NEW t \in Threads, Step(t)
  PROVE  TypeInv' /\ Inside(t)
<1>1. /\ DOMAIN at = Threads /\ DOMAIN asked = Threads /\ DOMAIN left = Threads
      /\ DOMAIN ctrl = Threads /\ DOMAIN required = Threads /\ DOMAIN probe = Numbers
      /\ \A u \in Threads : left[u] \subseteq Places
      /\ \A u \in Threads : IsControl(ctrl[u])
      /\ \A n \in Numbers : IsControl(probe[n]) /\ probe[n].interface = n
      /\ losses \in Nat
  BY DEF TypeInv
<1>2. CASE SkipFormat(t)
  BY <1>1, <1>2 DEF SkipFormat, TypeInv, Inside, device, counts, Window
<1>3. CASE GetMax(t)
  <2>1. /\ left[t] # {} /\ at[t] = "max"
        /\ UNCHANGED <<asked, required, probe, committed, raced>>
    BY <1>3 DEF GetMax
  <2> DEFINE k == First(left[t])
             here == [ctrl[t] EXCEPT !.interface = Number(k)]
  <2>2. IsControl(here)
    BY <1>1 DEF IsControl
  <2>3. PICK c \in {here} \cup Offers(Number(k)) :
          /\ losses' \in {losses, losses + 1}
          /\ \/ at' = [at EXCEPT ![t] = "crashed"] /\ UNCHANGED <<ctrl, left>>
             \/ /\ left' = [left EXCEPT ![t] = @ \ {k}]
                /\ ctrl' = [ctrl EXCEPT ![t] = c] /\ UNCHANGED at
             \/ /\ \E f \in Found(k, asked[t]) :
                     ctrl' = [ctrl EXCEPT ![t] = [c EXCEPT !.format = Format(k).index,
                                         !.frame = f.frame, !.interval = f.interval]]
                /\ at' = [at EXCEPT ![t] = "set"] /\ UNCHANGED left
    BY <1>3 DEF GetMax, Goto, Lost
  <2>4. IsControl(c)
    BY <2>2, OfferIsControl
  <2> HIDE DEF here, k
  <2>5. \A x, y, z : IsControl([c EXCEPT !.format = x, !.frame = y, !.interval = z])
    BY <2>4 DEF IsControl
  <2>6. PICK d : IsControl(d) /\ ctrl' \in {ctrl, [ctrl EXCEPT ![t] = d]}
    BY <2>3, <2>4, <2>5
  <2>7. /\ left' \in {left, [left EXCEPT ![t] = @ \ {k}]}
        /\ \E p : at' \in {at, [at EXCEPT ![t] = p]}
    BY <2>3
  <2>8. losses' \in Nat
    <3>1. losses' \in {losses, losses + 1}
      BY <2>3
    <3> QED BY <1>1, <3>1
  <2>9. DOMAIN at' = Threads /\ \A u \in Threads : u # t => at'[u] = at[u]
    BY <1>1, <2>7
  <2>10. DOMAIN ctrl' = Threads /\ \A u \in Threads : (u # t => ctrl'[u] = ctrl[u]) /\ IsControl(ctrl'[u])
    BY <1>1, <2>6
  <2>11. DOMAIN left' = Threads /\ \A u \in Threads : (u # t => left'[u] = left[u]) /\ left'[u] \subseteq Places
    BY <1>1, <2>7
  <2> QED BY <1>1, <2>1, <2>8, <2>9, <2>10, <2>11 DEF TypeInv, Inside, Window
<1>4. CASE Refuse(t)
  BY <1>1, <1>4 DEF Refuse, TypeInv, Inside, device, program, counts, Window, Goto
<1>5. CASE SetProbe(t)
  <2>1. /\ at[t] = "set" /\ required' = [required EXCEPT ![t] = ctrl[t]]
        /\ at' = [at EXCEPT ![t] = "get"]
        /\ UNCHANGED <<asked, left, ctrl, committed, raced>>
        /\ losses' \in {losses, losses + 1}
    BY <1>5 DEF SetProbe, Goto, Lost
  <2> DEFINE n == ctrl[t].interface
  <2>2. \/ probe' = probe
        \/ \E c \in Offers(n) \cup {[ctrl[t] EXCEPT !.payload = p] : p \in Payloads} :
             probe' = [probe EXCEPT ![n] = c]
    BY <1>5 DEF SetProbe
  <2>3. ASSUME NEW c \in Offers(n) \cup {[ctrl[t] EXCEPT !.payload = p] : p \in Payloads}
        PROVE  IsControl(c) /\ c.interface = n
    <3>1. ASSUME NEW p, c = [ctrl[t] EXCEPT !.payload = p]
          PROVE  IsControl(c) /\ c.interface = n
      BY <1>1, <3>1 DEF IsControl
    <3> QED BY <3>1, OfferIsControl
  <2> HIDE DEF n
  <2>4. DOMAIN probe' = Numbers /\ \A m \in Numbers : IsControl(probe'[m]) /\ probe'[m].interface = m
    BY <1>1, <2>2, <2>3
  <2>5. losses' \in Nat
    BY <1>1, <2>1
  <2> QED BY <1>1, <2>1, <2>4, <2>5 DEF TypeInv, Inside, Window
<1>6. CASE GetProbe(t)
  <2>1. /\ at[t] = "get" /\ losses' \in {losses, losses + 1}
        /\ UNCHANGED <<asked, left, required, probe, committed, raced>>
        /\ \E c : ctrl' = [ctrl EXCEPT ![t] = c] /\ IsControl(c)
        /\ \E p : at' = [at EXCEPT ![t] = p]
    <3>1. PICK c \in {ctrl[t], probe[ctrl[t].interface]} : Judge(t, c)
      BY <1>6 DEF GetProbe
    <3>2. ctrl[t].interface \in Numbers
      BY <1>6 DEF GetProbe, AnswerInv, Answers
    <3>3. IsControl(c)
      BY <1>1, <3>1, <3>2
    <3>4. /\ ctrl' = [ctrl EXCEPT ![t] = c]
          /\ \E p : at' = [at EXCEPT ![t] = p]
      BY <3>1 DEF Judge, Goto
    <3> QED BY <1>6, <3>3, <3>4 DEF GetProbe, Lost
  <2>2. losses' \in Nat
    BY <1>1, <2>1
  <2> QED BY <1>1, <2>1, <2>2 DEF TypeInv, Inside, Window
<1> QED BY <1>2, <1>3, <1>4, <1>5, <1>6 DEF Step

(* A step of a thread keeps its own part of the invariants. *)
LEMMA AnswerStep ==
  ASSUME TypeInv, AnswerInv, NEW t \in Threads, Step(t)
  PROVE  /\ at'[t] \in {"set", "get", "configure", "open"} => Answers(ctrl'[t], asked[t])
         /\ at'[t] = "get" => required'[t] = ctrl'[t]
         /\ at'[t] \notin {"open", "streaming"}
<1>1. /\ DOMAIN at = Threads /\ DOMAIN ctrl = Threads /\ DOMAIN required = Threads
      /\ \A u \in Threads : IsControl(ctrl[u])
      /\ \A n \in Numbers : IsControl(probe[n]) /\ probe[n].interface = n
  BY DEF TypeInv
<1>2. CASE SkipFormat(t)
  BY <1>2 DEF SkipFormat
<1>3. CASE GetMax(t)
  <2> DEFINE k == First(left[t])
             here == [ctrl[t] EXCEPT !.interface = Number(k)]
  <2>1. k \in Places /\ Matches(k, asked[t])
    BY <1>3, FirstLeft DEF GetMax
  <2>2. IsControl(here) /\ here.interface = Number(k)
    BY <1>1 DEF IsControl
  <2>3. PICK c \in {here} \cup Offers(Number(k)) :
          \/ at' = [at EXCEPT ![t] = "crashed"]
          \/ UNCHANGED at
          \/ /\ \E f \in Found(k, asked[t]) :
                  ctrl' = [ctrl EXCEPT ![t] = [c EXCEPT !.format = Format(k).index,
                                      !.frame = f.frame, !.interval = f.interval]]
             /\ at' = [at EXCEPT ![t] = "set"]
    BY <1>3 DEF GetMax, Goto
  <2>4. IsControl(c) /\ c.interface = Number(k)
    BY <2>2, OfferIsControl
  <2>5. at[t] = "max"
    BY <1>3 DEF GetMax
  <2> HIDE DEF here, k
  <2>6. CASE at'[t] # "set"
    BY <1>1, <2>3, <2>5, <2>6
  <2>7. CASE at'[t] = "set"
    <3>1. PICK f \in Found(k, asked[t]) :
             ctrl' = [ctrl EXCEPT ![t] = [c EXCEPT !.format = Format(k).index,
                                 !.frame = f.frame, !.interval = f.interval]]
      BY <1>1, <2>3, <2>5, <2>7
    <3> DEFINE d == [c EXCEPT !.format = Format(k).index, !.frame = f.frame, !.interval = f.interval]
    <3>2. d.interface = Number(k) /\ d.format = Format(k).index /\ d.frame = f.frame
      BY <2>4 DEF IsControl
    <3>3. ctrl'[t] = d
      BY <1>1, <3>1
    <3> HIDE DEF d
    <3>4. Answers(d, asked[t])
      BY <2>1, <3>2, FoundAnswers
    <3> QED BY <2>7, <3>3, <3>4
  <2> QED BY <2>6, <2>7
<1>4. CASE Refuse(t)
  BY <1>1, <1>4 DEF Refuse, Goto
<1>5. CASE SetProbe(t)
  <2>1. /\ at[t] = "set" /\ required' = [required EXCEPT ![t] = ctrl[t]]
        /\ at' = [at EXCEPT ![t] = "get"] /\ UNCHANGED ctrl
    BY <1>5 DEF SetProbe, Goto
  <2> QED BY <1>1, <2>1 DEF AnswerInv
<1>6. CASE GetProbe(t)
  <2>1. at[t] = "get" /\ Answers(ctrl[t], asked[t]) /\ required[t] = ctrl[t]
    BY <1>6 DEF GetProbe, AnswerInv
  <2>2. PICK c \in {ctrl[t], probe[ctrl[t].interface]} : Judge(t, c)
    BY <1>6 DEF GetProbe
  <2>3. ctrl'[t] = c /\ at'[t] \in {"rejected", "configure", "accepted"}
    BY <1>1, <2>2 DEF Judge, Goto
  <2>4. at'[t] = "configure" => Negotiated(ctrl[t], c)
    BY <1>1, <2>1, <2>2 DEF Judge, Goto
  <2>5. ctrl[t].interface \in Numbers
    BY <2>1 DEF Answers
  <2>6. c.interface = ctrl[t].interface
    BY <1>1, <2>2, <2>5
  <2>7. at'[t] = "configure" => Answers(c, asked[t])
    BY <2>1, <2>4, <2>6, NegotiatedAnswers
  <2> QED BY <2>3, <2>7
<1> QED BY <1>2, <1>3, <1>4, <1>5, <1>6 DEF Step

(* Without a loss the answer is what the probe control holds. *)
LEMMA OfferStep ==
  ASSUME TypeInv, AnswerInv, OfferInv, Step("preview"), ~raced, losses' = 0
  PROVE  at'["preview"] \in {"configure", "open"} =>
           ctrl'["preview"] = probe'[ctrl'["preview"].interface]
<1> DEFINE t == "preview"
<1>1. /\ DOMAIN at = Threads /\ DOMAIN ctrl = Threads /\ DOMAIN probe = Numbers
      /\ losses \in Nat /\ t \in Threads /\ \A u \in Threads : IsControl(ctrl[u])
  BY DEF TypeInv, Threads
<1>2. CASE SkipFormat(t)
  BY <1>2 DEF SkipFormat
<1>3. CASE GetMax(t)
  <2>1. at[t] = "max"
    BY <1>3 DEF GetMax
  <2>2. \/ at' = [at EXCEPT ![t] = "crashed"]
        \/ UNCHANGED at
        \/ at' = [at EXCEPT ![t] = "set"]
    BY <1>3 DEF GetMax, Goto
  <2>3. at'[t] \in {"max", "set", "crashed"}
    BY <1>1, <2>1, <2>2
  <2> QED BY <2>3
<1>4. CASE Refuse(t)
  BY <1>1, <1>4 DEF Refuse, Goto
<1>5. CASE SetProbe(t)
  BY <1>1, <1>5 DEF SetProbe, Goto
<1>6. CASE GetProbe(t)
  <2>1. at[t] = "get" /\ losses = 0 /\ probe' = probe /\ Judge(t, probe[ctrl[t].interface])
    BY <1>1, <1>6 DEF GetProbe, Lost
  <2>2. /\ ctrl'[t] = probe[ctrl[t].interface]
        /\ at'[t] \in {"rejected", "configure", "accepted"}
    BY <1>1, <2>1 DEF Judge, Goto
  <2>3. ctrl[t].interface \in Numbers
    BY <1>1, <2>1 DEF AnswerInv, Answers
  <2>4. probe[ctrl[t].interface].interface = ctrl[t].interface
    BY <2>3 DEF TypeInv
  <2> QED BY <2>1, <2>2, <2>4
<1> QED BY <1>2, <1>3, <1>4, <1>5, <1>6 DEF Step

(* The inductive invariant. *)
NInv == TypeInv /\ AnswerInv /\ GeometryInv /\ OfferInv

(* A step of either thread keeps the invariant of both. *)
LEMMA StepInv ==
  ASSUME NInv, NEW t \in Threads, Step(t)
  PROVE  NInv'
<1>1. TypeInv' /\ Inside(t)
  BY TypeStep DEF NInv
<1>2. /\ at'[t] \in {"set", "get", "configure", "open"} => Answers(ctrl'[t], asked[t])
      /\ at'[t] = "get" => required'[t] = ctrl'[t]
      /\ at'[t] \notin {"open", "streaming"}
  BY AnswerStep DEF NInv
<1>3. geometry' = geometry
  BY DEF Step, SkipFormat, GetMax, Refuse, SetProbe, GetProbe, program
<1>4. AnswerInv'
  <2>1. ASSUME NEW u \in Threads
        PROVE  /\ at'[u] \in {"set", "get", "configure", "open"} => Answers(ctrl'[u], asked'[u])
               /\ at'[u] = "get" => required'[u] = ctrl'[u]
    BY <1>1, <1>2 DEF Inside, NInv, AnswerInv
  <2>2. at'["preview"] = "streaming" => Answers(committed', asked'["preview"])
    BY <1>1, <1>2 DEF Inside, NInv, AnswerInv, Threads
  <2> QED BY <2>1, <2>2 DEF AnswerInv
<1>5. GeometryInv'
  <2>1. CASE t = "preview"
    BY <1>2, <2>1 DEF GeometryInv
  <2>2. CASE t # "preview"
    BY <1>1, <1>3, <2>2 DEF Inside, NInv, GeometryInv, Threads
  <2> QED BY <2>1, <2>2
<1>6. OfferInv'
  <2> SUFFICES ASSUME ~raced', at'["preview"] \in Window
               PROVE  /\ at'["app"] \notin Window
                      /\ losses' = 0 /\ at'["preview"] \in {"configure", "open"} =>
                           ctrl'["preview"] = probe'[ctrl'["preview"].interface]
    BY DEF OfferInv
  <2>1. ~raced
    BY <1>1 DEF Inside
  <2>2. CASE t = "preview"
    <3>1. at["preview"] \in Window /\ at'["app"] = at["app"]
      BY <1>1, <2>2 DEF Inside, Threads
    <3>2. at["app"] \notin Window
      BY <2>1, <3>1 DEF NInv, OfferInv
    <3> QED BY <2>1, <2>2, <3>1, <3>2, OfferStep DEF NInv
  <2>3. CASE t = "app"
    <3>1. at["app"] \in Window /\ at'["preview"] = at["preview"]
      BY <1>1, <2>3 DEF Inside, Threads
    <3> QED BY <2>1, <3>1 DEF NInv, OfferInv
  <2> QED BY <2>2, <2>3 DEF Threads
<1> QED BY <1>1, <1>4, <1>5, <1>6 DEF NInv

(* The rest of preparePreview, the commit and the stop too. *)
LEMMA NInvStep == NInv /\ [Next]_vars => NInv'
<1> SUFFICES ASSUME NInv, [Next]_vars PROVE NInv'
  OBVIOUS
<1> USE DEF NInv
<1>1. ASSUME NEW r \in Requests, SetPreviewSize(r) PROVE NInv'
  BY <1>1, BeginInv DEF SetPreviewSize, Threads
<1>2. CASE PreparePreview
  BY <1>2, BeginInv DEF PreparePreview, Threads
<1> DEFINE p == "preview"
<1>3. CASE Configure
  <2>1. /\ at[p] = "configure" /\ at' = [at EXCEPT ![p] = "open"]
        /\ geometry' = FrameDesc(ctrl[p]).frame.size
        /\ UNCHANGED <<asked, left, ctrl, required, probe, committed, losses, raced>>
    BY <1>3 DEF Configure, Goto, device
  <2>2. DOMAIN at = Threads /\ p \in Threads
    BY DEF TypeInv, Threads
  <2>3. at'[p] = "open" /\ \A u \in Threads : u # p => at'[u] = at[u]
    BY <2>1, <2>2
  <2>4. TypeInv'
    BY <2>1, <2>2 DEF TypeInv
  <2>5. AnswerInv'
    <3>1. ASSUME NEW u \in Threads
          PROVE  /\ at'[u] \in {"set", "get", "configure", "open"} => Answers(ctrl'[u], asked'[u])
                 /\ at'[u] = "get" => required'[u] = ctrl'[u]
      BY <2>1, <2>2, <2>3 DEF AnswerInv
    <3> QED BY <2>3, <3>1 DEF AnswerInv
  <2>6. GeometryInv'
    <3>1. Answers(ctrl[p], asked[p])
      BY <2>1, <2>2 DEF AnswerInv
    <3>2. ~Ambiguous(ctrl[p]) => geometry' = asked[p].size
      BY <2>1, <3>1, SizeOfAnswer
    <3> QED BY <2>1, <2>3, <3>2 DEF GeometryInv, Ambiguous
  <2>7. OfferInv'
    <3>1. at'["app"] = at["app"] /\ at[p] \in Window
      BY <2>1, <2>3 DEF Threads, Window
    <3> QED BY <2>1, <2>3, <3>1 DEF OfferInv
  <2> QED BY <2>4, <2>5, <2>6, <2>7
<1>4. CASE Open
  <2>1. /\ at[p] = "open" /\ UNCHANGED <<asked, left, ctrl, required, geometry, probe, raced>>
        /\ \/ /\ losses' = losses + 1 /\ at' = [at EXCEPT ![p] = "failed"] /\ UNCHANGED committed
           \/ /\ committed' = ctrl[p] /\ at' = [at EXCEPT ![p] = "streaming"] /\ UNCHANGED losses
    BY <1>4 DEF Open, Goto, program, Lost
  <2>2. DOMAIN at = Threads /\ p \in Threads /\ losses \in Nat
    BY DEF TypeInv, Threads
  <2>3. /\ at'[p] = "failed" \/ (at'[p] = "streaming" /\ committed' = ctrl[p])
        /\ \A u \in Threads : u # p => at'[u] = at[u]
    BY <2>1, <2>2
  <2>4. TypeInv'
    BY <2>1, <2>2 DEF TypeInv
  <2>5. AnswerInv'
    <3>1. ASSUME NEW u \in Threads
          PROVE  /\ at'[u] \in {"set", "get", "configure", "open"} => Answers(ctrl'[u], asked'[u])
                 /\ at'[u] = "get" => required'[u] = ctrl'[u]
      BY <2>1, <2>2, <2>3 DEF AnswerInv
    <3> QED BY <2>1, <2>2, <2>3, <3>1 DEF AnswerInv
  <2>6. GeometryInv'
    BY <2>1, <2>3 DEF GeometryInv, Ambiguous
  <2>7. OfferInv'
    BY <2>3 DEF OfferInv, Window
  <2> QED BY <2>4, <2>5, <2>6, <2>7
<1>5. CASE Stop
  <2>1. at[p] = "streaming" /\ at' = [at EXCEPT ![p] = "idle"] /\ UNCHANGED <<program, device, raced>>
    BY <1>5 DEF Stop, Goto
  <2>2. DOMAIN at = Threads /\ p \in Threads
    BY DEF TypeInv, Threads
  <2>3. at'[p] = "idle" /\ \A u \in Threads : u # p => at'[u] = at[u]
    BY <2>1, <2>2
  <2>4. TypeInv'
    BY <2>1, <2>2 DEF TypeInv, program, device
  <2>5. AnswerInv'
    <3>1. ASSUME NEW u \in Threads
          PROVE  /\ at'[u] \in {"set", "get", "configure", "open"} => Answers(ctrl'[u], asked'[u])
                 /\ at'[u] = "get" => required'[u] = ctrl'[u]
      BY <2>1, <2>2, <2>3 DEF AnswerInv, program
    <3> QED BY <2>3, <3>1 DEF AnswerInv
  <2>6. GeometryInv' /\ OfferInv'
    BY <2>3 DEF GeometryInv, OfferInv, Window
  <2> QED BY <2>4, <2>5, <2>6
<1>6. CASE UNCHANGED vars
  BY <1>6 DEF vars, program, device, TypeInv, AnswerInv, GeometryInv, OfferInv, Ambiguous
<1>7. ASSUME NEW t \in Threads, Step(t) PROVE NInv'
  BY <1>7, StepInv
<1> QED BY <1>1, <1>2, <1>3, <1>4, <1>5, <1>6, <1>7 DEF Next

(* The invariant holds of every negotiation: any camera, any requests, any failures and
   any interleaving of the two threads. *)
THEOREM NegotiateInvariance == Spec => []NInv
<1>1. Init => NInv
  BY InitInv DEF NInv
<1> QED BY <1>1, NInvStep, PTL DEF Spec

(* uvc_probe_stream_ctrl lets nothing but the frame that was found through, so what
   preparePreview streams is a declared frame of the size and the mode it read. *)
THEOREM AnswerTheorem == Spec => []StreamsWhatWasAsked
<1>1. NInv => StreamsWhatWasAsked
  BY DEF NInv, AnswerInv, GeometryInv, Answers, StreamsWhatWasAsked
<1> QED BY <1>1, NegotiateInvariance, PTL

(* Without a failed transfer and without the other thread, uvc_stream_open_ctrl commits
   the last answer of the camera, which is still what its probe control holds. *)
THEOREM OfferTheorem == Spec => CommitsTheOffer
<1> DEFINE Offered == at["preview"] = "open" /\ at'["preview"] = "streaming" /\ losses = 0 /\ ~raced
                        => committed' = probe[committed'.interface]
<1>1. NInv /\ [Next]_vars => [Offered]_vars
  <2> SUFFICES ASSUME NInv, [Next]_vars, at["preview"] = "open", at'["preview"] = "streaming",
                      losses = 0, ~raced
               PROVE  committed' = probe[committed'.interface]
    OBVIOUS
  <2>1. DOMAIN at = Threads
    BY DEF NInv, TypeInv
  <2>2. Open
    <3>1. ASSUME NEW t \in Threads, Step(t) PROVE FALSE
      <4>1. Inside(t) /\ at'[t] \notin {"open", "streaming"}
        BY <3>1, TypeStep, AnswerStep DEF NInv
      <4> QED BY <4>1 DEF Inside, Threads
    <3>2. ASSUME NEW r \in Requests, SetPreviewSize(r) PROVE FALSE
      BY <2>1, <3>2 DEF SetPreviewSize, Begin, Goto, Threads
    <3>3. ~PreparePreview /\ ~Configure /\ ~Stop
      BY DEF PreparePreview, Configure, Stop, Window
    <3>4. ~UNCHANGED vars
      BY DEF vars
    <3> QED BY <3>1, <3>2, <3>3, <3>4 DEF Next
  <2>3. committed' = ctrl["preview"]
    BY <2>1, <2>2 DEF Open, Goto, Threads
  <2>4. ctrl["preview"] = probe[ctrl["preview"].interface]
    BY DEF NInv, OfferInv, Window
  <2> QED BY <2>3, <2>4
<1> QED BY <1>1, NegotiateInvariance, PTL DEF Spec, CommitsTheOffer

-----------------------------------------------------------------------------
(* The search is exhaustive. *)

(* A thread that searches, or gave up, found nothing in the formats it has looked at. *)
SearchInv ==
  \A t \in Threads : at[t] \in {"max", "refused"} =>
    \A k \in Places :
      \/ at[t] = "max" /\ k \in left[t]
      \/ ~Matches(k, asked[t])
      \/ Found(k, asked[t]) = {}

(* A search fails only if no frame of the format and the size that has a list of
   intervals has one, before the first 0, for a rate in the range. *)
ListsAreSearched ==
  \A t \in Threads : at[t] = "refused" =>
    \A d \in Declared :
      /\ d.interface \in Numbers /\ d.mode = asked[t].mode
      /\ d.frame.size = asked[t].size /\ Discrete(d.frame)
      => \A i \in Listed(d.frame) : ~InRange(d.frame.intervals[i], asked[t])

(* Nothing is found only where no frame of the size has an interval for the rates. *)
LEMMA NothingFound ==
  ASSUME NEW k \in Places, NEW r, Found(k, r) = {},
         NEW i \in DOMAIN Format(k).frames, Format(k).frames[i].size = r.size
  PROVE  Intervals(Format(k).frames[i], r) = {}
<1> DEFINE frames == Format(k).frames
           good == {l \in DOMAIN frames : frames[l].size = r.size /\ Intervals(frames[l], r) # {}}
           j == CHOOSE l \in good : \A m \in good : l <= m
<1> SUFFICES ASSUME good # {} PROVE FALSE
  OBVIOUS
<1>1. j \in good
  <2>1. good \in SUBSET Nat
    BY ParsedIsDeclared
  <2>2. \E l \in good : \A m \in good : l <= m
    <3> HIDE DEF good
    <3> QED BY <2>1, LeastNatural
  <2> QED BY <2>2
<1>2. Found(k, r) = {[frame |-> frames[j].index, interval |-> l] : l \in Intervals(frames[j], r)}
  BY DEF Found
<1>3. PICK l \in Intervals(frames[j], r) : TRUE
  BY <1>1
<1>4. [frame |-> frames[j].index, interval |-> l] \in Found(k, r)
  BY <1>2, <1>3
<1> QED BY <1>4

(* The list of a frame that gives no interval has none before the first 0. *)
LEMMA NothingInList ==
  ASSUME NEW frame, NEW r, Discrete(frame), Intervals(frame, r) = {}
  PROVE  \A i \in Listed(frame) : ~InRange(frame.intervals[i], r)
BY DEF Intervals, FromList

(* A format is left behind when it is of another kind or nothing is found in it. *)
LEMMA SearchStep ==
  ASSUME NInv, SearchInv, NEW t \in Threads, Step(t)
  PROVE  SearchInv'
<1>1. Inside(t)
  BY TypeStep DEF NInv
<1>2. \A u \in Threads : u # t => at'[u] = at[u] /\ left'[u] = left[u] /\ asked'[u] = asked[u]
  BY <1>1 DEF Inside
<1>3. DOMAIN at = Threads /\ DOMAIN left = Threads
  BY DEF NInv, TypeInv
<1>4. ASSUME at'[t] \in {"max", "refused"}
      PROVE  \A k \in Places :
               \/ at'[t] = "max" /\ k \in left'[t]
               \/ ~Matches(k, asked'[t])
               \/ Found(k, asked'[t]) = {}
  <2>1. asked' = asked
    BY <1>1 DEF Inside
  <2>2. CASE SkipFormat(t)
    <3>1. /\ at[t] = "max" /\ at' = at /\ left' = [left EXCEPT ![t] = @ \ {First(@)}]
          /\ ~Matches(First(left[t]), asked[t])
      BY <2>2 DEF SkipFormat
    <3> QED BY <1>3, <2>1, <3>1 DEF SearchInv
  <2>3. CASE GetMax(t)
    <3> DEFINE k == First(left[t])
    <3>1. at[t] = "max"
      BY <2>3 DEF GetMax
    <3>2. \/ at' = [at EXCEPT ![t] = "crashed"]
          \/ /\ Found(k, asked[t]) = {} /\ left' = [left EXCEPT ![t] = @ \ {k}] /\ UNCHANGED at
          \/ at' = [at EXCEPT ![t] = "set"]
      BY <2>3 DEF GetMax, Goto
    <3> HIDE DEF k
    <3>3. Found(k, asked[t]) = {} /\ left'[t] = left[t] \ {k} /\ at' = at
      BY <1>3, <1>4, <3>2
    <3> QED BY <2>1, <3>1, <3>3 DEF SearchInv
  <2>4. CASE Refuse(t)
    <3>1. at[t] = "max" /\ left[t] = {}
      BY <2>4 DEF Refuse
    <3> QED BY <2>1, <3>1 DEF SearchInv
  <2>5. CASE SetProbe(t)
    BY <1>3, <1>4, <2>5 DEF SetProbe, Goto
  <2>6. CASE GetProbe(t)
    <3>1. PICK c : Judge(t, c)
      BY <2>6 DEF GetProbe
    <3> QED BY <1>3, <1>4, <3>1 DEF Judge, Goto
  <2> QED BY <2>2, <2>3, <2>4, <2>5, <2>6 DEF Step
<1>5. ASSUME NEW u \in Threads, at'[u] \in {"max", "refused"}
      PROVE  \A k \in Places :
               \/ at'[u] = "max" /\ k \in left'[u]
               \/ ~Matches(k, asked'[u])
               \/ Found(k, asked'[u]) = {}
  <2>1. CASE u = t
    BY <1>4, <1>5, <2>1
  <2>2. CASE u # t
    BY <1>2, <1>5, <2>2 DEF SearchInv
  <2> QED BY <2>1, <2>2
<1> QED BY <1>5 DEF SearchInv, Matches, Found

(* A search begins with every format. *)
LEMMA SearchBegin ==
  ASSUME NInv, SearchInv, NEW t \in Threads, NEW r, Begin(t, r)
  PROVE  SearchInv'
<1>1. /\ at' = [at EXCEPT ![t] = "max"] /\ left' = [left EXCEPT ![t] = Places]
      /\ asked' = [asked EXCEPT ![t] = r]
      /\ DOMAIN at = Threads /\ DOMAIN left = Threads /\ DOMAIN asked = Threads
  BY DEF Begin, Goto, NInv, TypeInv
<1>2. at'[t] = "max" /\ left'[t] = Places
  BY <1>1
<1>3. \A u \in Threads : u # t => at'[u] = at[u] /\ left'[u] = left[u] /\ asked'[u] = asked[u]
  BY <1>1
<1> QED BY <1>2, <1>3 DEF SearchInv

(* uvc_get_stream_ctrl_format_size_fps looks at every format and frame before it
   refuses: of the frames with a list of intervals it misses none.  Of those with a
   range it does, see SearchFindsARate. *)
THEOREM SearchIsExhaustive == Spec => []ListsAreSearched
<1>1. Init => SearchInv
  <2> SUFFICES ASSUME Init PROVE \A t \in Threads : at[t] = "idle"
    BY DEF SearchInv
  <2> QED BY DEF Init
<1>2. NInv /\ SearchInv /\ [Next]_vars => SearchInv'
  <2> SUFFICES ASSUME NInv, SearchInv, [Next]_vars PROVE SearchInv'
    OBVIOUS
  <2>1. ASSUME NEW t \in Threads, Step(t) PROVE SearchInv'
    BY <2>1, SearchStep
  <2>2. ASSUME NEW r \in Requests, SetPreviewSize(r) PROVE SearchInv'
    BY <2>2, SearchBegin DEF SetPreviewSize, Threads
  <2>3. CASE PreparePreview
    BY <2>3, SearchBegin DEF PreparePreview, Threads
  <2>4. CASE Configure \/ Open \/ Stop
    <3>1. PICK p \in {"open", "failed", "streaming", "idle"} : at' = [at EXCEPT !["preview"] = p]
      BY <2>4 DEF Configure, Open, Stop, Goto
    <3>2. left' = left /\ asked' = asked /\ DOMAIN at = Threads
      BY <2>4 DEF Configure, Open, Stop, program, NInv, TypeInv
    <3> QED BY <3>1, <3>2 DEF SearchInv
  <2>5. CASE UNCHANGED vars
    BY <2>5 DEF vars, program, SearchInv
  <2> QED BY <2>1, <2>2, <2>3, <2>4, <2>5 DEF Next
<1>3. SearchInv => ListsAreSearched
  <2> SUFFICES ASSUME SearchInv, NEW t \in Threads, at[t] = "refused", NEW d \in Declared,
                      d.interface \in Numbers, d.mode = asked[t].mode,
                      d.frame.size = asked[t].size, Discrete(d.frame)
               PROVE  \A i \in Listed(d.frame) : ~InRange(d.frame.intervals[i], asked[t])
    BY DEF ListsAreSearched
  <2>1. PICK n \in Names : Declaration(n) = d
    BY DeclaredIsNamed
  <2>2. PICK k \in Places : \E f \in ToSet(Format(k).frames) :
             n = [interface |-> Number(k), format |-> Format(k).index, mode |-> Format(k).mode,
                  frame |-> f, at |-> k]
    BY NamesAre
  <2>3. PICK j \in DOMAIN Format(k).frames : n.frame = Format(k).frames[j] /\ n.mode = Format(k).mode
    BY <2>2 DEF ToSet
  <2>4. d.frame = Format(k).frames[j] /\ d.mode = Format(k).mode
    BY <2>1, <2>3 DEF Declaration
  <2>5. Found(k, asked[t]) = {}
    BY <2>4 DEF SearchInv, Matches
  <2>6. Intervals(d.frame, asked[t]) = {}
    BY <2>4, <2>5, NothingFound
  <2> QED BY <2>6, NothingInList
<1> QED BY <1>1, <1>2, <1>3, NegotiateInvariance, PTL DEF Spec
=============================================================================
