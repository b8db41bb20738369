---------------------------- MODULE PixelsProofs ----------------------------
(***************************************************************************)
(* Theorems about Pixels, for frames and windows of any size: for which      *)
(* sizes a loop leaves its buffer, and that what is posted is the picture.   *)
(***************************************************************************)
EXTENDS Pixels, TLAPS

(* r rows take no more room than h when there are no more of them, and one row
   less than h takes one width less. *)
LEMMA RowsFit ==
  ASSUME NEW w \in Nat, NEW h \in Nat, NEW r \in Nat, r <= h
  PROVE  /\ r * w \in Nat /\ h * w \in Nat
         /\ r * w <= h * w
         /\ (r - 1) * w = r * w - w
<1>1. \A x, y \in Nat : x * y \in Nat
  OBVIOUS
<1>2. h - r \in Nat /\ h = r + (h - r)
  OBVIOUS
<1>3. h * w = r * w + (h - r) * w
  BY <1>2
<1>4. (r - 1) * w = r * w - w
  OBVIOUS
<1> QED BY <1>1, <1>2, <1>3, <1>4

(* The rows copyFrame copies: the height, rounded up to whole groups of eight, and
   the rest once more. *)
LEMMA RowsCopied ==
  ASSUME NEW h \in Nat
  PROVE  /\ CopyRows(h) \in Nat /\ CopyRows(h) >= h
         /\ CopyRows(h) > h <=> h % 8 # 0
BY DEF CopyRows

-----------------------------------------------------------------------------
(* The invariant, in parts.  The shape of the picture never changes. *)
ShapeInv ==
  /\ width \in Nat \ {0} /\ height \in Nat \ {0}
  /\ window.width \in Nat /\ window.height \in Nat
  /\ mode \in {"yuyv", "mjpeg"}
  /\ jpeg.width \in Nat
  /\ row \in Nat

(* Which function runs, and which of them have run. *)
StageInv ==
  /\ stage \in {"duplicate", "decode", "convert", "copy", "dropped", "posted"}
  /\ outside \subseteq {"duplicate", "decode", "copy"}
  /\ stage = "duplicate" => mode = "yuyv"
  /\ stage = "decode" => mode = "mjpeg"
  /\ stage \in {"duplicate", "decode", "convert"} => "copy" \notin outside
  /\ mode = "mjpeg" => "duplicate" \notin outside
  /\ mode = "yuyv" => "decode" \notin outside

(* The rows a function has done so far, and what they say about the buffer.  A JPEG
   that is too wide by whole groups leaves it in the last row, and not before. *)
DuplicateInv ==
  mode = "yuyv" =>
    IF stage = "duplicate"
    THEN /\ row % 4 = 0 /\ row < height + 4
         /\ "duplicate" \in outside <=> row > height
    ELSE "duplicate" \in outside <=> height % 4 # 0

TooWide == jpeg.width > width \/ jpeg.width % 2 # 0

DecodeInv ==
  mode = "mjpeg" =>
    IF stage = "decode"
    THEN /\ row <= height
         /\ "decode" \in outside => TooWide
         /\ row = height /\ TooWide => "decode" \in outside
    ELSE stage # "dropped" => ("decode" \in outside <=> TooWide)

CopyInv ==
  /\ stage = "copy" =>
       /\ row <= CopyRows(CopyHeight)
       /\ "copy" \in outside <=> row > CopyHeight
  /\ stage = "posted" => ("copy" \in outside <=> CopyHeight % 8 # 0)

PInv == ShapeInv /\ StageInv /\ DuplicateInv /\ DecodeInv /\ CopyInv

LEMMA HeightOfCopy ==
  ASSUME ShapeInv
  PROVE  CopyHeight \in Nat /\ (\A r \in Nat : r >= height \/ r >= window.height <=> r >= CopyHeight)
BY DEF ShapeInv, CopyHeight, Smaller

LEMMA PixelsInit == Init => PInv
<1> SUFFICES ASSUME Init PROVE PInv
  OBVIOUS
<1>1. /\ width \in Nat \ {0} /\ height \in Nat \ {0}
      /\ window.width \in Nat /\ window.height \in Nat
  BY PixelsAssumption DEF PixelsAssumption, Init
<1>2. jpeg.width \in Nat /\ mode \in {"yuyv", "mjpeg"}
  <2>1. width - 1 \in Nat /\ width + 1 \in Nat
    BY <1>1
  <2> QED BY <1>1, <2>1 DEF Init
<1>3. row = 0 /\ outside = {} /\ stage = IF mode = "yuyv" THEN "duplicate" ELSE "decode"
  BY DEF Init
<1>4. ShapeInv
  BY <1>1, <1>2, <1>3 DEF ShapeInv
<1>5. StageInv
  BY <1>2, <1>3 DEF StageInv
<1>6. DuplicateInv
  BY <1>1, <1>2, <1>3 DEF DuplicateInv
<1>7. DecodeInv /\ CopyInv
  BY <1>1, <1>2, <1>3 DEF DecodeInv, CopyInv
<1> QED BY <1>4, <1>5, <1>6, <1>7 DEF PInv

-----------------------------------------------------------------------------
(* One lemma for each function. *)
LEMMA DuplicateKeeps ==
  ASSUME PInv, DuplicateRows \/ Duplicated PROVE PInv'
<1> USE DEF shape
<1>1. CASE DuplicateRows
  <2>1. /\ stage = "duplicate" /\ row < height /\ row' = row + 4 /\ stage' = stage
        /\ outside' = IF row + 4 > height THEN outside \cup {"duplicate"} ELSE outside
        /\ UNCHANGED <<width, height, mode, jpeg, window>>
    BY <1>1 DEF DuplicateRows, Overrun, Rows
  <2>2. mode = "yuyv" /\ row \in Nat /\ height \in Nat /\ row % 4 = 0
        /\ ("duplicate" \in outside <=> row > height)
    BY <2>1 DEF PInv, ShapeInv, StageInv, DuplicateInv
  <2>3. (row + 4) % 4 = 0 /\ row + 4 < height + 4 /\ row + 4 \in Nat
    BY <2>1, <2>2
  <2>4. ShapeInv' /\ StageInv'
    BY <2>1, <2>3 DEF PInv, ShapeInv, StageInv
  <2>5. DuplicateInv'
    BY <2>1, <2>2, <2>3 DEF DuplicateInv
  <2>6. DecodeInv' /\ CopyInv'
    BY <2>1, <2>2 DEF DecodeInv, CopyInv
  <2> QED BY <2>4, <2>5, <2>6 DEF PInv
<1>2. CASE Duplicated
  <2>1. /\ stage = "duplicate" /\ row >= height /\ stage' = "convert" /\ row' = 0
        /\ UNCHANGED <<width, height, mode, jpeg, window, outside>>
    BY <1>2 DEF Duplicated, Enter
  <2>2. mode = "yuyv" /\ row \in Nat /\ height \in Nat /\ row % 4 = 0 /\ row < height + 4
        /\ ("duplicate" \in outside <=> row > height)
    BY <2>1 DEF PInv, ShapeInv, StageInv, DuplicateInv
  <2>3. row > height <=> height % 4 # 0
    BY <2>1, <2>2
  <2>4. ShapeInv' /\ StageInv'
    BY <2>1 DEF PInv, ShapeInv, StageInv
  <2>5. DuplicateInv'
    BY <2>1, <2>2, <2>3 DEF DuplicateInv
  <2>6. DecodeInv' /\ CopyInv'
    BY <2>1, <2>2 DEF DecodeInv, CopyInv
  <2> QED BY <2>4, <2>5, <2>6 DEF PInv
<1> QED BY <1>1, <1>2

(* The group of rows n that ends in row + n writes behind the buffer if rows of
   the picture are not whole groups, or if it is the last and they are too wide. *)
LEMMA DecodeOverrun ==
  ASSUME ShapeInv, row < height, NEW n \in 1 .. Smaller(MAX_READLINE, height - row)
  PROVE  LET bad == \/ Repacked(jpeg.width) # jpeg.width
                    \/ (row + n - 1) * width + Repacked(jpeg.width) > width * height
         IN /\ row + n \in Nat /\ row + n <= height
            /\ bad => TooWide
            /\ row + n = height /\ TooWide => bad
<1>1. row \in Nat /\ height \in Nat /\ width \in Nat /\ jpeg.width \in Nat
  BY DEF ShapeInv
<1>2. n \in Nat /\ row + n \in Nat /\ row + n <= height
  BY <1>1 DEF Smaller, MAX_READLINE
<1>3. Repacked(jpeg.width) \in Nat /\ (Repacked(jpeg.width) = jpeg.width <=> jpeg.width % 2 = 0)
  BY <1>1 DEF Repacked
<1>4. /\ (row + n) * width \in Nat /\ height * width \in Nat
      /\ (row + n) * width <= height * width
      /\ (row + n - 1) * width = (row + n) * width - width
  BY <1>1, <1>2, RowsFit
<1>5. width * height = height * width
  BY <1>1
<1> DEFINE done == (row + n) * width
           all == height * width
<1>6. done \in Nat /\ all \in Nat /\ done <= all /\ (row + n = height => done = all)
  BY <1>4
<1> HIDE DEF done, all
<1>7. (row + n - 1) * width + Repacked(jpeg.width) > width * height
        <=> done - width + Repacked(jpeg.width) > all
  BY <1>4, <1>5 DEF done, all
<1> QED BY <1>1, <1>2, <1>3, <1>6, <1>7 DEF TooWide

LEMMA DecodeKeeps ==
  ASSUME PInv, DecodeRows \/ Decoded \/ DecodeFails PROVE PInv'
<1> USE DEF shape
<1>1. CASE DecodeRows
  <2>1. PICK n \in 1 .. Smaller(MAX_READLINE, height - row) :
          /\ row' = row + n /\ stage' = stage
          /\ outside' = IF \/ Repacked(jpeg.width) # jpeg.width
                           \/ (row + n - 1) * width + Repacked(jpeg.width) > width * height
                        THEN outside \cup {stage} ELSE outside
    BY <1>1 DEF DecodeRows, Overrun, Rows
  <2>2. /\ stage = "decode" /\ row < height
        /\ UNCHANGED <<width, height, mode, jpeg, window>>
    BY <1>1 DEF DecodeRows
  <2>3. mode = "mjpeg" /\ row \in Nat /\ height \in Nat
        /\ ("decode" \in outside => TooWide)
    BY <2>2 DEF PInv, ShapeInv, StageInv, DecodeInv
  <2> DEFINE bad == \/ Repacked(jpeg.width) # jpeg.width
                    \/ (row + n - 1) * width + Repacked(jpeg.width) > width * height
  <2>4. /\ row + n \in Nat /\ row + n <= height /\ (bad => TooWide)
        /\ (row + n = height /\ TooWide => bad)
    BY <2>2, DecodeOverrun DEF PInv
  <2>5. outside' = IF bad THEN outside \cup {"decode"} ELSE outside
    BY <2>1, <2>2
  <2>6. TooWide' <=> TooWide
    BY <2>2 DEF TooWide
  <2> HIDE DEF bad
  <2>7. ShapeInv' /\ StageInv'
    BY <2>1, <2>2, <2>3, <2>4, <2>5 DEF PInv, ShapeInv, StageInv
  <2>8. DecodeInv'
    BY <2>1, <2>2, <2>3, <2>4, <2>5, <2>6 DEF DecodeInv
  <2>9. DuplicateInv' /\ CopyInv'
    BY <2>1, <2>2, <2>3 DEF DuplicateInv, CopyInv
  <2> QED BY <2>7, <2>8, <2>9 DEF PInv
<1>2. CASE Decoded \/ DecodeFails
  <2>1. /\ stage = "decode" /\ row' = 0
        /\ \/ stage' = "convert" /\ row = height
           \/ stage' = "dropped"
        /\ UNCHANGED <<width, height, mode, jpeg, window, outside>>
    BY <1>2 DEF Decoded, DecodeFails, Enter
  <2>2. TooWide' <=> TooWide
    BY <2>1 DEF TooWide
  <2>3. ShapeInv' /\ StageInv'
    BY <2>1 DEF PInv, ShapeInv, StageInv
  <2>4. DecodeInv' /\ DuplicateInv' /\ CopyInv'
    BY <2>1, <2>2 DEF PInv, StageInv, DecodeInv, DuplicateInv, CopyInv
  <2> QED BY <2>3, <2>4 DEF PInv
<1> QED BY <1>1, <1>2

(* The conversion compares its pointers with the ends of both buffers. *)
LEMMA ConvertKeeps ==
  ASSUME PInv, ConvertRow \/ Converted PROVE PInv'
<1> USE DEF shape
<1>1. CASE ConvertRow
  <2> DEFINE starts == {row * width + c : c \in {c \in 0 .. width - 1 : c % 2 = 0}}
             groups == {s \in starts : Fits(s)}
  <2>1. /\ stage = "convert" /\ row < height /\ row' = row + 1 /\ stage' = stage
        /\ outside' = IF \E s \in groups : s + 1 >= width * height
                      THEN outside \cup {stage} ELSE outside
        /\ UNCHANGED <<width, height, mode, jpeg, window>>
    BY <1>1 DEF ConvertRow, Overrun, Rows
  <2>2. ASSUME NEW s \in groups PROVE ~ (s + 1 >= width * height)
    <3>1. row * width \in Nat /\ width * height \in Nat
      <4>1. \A x, y \in Nat : x * y \in Nat
        OBVIOUS
      <4> QED BY <4>1 DEF PInv, ShapeInv
    <3>2. s \in Int /\ s <= width * height - 2
      BY <3>1 DEF Fits, PInv, ShapeInv
    <3> QED BY <3>1, <3>2
  <2>3. outside' = outside
    BY <2>1, <2>2
  <2> HIDE DEF groups, starts
  <2>4. ShapeInv' /\ StageInv'
    BY <2>1, <2>3 DEF PInv, ShapeInv, StageInv
  <2>5. TooWide' <=> TooWide
    BY <2>1 DEF TooWide
  <2>6. DuplicateInv' /\ DecodeInv' /\ CopyInv'
    BY <2>1, <2>3, <2>5 DEF PInv, DuplicateInv, DecodeInv, CopyInv
  <2> QED BY <2>4, <2>6 DEF PInv
<1>2. CASE Converted
  <2>1. /\ stage = "convert" /\ row' = 0 /\ stage' \in {"copy", "dropped"}
        /\ UNCHANGED <<width, height, mode, jpeg, window, outside>>
    BY <1>2 DEF Converted, Enter
  <2>2. CopyHeight' = CopyHeight /\ (TooWide' <=> TooWide)
    BY <2>1 DEF CopyHeight, TooWide
  <2>3. ShapeInv' /\ StageInv'
    BY <2>1 DEF PInv, ShapeInv, StageInv
  <2>4. DuplicateInv' /\ DecodeInv'
    BY <2>1, <2>2 DEF PInv, DuplicateInv, DecodeInv
  <2>5. CopyInv'
    <3>1. CopyHeight \in Nat
      BY HeightOfCopy DEF PInv
    <3>2. CopyRows(CopyHeight) \in Nat /\ 0 <= CopyRows(CopyHeight)
      BY <3>1, RowsCopied
    <3>3. "copy" \notin outside /\ ~ (0 > CopyHeight)
      BY <2>1, <3>1 DEF PInv, StageInv
    <3> QED BY <2>1, <2>2, <3>2, <3>3 DEF CopyInv
  <2> QED BY <2>3, <2>4, <2>5 DEF PInv
<1> QED BY <1>1, <1>2

LEMMA CopyKeeps ==
  ASSUME PInv, CopyRow \/ Posted PROVE PInv'
<1> USE DEF shape
<1>1. /\ CopyHeight \in Nat /\ row \in Nat
      /\ row >= height \/ row >= window.height <=> row >= CopyHeight
  BY HeightOfCopy DEF PInv, ShapeInv
<1>2. /\ CopyRows(CopyHeight) \in Nat /\ CopyRows(CopyHeight) >= CopyHeight
      /\ CopyRows(CopyHeight) > CopyHeight <=> CopyHeight % 8 # 0
  BY <1>1, RowsCopied
<1>3. CASE CopyRow
  <2>1. /\ stage = "copy" /\ row < CopyRows(CopyHeight) /\ row' = row + 1 /\ stage' = stage
        /\ outside' = IF row >= height \/ row >= window.height
                      THEN outside \cup {stage} ELSE outside
        /\ UNCHANGED <<width, height, mode, jpeg, window>>
    BY <1>3 DEF CopyRow, Overrun, Rows
  <2>2. CopyHeight' = CopyHeight /\ (TooWide' <=> TooWide)
    BY <2>1 DEF CopyHeight, TooWide
  <2>3. ShapeInv' /\ StageInv'
    BY <2>1 DEF PInv, ShapeInv, StageInv
  <2>4. DuplicateInv' /\ DecodeInv'
    BY <2>1, <2>2 DEF PInv, DuplicateInv, DecodeInv
  <2>5. "copy" \in outside <=> row > CopyHeight
    BY <2>1 DEF PInv, CopyInv
  <2>6. row' <= CopyRows(CopyHeight) /\ ("copy" \in outside' <=> row' > CopyHeight)
    BY <1>1, <1>2, <2>1, <2>5
  <2>7. CopyInv'
    BY <2>1, <2>2, <2>6 DEF CopyInv
  <2> QED BY <2>3, <2>4, <2>7 DEF PInv
<1>4. CASE Posted
  <2>1. /\ stage = "copy" /\ row = CopyRows(CopyHeight) /\ row' = 0 /\ stage' = "posted"
        /\ UNCHANGED <<width, height, mode, jpeg, window, outside>>
    BY <1>4 DEF Posted, Enter
  <2>2. CopyHeight' = CopyHeight /\ (TooWide' <=> TooWide)
    BY <2>1 DEF CopyHeight, TooWide
  <2>3. ShapeInv' /\ StageInv'
    BY <2>1 DEF PInv, ShapeInv, StageInv
  <2>4. DuplicateInv' /\ DecodeInv'
    BY <2>1, <2>2 DEF PInv, DuplicateInv, DecodeInv
  <2>5. CopyInv'
    BY <1>2, <2>1, <2>2 DEF PInv, CopyInv
  <2> QED BY <2>3, <2>4, <2>5 DEF PInv
<1> QED BY <1>3, <1>4

LEMMA PixelsInvariant == Spec => []PInv
<1>1. PInv /\ [Next]_vars => PInv'
  <2> SUFFICES ASSUME PInv, [Next]_vars PROVE PInv'
    OBVIOUS
  <2>1. CASE Next
    BY <2>1, DuplicateKeeps, DecodeKeeps, ConvertKeeps, CopyKeeps DEF Next
  <2>2. CASE UNCHANGED vars
    <3>1. CopyHeight' = CopyHeight /\ (TooWide' <=> TooWide)
      BY <2>2 DEF vars, shape, CopyHeight, TooWide
    <3>2. ShapeInv' /\ StageInv' /\ DuplicateInv'
      BY <2>2 DEF vars, shape, PInv, ShapeInv, StageInv, DuplicateInv
    <3>3. DecodeInv' /\ CopyInv'
      BY <2>2, <3>1 DEF vars, shape, PInv, DecodeInv, CopyInv
    <3> QED BY <3>2, <3>3 DEF PInv
  <2> QED BY <2>1, <2>2
<1> QED BY <1>1, PixelsInit, PTL DEF Spec

-----------------------------------------------------------------------------
(* OverrunsWhenUnaligned for pictures and windows of any size: uvc_duplicate_frame,
   uvc_mjpeg2yuyv and copyFrame leave their buffers exactly when a height or a width
   is no multiple of the group they work in, or the JPEG is wider than the frame, and
   uvc_yuyv2rgbx never does. *)
THEOREM OverrunsExactlyWhenUnaligned == Spec => []OverrunsWhenUnaligned
<1>1. PInv => OverrunsWhenUnaligned
  BY DEF PInv, ShapeInv, StageInv, DuplicateInv, DecodeInv, CopyInv, TooWide, OverrunsWhenUnaligned
<1> QED BY <1>1, PixelsInvariant, PTL

-----------------------------------------------------------------------------
(* The picture, cell by cell. *)

Columns == Smaller(width, jpeg.width)

(* The first n rows of the picture are in the frame, as far as the JPEG goes. *)
HasRows(frame, n) ==
  \A r \in 0 .. n - 1, c \in 0 .. Columns - 1 : frame[r * width + c] = <<r, c>>

(* The cell the conversion leaves. *)
LeftOver(r, c) == width % 2 = 1 /\ r = height - 1 /\ c = width - 1

BufferInv ==
  /\ DOMAIN yuyv = 0 .. width * height - 1 /\ DOMAIN rgbx = 0 .. width * height - 1
  /\ DOMAIN bits = 0 .. window.stride * window.height - 1
  /\ window.stride \in Nat /\ window.width <= window.stride

YuyvInv ==
  /\ stage \in {"duplicate", "decode"} => HasRows(yuyv, Smaller(row, height))
  /\ stage \in {"convert", "copy", "posted"} => HasRows(yuyv, height)

RgbxInv ==
  \A r \in 0 .. height - 1, c \in 0 .. width - 1 :
    (stage = "convert" /\ r < row) \/ stage \in {"copy", "posted"} =>
      rgbx[r * width + c] = yuyv[r * width + c] \/ LeftOver(r, c)

BitsInv ==
  \A r \in 0 .. CopyHeight - 1, c \in 0 .. CopyWidth - 1 :
    (stage = "copy" /\ r < row) \/ stage = "posted" =>
      bits[r * window.stride + c] = rgbx[r * width + c]

PictureInv == BufferInv /\ YuyvInv /\ RgbxInv /\ BitsInv

(* Where a cell lies in a buffer of rows of w cells. *)
LEMMA CellOffset ==
  ASSUME NEW w \in Nat, NEW r \in Nat, NEW c \in 0 .. w - 1, NEW n \in Nat
  PROVE  /\ r * w + c \in Nat /\ n * w \in Nat
         /\ r < n => r * w + c < n * w
         /\ n <= r => n * w <= r * w + c
<1>1. \A x, y \in Nat : x * y \in Nat
  OBVIOUS
<1>2. r * w \in Nat /\ n * w \in Nat
  BY <1>1
<1>3. ASSUME r < n PROVE r * w + c < n * w
  <2>1. r + 1 \in Nat /\ r + 1 <= n
    BY <1>3
  <2>2. (r + 1) * w <= n * w
    BY <2>1, RowsFit
  <2>3. (r + 1) * w = r * w + w
    OBVIOUS
  <2> QED BY <1>2, <2>2, <2>3
<1>4. ASSUME n <= r PROVE n * w <= r * w + c
  <2>1. n * w <= r * w
    BY <1>4, RowsFit
  <2> QED BY <1>2, <2>1
<1> QED BY <1>2, <1>3, <1>4

(* A cell of a picture is in the buffer of the picture. *)
LEMMA CellInside ==
  ASSUME NEW w \in Nat, NEW h \in Nat, NEW r \in 0 .. h - 1, NEW c \in 0 .. w - 1
  PROVE  r * w + c \in 0 .. w * h - 1
<1>1. r * w + c \in Nat /\ h * w \in Nat /\ r * w + c < h * w
  BY CellOffset
<1>2. w * h = h * w
  OBVIOUS
<1> QED BY <1>1, <1>2

(* Two cells with one offset are one cell. *)
LEMMA CellUnique ==
  ASSUME NEW w \in Nat \ {0}, NEW r \in Nat, NEW c \in 0 .. w - 1
  PROVE  (r * w + c) \div w = r /\ (r * w + c) % w = c
<1> DEFINE o == r * w + c
           p == o \div w
           m == o % w
<1>1. o \in Nat
  BY CellOffset
<1>2. p \in Int /\ m \in 0 .. w - 1 /\ o = w * p + m
  BY <1>1
<1>3. w * (p - r) = c - m
  <2>1. w * r = r * w
    OBVIOUS
  <2> QED BY <1>2, <2>1
<1> HIDE DEF p, m, o
<1>4. CASE p > r
  <2>1. w * (p - r) >= w * 1
    BY <1>2, <1>4
  <2> QED BY <1>2, <1>3, <2>1
<1>5. CASE p < r
  <2>1. w * (p - r) <= w * (-1)
    BY <1>2, <1>5
  <2> QED BY <1>2, <1>3, <2>1
<1>6. CASE p = r
  BY <1>2, <1>3, <1>6 DEF p, m, o
<1> QED BY <1>2, <1>4, <1>5, <1>6

(* The invariant, from the first state ... *)
LEMMA PictureInit == Init => PictureInv
<1> SUFFICES ASSUME Init PROVE PictureInv
  OBVIOUS
<1>1. /\ width \in Nat \ {0} /\ height \in Nat \ {0} /\ row = 0
      /\ stage \in {"duplicate", "decode"}
  BY PixelsAssumption DEF Init
<1>2. BufferInv
  BY PixelsAssumption DEF Init, BufferInv, Untouched
<1>3. YuyvInv
  <2>1. Smaller(row, height) = 0
    BY <1>1 DEF Smaller
  <2> QED BY <1>1, <2>1 DEF YuyvInv, HasRows
<1>4. RgbxInv /\ BitsInv
  BY <1>1 DEF RgbxInv, BitsInv
<1> QED BY <1>2, <1>3, <1>4 DEF PictureInv

(* ... over the rows of uvc_duplicate_frame ... *)
LEMMA DuplicatePicture ==
  ASSUME PInv, PictureInv, DuplicateRows PROVE PictureInv'
<1>1. /\ stage = "duplicate" /\ row < height /\ row' = row + 4 /\ stage' = stage
      /\ UNCHANGED <<width, height, mode, jpeg, window, rgbx, bits>>
      /\ yuyv' = [o \in DOMAIN yuyv |->
                    IF o \in row * width .. (row + 4) * width - 1
                    THEN <<o \div width, o % width>> ELSE yuyv[o]]
  BY DEF DuplicateRows, Rows, shape, Written
<1>2. width \in Nat \ {0} /\ height \in Nat \ {0} /\ row \in Nat /\ jpeg.width \in Nat
  BY DEF PInv, ShapeInv
<1>3. BufferInv' /\ RgbxInv' /\ BitsInv'
  BY <1>1 DEF PictureInv, BufferInv, RgbxInv, BitsInv
<1>4. HasRows(yuyv', Smaller(row + 4, height))
  <2> SUFFICES ASSUME NEW r \in 0 .. Smaller(row + 4, height) - 1, NEW c \in 0 .. Columns - 1
               PROVE  yuyv'[r * width + c] = <<r, c>>
    BY DEF HasRows
  <2>1. r \in Nat /\ r < row + 4 /\ r \in 0 .. height - 1 /\ c \in 0 .. width - 1
    BY <1>2 DEF Smaller, Columns
  <2>2. r * width + c \in DOMAIN yuyv
    BY <1>2, <2>1, CellInside DEF PictureInv, BufferInv
  <2>3. CASE r < row
    <3>1. r * width + c < row * width /\ row * width \in Nat /\ r * width + c \in Nat
      BY <1>2, <2>1, <2>3, CellOffset
    <3>2. yuyv'[r * width + c] = yuyv[r * width + c]
      BY <1>1, <2>2, <3>1
    <3>3. r \in 0 .. Smaller(row, height) - 1
      BY <1>2, <2>1, <2>3 DEF Smaller
    <3> QED BY <1>1, <3>2, <3>3 DEF PictureInv, YuyvInv, HasRows
  <2>4. CASE row <= r
    <3>1. row * width <= r * width + c /\ r * width + c \in Nat /\ row * width \in Nat
      BY <1>2, <2>1, <2>4, CellOffset
    <3>2. row + 4 \in Nat
      BY <1>2
    <3>3. r * width + c < (row + 4) * width /\ (row + 4) * width \in Nat
      BY <1>2, <2>1, <3>2, CellOffset
    <3>4. r * width + c \in row * width .. (row + 4) * width - 1
      BY <3>1, <3>3
    <3>5. (r * width + c) \div width = r /\ (r * width + c) % width = c
      BY <1>2, <2>1, CellUnique
    <3> QED BY <1>1, <2>2, <3>4, <3>5
  <2> QED BY <1>2, <2>1, <2>3, <2>4
<1>5. YuyvInv'
  BY <1>1, <1>4 DEF YuyvInv, HasRows, Columns
<1> QED BY <1>3, <1>5 DEF PictureInv

(* The cells of n rows of v cells, written w apart, that come to offset o, and the one
   written last. *)
CellSources(w, first, n, v, o) ==
  {rc \in (first .. first + n - 1) \X (0 .. v - 1) : rc[1] * w + rc[2] = o}

LastOf(S) == CHOOSE rc \in S : \A q \in S : q[1] <= rc[1]

(* Among the sources of a cell of rows that were read is the cell itself, and every
   other one is of an earlier row. *)
LEMMA SourceOfCell ==
  ASSUME NEW w \in Nat \ {0}, NEW r \in Nat, NEW c \in 0 .. w - 1,
         NEW first \in Nat, NEW n \in Nat, NEW v \in Nat
  PROVE  /\ r < first => CellSources(w, first, n, v, r * w + c) = {}
         /\ r \in first .. first + n - 1 /\ c < v =>
              /\ <<r, c>> \in CellSources(w, first, n, v, r * w + c)
              /\ LastOf(CellSources(w, first, n, v, r * w + c)) = <<r, c>>
<1> DEFINE S == CellSources(w, first, n, v, r * w + c)
<1>1. \A q \in S : /\ q \in (first .. first + n - 1) \X (0 .. v - 1)
                   /\ q[1] * w + q[2] = r * w + c
                   /\ q[1] \in Nat /\ q[2] \in Nat /\ first <= q[1]
                   /\ q = <<q[1], q[2]>>
  BY DEF CellSources
<1>0. r \in first .. first + n - 1 /\ c < v => <<r, c>> \in S
  BY DEF CellSources
<1> HIDE DEF S
<1>2. ASSUME NEW q \in S PROVE q[1] <= r
  <2> DEFINE i == q[1]
             j == q[2]
  <2>1. i \in Nat /\ j \in Nat /\ i * w + j = r * w + c
    BY <1>1
  <2> HIDE DEF i, j
  <2> SUFFICES ASSUME r < i PROVE FALSE
    BY <2>1 DEF i
  <2>2. r * w + c < i * w /\ i * w \in Nat
    BY <2>1, CellOffset
  <2> QED BY <2>1, <2>2
<1>3. r < first => S = {}
  BY <1>1, <1>2
<1>4. ASSUME r \in first .. first + n - 1, c < v
      PROVE  <<r, c>> \in S /\ LastOf(S) = <<r, c>>
  <2>1. <<r, c>> \in S
    BY <1>0, <1>4
  <2>2. LastOf(S) \in S /\ \A q \in S : q[1] <= LastOf(S)[1]
    <3>1. \A q \in S : q[1] <= <<r, c>>[1]
      BY <1>2
    <3> QED BY <2>1, <3>1 DEF LastOf
  <2> DEFINE i == LastOf(S)[1]
             j == LastOf(S)[2]
  <2>3. i \in Nat /\ j \in Nat /\ i * w + j = r * w + c /\ LastOf(S) = <<i, j>>
    BY <1>1, <2>2
  <2>4. i <= r /\ r <= i
    BY <1>2, <2>1, <2>2
  <2> HIDE DEF i, j
  <2>5. i = r
    BY <2>3, <2>4
  <2>6. r * w \in Nat
    BY CellOffset
  <2>7. j = c
    BY <2>3, <2>5, <2>6
  <2> QED BY <2>1, <2>3, <2>5, <2>7
<1> QED BY <1>3, <1>4 DEF S

(* ... of uvc_mjpeg2yuyv ... *)
LEMMA DecodePicture ==
  ASSUME PInv, PictureInv, DecodeRows PROVE PictureInv'
<1> DEFINE v == Repacked(jpeg.width)
           Source(n, o) == CellSources(width, row, n, v, o)
           latest(n, o) == LastOf(Source(n, o))
<1>1. PICK n \in 1 .. Smaller(MAX_READLINE, height - row) :
        /\ row' = row + n
        /\ yuyv' = [o \in DOMAIN yuyv |->
                      IF o \in {x \in DOMAIN yuyv : Source(n, x) # {}}
                      THEN IF latest(n, o)[2] < jpeg.width THEN latest(n, o) ELSE Stale
                      ELSE yuyv[o]]
  BY DEF DecodeRows, Rows, Written, CellSources, LastOf
<1>2. /\ stage = "decode" /\ row < height /\ stage' = stage
      /\ UNCHANGED <<width, height, mode, jpeg, window, rgbx, bits>>
  BY DEF DecodeRows, Rows, shape
<1>3. width \in Nat \ {0} /\ height \in Nat \ {0} /\ row \in Nat /\ jpeg.width \in Nat
  BY DEF PInv, ShapeInv
<1>4. n \in Nat /\ row + n <= height /\ v \in Nat /\ jpeg.width <= v
  BY <1>3 DEF Smaller, MAX_READLINE, Repacked
<1>5. BufferInv' /\ RgbxInv' /\ BitsInv'
  BY <1>1, <1>2 DEF PictureInv, BufferInv, RgbxInv, BitsInv
<1> HIDE DEF v
<1>6. HasRows(yuyv', row + n)
  <2> SUFFICES ASSUME NEW r \in 0 .. (row + n) - 1, NEW c \in 0 .. Columns - 1
               PROVE  yuyv'[r * width + c] = <<r, c>>
    BY DEF HasRows
  <2> DEFINE o == r * width + c
  <2>1. r \in Nat /\ r \in 0 .. height - 1 /\ c \in 0 .. width - 1 /\ c < jpeg.width /\ c < v
    BY <1>3, <1>4 DEF Smaller, Columns
  <2>2. o \in DOMAIN yuyv
    BY <1>3, <2>1, CellInside DEF PictureInv, BufferInv
  <2>3. /\ r < row => Source(n, o) = {}
        /\ r \in row .. row + n - 1 =>
             <<r, c>> \in Source(n, o) /\ latest(n, o) = <<r, c>>
    <3> DEFINE w == width
               first == row
    <3>1. w \in Nat \ {0} /\ r \in Nat /\ c \in 0 .. w - 1 /\ first \in Nat /\ n \in Nat /\ v \in Nat
      BY <1>3, <1>4, <2>1
    <3> HIDE DEF w, first
    <3>2. /\ r < first => CellSources(w, first, n, v, r * w + c) = {}
          /\ r \in first .. first + n - 1 /\ c < v =>
               /\ <<r, c>> \in CellSources(w, first, n, v, r * w + c)
               /\ LastOf(CellSources(w, first, n, v, r * w + c)) = <<r, c>>
      BY <3>1, SourceOfCell
    <3> QED BY <2>1, <3>2 DEF w, first
  <2>4. CASE r < row
    <3>1. yuyv'[o] = yuyv[o]
      BY <1>1, <2>2, <2>3, <2>4
    <3>2. r \in 0 .. Smaller(row, height) - 1
      BY <1>2, <1>3, <2>1, <2>4 DEF Smaller
    <3> QED BY <1>2, <3>1, <3>2 DEF PictureInv, YuyvInv, HasRows
  <2>5. CASE r \in row .. row + n - 1
    <3>1. <<r, c>> \in Source(n, o) /\ latest(n, o) = <<r, c>>
      BY <2>3, <2>5
    <3> HIDE DEF latest, Source, o
    <3>3. yuyv'[o] = <<r, c>>
      BY <1>1, <2>1, <2>2, <3>1
    <3> QED BY <3>3 DEF o
  <2> QED BY <1>3, <1>4, <2>4, <2>5
<1>7. Smaller(row', height') = row + n
  BY <1>1, <1>2, <1>3, <1>4 DEF Smaller
<1>8. YuyvInv'
  BY <1>2, <1>6, <1>7 DEF YuyvInv, HasRows, Columns
<1> QED BY <1>5, <1>8 DEF PictureInv

(* The function that follows has the frame as the one before left it. *)
LEMMA EnterPicture ==
  ASSUME PInv, PictureInv,
         Duplicated \/ Decoded \/ DecodeFails \/ Converted \/ Posted
  PROVE  PictureInv'
<1>1. /\ UNCHANGED <<width, height, mode, jpeg, window, yuyv, rgbx, bits>> /\ row' = 0
  BY DEF Duplicated, Decoded, DecodeFails, Converted, Posted, Enter, shape
<1>2. row \in Nat /\ height \in Nat
  BY DEF PInv, ShapeInv
<1>3. BufferInv'
  BY <1>1 DEF PictureInv, BufferInv
<1>4. CopyHeight' = CopyHeight /\ CopyWidth' = CopyWidth /\ Columns' = Columns
  BY <1>1 DEF CopyHeight, CopyWidth, Columns
<1>5. CASE stage' = "dropped"
  BY <1>3, <1>5 DEF PictureInv, YuyvInv, RgbxInv, BitsInv
<1>6. CASE Duplicated \/ Decoded
  <2>1. stage \in {"duplicate", "decode"} /\ stage' = "convert" /\ row >= height
    BY <1>2, <1>6 DEF Duplicated, Decoded, Enter
  <2>2. Smaller(row, height) = height
    BY <1>2, <2>1 DEF Smaller
  <2>3. YuyvInv'
    BY <1>1, <1>4, <2>1, <2>2 DEF PictureInv, YuyvInv, HasRows
  <2>4. RgbxInv' /\ BitsInv'
    BY <1>1, <2>1 DEF RgbxInv, BitsInv
  <2> QED BY <1>3, <2>3, <2>4 DEF PictureInv
<1>7. CASE Converted /\ stage' = "copy"
  <2>1. stage = "convert" /\ row = height
    BY <1>7 DEF Converted
  <2>2. YuyvInv'
    BY <1>1, <1>4, <1>7, <2>1 DEF PictureInv, YuyvInv, HasRows
  <2>3. RgbxInv'
    <3> SUFFICES ASSUME NEW r \in 0 .. height - 1, NEW c \in 0 .. width - 1
                 PROVE  rgbx[r * width + c] = yuyv[r * width + c] \/ LeftOver(r, c)
      BY <1>1 DEF RgbxInv, LeftOver
    <3>1. r < row
      BY <1>2, <2>1
    <3> QED BY <2>1, <3>1 DEF PictureInv, RgbxInv
  <2>4. BitsInv'
    BY <1>1, <1>7 DEF BitsInv
  <2> QED BY <1>3, <2>2, <2>3, <2>4 DEF PictureInv
<1>8. CASE Posted
  <2>1. stage = "copy" /\ row = CopyRows(CopyHeight) /\ stage' = "posted"
    BY <1>8 DEF Posted, Enter
  <2>2. row >= CopyHeight /\ CopyHeight \in Nat
    BY <2>1, HeightOfCopy, RowsCopied DEF PInv
  <2>3. YuyvInv' /\ RgbxInv'
    BY <1>1, <1>4, <2>1 DEF PictureInv, YuyvInv, HasRows, RgbxInv, LeftOver
  <2>4. BitsInv'
    <3> SUFFICES ASSUME NEW r \in 0 .. CopyHeight - 1, NEW c \in 0 .. CopyWidth - 1
                 PROVE  bits[r * window.stride + c] = rgbx[r * width + c]
      BY <1>1, <1>4 DEF BitsInv
    <3>1. r < row
      BY <1>2, <2>2
    <3> QED BY <2>1, <3>1 DEF PictureInv, BitsInv
  <2> QED BY <1>3, <2>3, <2>4 DEF PictureInv
<1> QED BY <1>5, <1>6, <1>7, <1>8 DEF DecodeFails, Converted, Enter

LEMMA NextBelow ==
  ASSUME NEW i \in Nat, NEW j \in Nat, i < j, ~(i <= j - 2) PROVE i = j - 1
OBVIOUS

LEMMA OneLess ==
  ASSUME NEW i \in Nat, NEW j \in Nat, NEW k \in Nat, i + k < j, NEW l \in Int, l = k - 1
  PROVE  i + l <= j - 2
OBVIOUS

(* ... of uvc_yuyv2rgbx ... *)
LEMMA ConvertPicture ==
  ASSUME PInv, PictureInv, ConvertRow PROVE PictureInv'
<1> DEFINE starts == {row * width + c : c \in {c \in 0 .. width - 1 : c % 2 = 0}}
           groups == {s \in starts : Fits(s)}
           cells == groups \cup {s + 1 : s \in groups}
<1>1. /\ stage = "convert" /\ row < height /\ row' = row + 1 /\ stage' = stage
      /\ UNCHANGED <<width, height, mode, jpeg, window, yuyv, bits>>
      /\ rgbx' = [o \in DOMAIN rgbx |-> IF o \in cells THEN yuyv[o] ELSE rgbx[o]]
  BY DEF ConvertRow, Rows, shape, Written
<1>2. width \in Nat \ {0} /\ height \in Nat \ {0} /\ row \in Nat /\ jpeg.width \in Nat
  BY DEF PInv, ShapeInv
<1>3. BufferInv' /\ BitsInv'
  BY <1>1 DEF PictureInv, BufferInv, BitsInv
<1>4. YuyvInv'
  BY <1>1 DEF PictureInv, YuyvInv, HasRows, Columns
<1>5. ASSUME NEW c \in 0 .. width - 1, row * width + c \notin cells
      PROVE  LeftOver(row, c)
  <2>1. /\ row * width \in Nat /\ row * width + c \in Nat /\ c \in Nat
        /\ height * width \in Nat /\ row * width + c < height * width /\ height * width = width * height
    BY <1>1, <1>2, CellOffset
  <2>2. CASE c % 2 = 0
    <3>1. row * width + c \in starts
      BY <2>2
    <3>2. ~Fits(row * width + c)
      BY <1>5, <3>1
    <3>3. row * width + c = height * width - 1
      <4>1. ~(row * width + c <= height * width - 2)
        BY <2>1, <3>2 DEF Fits
      <4> QED BY <2>1, <4>1, NextBelow
    <3>4. c = width - 1 /\ row = height - 1
      <4> DEFINE k == height - 1
      <4>1. k \in Nat /\ width - 1 \in 0 .. width - 1 /\ width \in Nat
        BY <1>2
      <4>2. k * width + (width - 1) = height * width - 1
        BY <1>2
      <4> HIDE DEF k
      <4>3. (row * width + c) \div width = row /\ (row * width + c) % width = c
        BY <1>2, CellUnique
      <4>4. (k * width + (width - 1)) \div width = k
            /\ (k * width + (width - 1)) % width = width - 1
        BY <1>2, <4>1, CellUnique
      <4> QED BY <3>3, <4>2, <4>3, <4>4 DEF k
    <3> QED BY <1>2, <2>2, <3>4 DEF LeftOver
  <2>3. CASE c % 2 # 0
    <3>1. c - 1 \in 0 .. width - 1 /\ (c - 1) % 2 = 0
      BY <1>2, <2>3
    <3>2. row * width + (c - 1) \in starts
      BY <3>1
    <3>3. Fits(row * width + (c - 1))
      <4>1. row * width + (c - 1) <= height * width - 2
        BY <2>1, <3>1, OneLess
      <4> QED BY <2>1, <4>1 DEF Fits
    <3>4. row * width + (c - 1) \in groups /\ (row * width + (c - 1)) + 1 = row * width + c
      BY <2>1, <3>1, <3>2, <3>3
    <3> HIDE DEF groups
    <3>5. row * width + c \in cells
      BY <3>4
    <3> QED BY <1>5, <3>5
  <2> QED BY <2>2, <2>3
<1> HIDE DEF cells
<1>6. RgbxInv'
  <2> SUFFICES ASSUME NEW r \in 0 .. height - 1, NEW c \in 0 .. width - 1, r < row + 1
               PROVE  rgbx'[r * width + c] = yuyv[r * width + c] \/ LeftOver(r, c)
    BY <1>1 DEF RgbxInv, LeftOver
  <2>1. r * width + c \in DOMAIN rgbx
    BY <1>2, CellInside DEF PictureInv, BufferInv
  <2>2. CASE r = row
    BY <1>1, <1>5, <2>1, <2>2
  <2>3. CASE r < row
    BY <1>1, <2>1, <2>3 DEF PictureInv, RgbxInv
  <2> QED BY <1>2, <2>2, <2>3
<1> QED BY <1>3, <1>4, <1>6 DEF PictureInv

(* ... and of copyFrame. *)
LEMMA CopyPicture ==
  ASSUME PInv, PictureInv, CopyRow PROVE PictureInv'
<1> DEFINE From(o) == row * width + o - row * window.stride
<1>1. /\ stage = "copy" /\ row' = row + 1 /\ stage' = stage
      /\ UNCHANGED <<width, height, mode, jpeg, window, yuyv, rgbx>>
      /\ bits' = [o \in DOMAIN bits |->
                    IF o \in row * window.stride .. row * window.stride + CopyWidth - 1
                    THEN IF From(o) \in DOMAIN rgbx THEN rgbx[From(o)] ELSE Stale
                    ELSE bits[o]]
  BY DEF CopyRow, Rows, shape, Written
<1>2. /\ width \in Nat \ {0} /\ height \in Nat \ {0} /\ row \in Nat /\ jpeg.width \in Nat
      /\ window.width \in Nat /\ window.height \in Nat /\ window.stride \in Nat
      /\ window.width <= window.stride
  BY DEF PInv, ShapeInv, PictureInv, BufferInv
<1>3. BufferInv'
  BY <1>1 DEF PictureInv, BufferInv
<1>4. YuyvInv' /\ RgbxInv'
  BY <1>1 DEF PictureInv, YuyvInv, HasRows, Columns, RgbxInv, LeftOver
<1>5. BitsInv'
  <2> SUFFICES ASSUME NEW r \in 0 .. CopyHeight - 1, NEW c \in 0 .. CopyWidth - 1, r < row + 1
               PROVE  bits'[r * window.stride + c] = rgbx[r * width + c]
    BY <1>1 DEF BitsInv, CopyHeight, CopyWidth
  <2> DEFINE o == r * window.stride + c
  <2>1. /\ r \in Nat /\ r \in 0 .. height - 1 /\ r \in 0 .. window.height - 1
        /\ c \in 0 .. width - 1 /\ c \in 0 .. window.stride - 1 /\ CopyWidth \in Nat
        /\ c < CopyWidth /\ CopyWidth <= window.stride
    BY <1>2 DEF CopyHeight, CopyWidth, Smaller
  <2>2. o \in DOMAIN bits
    BY <1>2, <2>1, CellInside DEF PictureInv, BufferInv
  <2>3. CASE r = row
    <3>1. row * window.stride \in Nat /\ row * width \in Nat
      BY <1>2, <2>1, CellOffset
    <3>2. o \in row * window.stride .. row * window.stride + CopyWidth - 1
      BY <2>1, <2>3, <3>1
    <3>3. From(o) = r * width + c
      BY <2>1, <2>3, <3>1
    <3>4. r * width + c \in DOMAIN rgbx
      BY <1>2, <2>1, CellInside DEF PictureInv, BufferInv
    <3> HIDE DEF o, From
    <3>5. bits'[o] = rgbx[r * width + c]
      BY <1>1, <2>2, <3>2, <3>3, <3>4
    <3> QED BY <3>5 DEF o
  <2>4. CASE r < row
    <3>1. o < row * window.stride /\ row * window.stride \in Nat /\ o \in Nat
      BY <1>2, <2>1, <2>4, CellOffset
    <3>2. o \notin row * window.stride .. row * window.stride + CopyWidth - 1
      BY <3>1
    <3> HIDE DEF o
    <3>3. bits'[o] = bits[o]
      BY <1>1, <2>2, <3>2
    <3> QED BY <1>1, <2>4, <3>3 DEF o, PictureInv, BitsInv
  <2>5. r = row \/ r < row
    BY <1>2, <2>1
  <2> QED BY <2>3, <2>4, <2>5
<1> QED BY <1>3, <1>4, <1>5 DEF PictureInv

LEMMA PictureInvariance == Spec => []PictureInv
<1>1. PInv /\ PictureInv /\ [Next]_vars => PictureInv'
  <2> SUFFICES ASSUME PInv, PictureInv, [Next]_vars PROVE PictureInv'
    OBVIOUS
  <2>1. CASE Next
    BY <2>1, DuplicatePicture, DecodePicture, ConvertPicture, CopyPicture, EnterPicture DEF Next
  <2>2. CASE UNCHANGED vars
    BY <2>2 DEF vars, shape, PictureInv, BufferInv, YuyvInv, HasRows, Columns, RgbxInv, LeftOver,
                BitsInv, CopyHeight, CopyWidth
  <2> QED BY <2>1, <2>2
<1> QED BY <1>1, PixelsInvariant, PictureInit, PTL DEF Spec

(* PictureIsWhole for pictures and windows of any size: a cell that is posted shows
   what the camera sent for it and nothing a recycled buffer held before, except the
   columns a narrow JPEG leaves and the last cell of an odd number of them. *)
THEOREM WhatIsPostedIsThePicture == Spec => []PictureIsWhole
<1>1. PInv /\ PictureInv => PictureIsWhole
  <2> SUFFICES ASSUME PInv, PictureInv, stage = "posted",
                      NEW r \in 0 .. CopyHeight - 1,
                      NEW c \in 0 .. Smaller(CopyWidth, jpeg.width) - 1
               PROVE  bits[r * window.stride + c] = <<r, c>> \/ LeftOver(r, c)
    BY DEF PictureIsWhole, LeftOver
  <2>1. /\ r \in 0 .. height - 1 /\ c \in 0 .. CopyWidth - 1
        /\ c \in 0 .. Columns - 1 /\ c \in 0 .. width - 1
    BY DEF PInv, ShapeInv, CopyHeight, CopyWidth, Columns, Smaller
  <2>2. bits[r * window.stride + c] = rgbx[r * width + c]
    BY <2>1 DEF PictureInv, BitsInv
  <2>3. rgbx[r * width + c] = yuyv[r * width + c] \/ LeftOver(r, c)
    BY <2>1 DEF PictureInv, RgbxInv
  <2>4. yuyv[r * width + c] = <<r, c>>
    BY <2>1 DEF PictureInv, YuyvInv, HasRows
  <2> QED BY <2>2, <2>3, <2>4
<1> QED BY <1>1, PixelsInvariant, PictureInvariance, PTL
=============================================================================
