------------------------------- MODULE Pixels -------------------------------
(***************************************************************************)
(* One picture on its way through doPreview: uvc_duplicate_frame in the      *)
(* callback of the stream, uvc_mjpeg2yuyv when it is compressed,             *)
(* uvc_any2rgbx, which is uvc_yuyv2rgbx, and copyToSurface.  Each of these   *)
(* loops over rows, in groups of four or eight pixels or rows, through       *)
(* buffers that hold whatever they were used for before.                     *)
(*                                                                         *)
(* The unit of a width is a cell of four pixels, so that a group of eight    *)
(* pixels is two cells; a buffer is a function of offsets in cells, and a    *)
(* cell holds the row and the column of the picture it shows.                *)
(***************************************************************************)
EXTENDS Integers, Sequences, FiniteSets

CONSTANTS
  Widths,    \* of a frame, in cells
  Heights,   \* of a frame, in rows
  Surfaces,  \* [width, height, stride] of the window
  Stale      \* what a cell holds that was not written

ASSUME PixelsAssumption ==
  /\ Widths \subseteq Nat \ {0} /\ Heights \subseteq Nat \ {0}
  /\ \A s \in Surfaces : s.width \in Nat /\ s.height \in Nat /\ s.stride \in Nat /\ s.width <= s.stride

VARIABLES
  width, height,  \* frameWidth, frameHeight
  mode,           \* frameMode
  jpeg,           \* the size in the JPEG header, which need not be that of the frame
  window,         \* buffer of ANativeWindow_lock
  stage,          \* the function that runs
  row,            \* its loop variable: rows done
  yuyv,           \* data of the YUYV frame
  rgbx,           \* data of the converted frame
  bits,           \* data of the window
  outside         \* functions that read or wrote beyond a buffer

shape == <<width, height, mode, jpeg, window>>
vars  == <<shape, stage, row, yuyv, rgbx, bits, outside>>

Smaller(a, b) == IF a < b THEN a ELSE b

Untouched(size) == [o \in 0 .. size - 1 |-> Stale]

Init ==
  /\ width \in Widths /\ height \in Heights
  /\ mode \in {"yuyv", "mjpeg"} /\ window \in Surfaces
  /\ \/ mode = "yuyv" /\ jpeg = [width |-> width, height |-> height]
     \/ mode = "mjpeg" /\ jpeg \in [width : {width - 1, width, width + 1},
                                   height : {height, height + 1}]
  /\ stage = (IF mode = "yuyv" THEN "duplicate" ELSE "decode") /\ row = 0
  /\ yuyv = Untouched(width * height) /\ rgbx = Untouched(width * height)
  /\ bits = Untouched(window.stride * window.height)
  /\ outside = {}

(* The next function begins with its first row. *)
Enter(s) == stage' = s /\ row' = 0

(* A function that goes on with row r. *)
Rows(r) == row' = r /\ UNCHANGED stage

Overrun(bad) == outside' = IF bad THEN outside \cup {stage} ELSE outside

(* Cells of `to` that lie in `offsets` get what value says. *)
Written(to, offsets, value(_)) ==
  [o \in DOMAIN to |-> IF o \in offsets THEN value(o) ELSE to[o]]

-----------------------------------------------------------------------------
(* uvc_duplicate_frame: four rows at a time, as long as there is a row left. *)
DuplicateRows ==
  /\ stage = "duplicate" /\ row < height
  /\ yuyv' = Written(yuyv, row * width .. (row + 4) * width - 1,
                     LAMBDA o : <<o \div width, o % width>>)
  /\ Overrun(row + 4 > height)
  /\ Rows(row + 4)
  /\ UNCHANGED <<shape, rgbx, bits>>

Duplicated ==
  /\ stage = "duplicate" /\ row >= height
  /\ Enter("convert")
  /\ UNCHANGED <<shape, yuyv, rgbx, bits, outside>>

(* uvc_mjpeg2yuyv: jpeg_read_scanlines gives up to MAX_READLINE rows, and each is
   repacked in groups of eight pixels until the row of the JPEG ends. *)
MAX_READLINE == 8

Repacked(w) == 2 * ((w + 1) \div 2)

DecodeRows ==
  /\ stage = "decode" /\ jpeg.height = height /\ row < height
  /\ \E n \in 1 .. Smaller(MAX_READLINE, height - row) :
       LET Source(o) == {rc \in (row .. row + n - 1) \X (0 .. Repacked(jpeg.width) - 1) :
                           rc[1] * width + rc[2] = o}
           last(o) == CHOOSE rc \in Source(o) : \A q \in Source(o) : q[1] <= rc[1]
       IN /\ yuyv' = Written(yuyv, {o \in DOMAIN yuyv : Source(o) # {}},
                             LAMBDA o : IF last(o)[2] < jpeg.width THEN last(o) ELSE Stale)
          /\ Rows(row + n)
          /\ Overrun(\/ Repacked(jpeg.width) # jpeg.width
                     \/ (row + n - 1) * width + Repacked(jpeg.width) > width * height)
  /\ UNCHANGED <<shape, rgbx, bits>>

(* lines_read equals the height. *)
Decoded ==
  /\ stage = "decode" /\ row = height
  /\ Enter("convert")
  /\ UNCHANGED <<shape, yuyv, rgbx, bits, outside>>

(* The rows that were decoded are shown. *)
DecodeFailsQuietly ==
  /\ stage = "decode"
  /\ Enter("convert")
  /\ UNCHANGED <<shape, yuyv, rgbx, bits, outside>>

(* libjpeg calls error_exit, at any row of a damaged picture, at its end, and always
   when the heights differ and no row was read.  lines_read, which setjmp does not
   keep, is then what it was or zero: at the end the picture counts or not, and before
   it does not.  The frame is recycled. *)
DecodeFails ==
  /\ stage = "decode"
  /\ Enter("dropped")
  /\ UNCHANGED <<shape, yuyv, rgbx, bits, outside>>

(* The pointer is compared with the end of the buffer. *)
FitsOneCell(offset) == offset < width * height

(* prgbx <= prgbx_end, pyuv <= pyuv_end: a whole group is left. *)
Fits(offset) == offset <= width * height - 2

(* uvc_yuyv2rgbx: the groups of a row, the last of which may reach into the next. *)
ConvertRow ==
  /\ stage = "convert" /\ row < height
  /\ LET starts == {row * width + c : c \in {c \in 0 .. width - 1 : c % 2 = 0}}
         groups == {s \in starts : Fits(s)}
     IN /\ rgbx' = Written(rgbx, groups \cup {s + 1 : s \in groups}, LAMBDA o : yuyv[o])
        /\ Overrun(\E s \in groups : s + 1 >= width * height)
  /\ Rows(row + 1)
  /\ UNCHANGED <<shape, yuyv, bits>>

Converted ==
  /\ stage = "convert" /\ row = height
  /\ \/ Enter("copy")       \* the window is there and ANativeWindow_lock succeeds
     \/ Enter("dropped")
  /\ UNCHANGED <<shape, yuyv, rgbx, bits, outside>>

(* copyToSurface *)
CopyWidth  == Smaller(width, window.width)
CopyHeight == Smaller(height, window.height)

(* copyFrame: height % 8 rows, and then eight rows for every eighth of them. *)
CopyRows(h) == (h % 8) + 8 * ((h + 7) \div 8)

CopyRow ==
  /\ stage = "copy" /\ row < CopyRows(CopyHeight)
  /\ bits' = Written(bits, row * window.stride .. row * window.stride + CopyWidth - 1,
                     LAMBDA o : LET from == row * width + o - row * window.stride
                                IN IF from \in DOMAIN rgbx THEN rgbx[from] ELSE Stale)
  /\ Overrun(row >= height \/ row >= window.height)
  /\ Rows(row + 1)
  /\ UNCHANGED <<shape, yuyv, rgbx>>

Posted ==
  /\ stage = "copy" /\ row = CopyRows(CopyHeight)
  /\ Enter("posted")
  /\ UNCHANGED <<shape, yuyv, rgbx, bits, outside>>

Next ==
  \/ DuplicateRows \/ Duplicated \/ DecodeRows \/ Decoded \/ DecodeFails
  \/ ConvertRow \/ Converted \/ CopyRow \/ Posted

Spec == Init /\ [][Next]_vars

-----------------------------------------------------------------------------
(* Properties *)

(* What is posted is the picture, wherever it and the window overlap, and nothing
   the recycled buffers held before - except that a JPEG narrower than the frame
   leaves its columns, and the conversion, in groups of eight pixels, the end of the
   last row of a width that is no multiple of eight. *)
PictureIsWhole ==
  stage = "posted" =>
    \A r \in 0 .. CopyHeight - 1, c \in 0 .. Smaller(CopyWidth, jpeg.width) - 1 :
      \/ bits[r * window.stride + c] = <<r, c>>
      \/ width % 2 = 1 /\ r = height - 1 /\ c = width - 1

(* The sizes for which the loops stay in their buffers, and for all others they do
   not: heights that are multiples of eight on the surface, heights that are
   multiples of four in uvc_duplicate_frame, pictures no wider than the frame and of
   whole groups in uvc_mjpeg2yuyv.  The conversion always does. *)
OverrunsWhenUnaligned ==
  stage = "posted" =>
    /\ "copy" \in outside <=> CopyHeight % 8 # 0
    /\ "duplicate" \in outside <=> (mode = "yuyv" /\ height % 4 # 0)
    /\ "decode" \in outside <=> (mode = "mjpeg" /\ (jpeg.width > width \/ jpeg.width % 2 # 0))
    /\ "convert" \notin outside
=============================================================================
