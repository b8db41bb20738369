----------------------------- MODULE Descriptors -----------------------------
(***************************************************************************)
(* What libuvc makes of the descriptors of a camera when it is opened:       *)
(* uvc_get_device_info, uvc_scan_control, uvc_scan_streaming and the         *)
(* uvc_parse_ functions of device.c.  A configuration is a list of           *)
(* interfaces, each with the class-specific blocks that follow it; a block   *)
(* is parsed on its own, and what it belongs to is decided by its place.     *)
(*                                                                         *)
(* The bytes of a block are fields here.  Terminals and units, which feed    *)
(* the tables of the controls, and still images are blocks that change       *)
(* nothing; the interface of the one camera maker whose class is wrong is    *)
(* left out.                                                               *)
(***************************************************************************)
EXTENDS Integers, Sequences, FiniteSets, SequencesExt

CONSTANT Config  \* the interfaces: [class, number, blocks].  A block is
                 \* [type |-> "header", version, streaming],
                 \* [type |-> "format", index, mode],
                 \* [type |-> "frame", index, size, intervals, min, max, step]
                 \* or of another type: "plain" when it is not class-specific

Supported == {"1.0", "1.0a", "1.1", "1.5"}

(* uvc_parse_vs_frame_uncompressed and uvc_parse_vs_frame_frame: a list of intervals,
   or none and a range. *)
Frame(block) ==
  IF block.intervals = <<>>
  THEN [index |-> block.index, size |-> block.size,
        min |-> block.min, max |-> block.max, step |-> block.step]
  ELSE [index |-> block.index, size |-> block.size, intervals |-> block.intervals]

(* uvc_parse_vs_format_uncompressed and uvc_parse_vs_format_mjpeg *)
NewFormat(block) == [index |-> block.index, mode |-> block.mode, frames |-> <<>>]

(* uvc_parse_vs: a frame goes to the last format. *)
ParseVs(formats, block) ==
  CASE block.type = "format" -> Append(formats, NewFormat(block))
    [] block.type = "frame" ->
         [formats EXCEPT ![Len(formats)].frames = Append(@, Frame(block))]
    [] OTHER -> formats

(* uvc_scan_streaming: the blocks one after the other.  The header names an interface
   by its number, and config holds it at that place, from zero. *)
ScanBlocks(blocks) ==
  LET formats[n \in 0 .. Len(blocks)] ==
        IF n = 0 THEN <<>> ELSE ParseVs(formats[n - 1], blocks[n])
  IN formats

ScanStreaming(place) ==
  LET blocks == Config[place + 1].blocks
  IN [number |-> Config[place + 1].number, formats |-> ScanBlocks(blocks)[Len(blocks)]]

(* uvc_parse_vc_header *)
ParseHeader(info, block) ==
  IF block.version \notin Supported THEN [info EXCEPT !.ok = FALSE]
  ELSE [info EXCEPT !.stream_ifs =
          @ \o [i \in DOMAIN block.streaming |-> ScanStreaming(block.streaming[i])]]

(* uvc_parse_vc: a block that is not class-specific is passed over.  Nothing is parsed
   after a class-specific block of a type nobody knows. *)
ParseVc(info, block) ==
  CASE info.ok /\ block.type = "header" -> ParseHeader(info, block)
    [] info.ok /\ block.type \notin {"header", "terminal", "unit", "plain"} -> [info EXCEPT !.ok = FALSE]
    [] OTHER -> info

(* uvc_scan_control: the first control interface; without one the camera cannot be
   opened. *)
ParseBlocks(blocks) ==
  LET info[n \in 0 .. Len(blocks)] ==
        IF n = 0 THEN [ok |-> TRUE, stream_ifs |-> <<>>] ELSE ParseVc(info[n - 1], blocks[n])
  IN info

ScanControl ==
  LET control == {k \in DOMAIN Config : Config[k].class = "control"}
      blocks == Config[CHOOSE k \in control : \A j \in control : k <= j].blocks
  IN IF control = {} THEN [ok |-> FALSE, stream_ifs |-> <<>>]
     ELSE ParseBlocks(blocks)[Len(blocks)]

(* Every frame the camera declares: a block of a streaming interface, and the format
   whose block is the last one before it. *)
FormatOf(blocks, f) ==
  CHOOSE k \in 1 .. f - 1 :
    /\ blocks[k].type = "format"
    /\ \A j \in k + 1 .. f - 1 : blocks[j].type # "format"

Declared ==
  UNION {LET blocks == Config[i].blocks
         IN {[interface |-> Config[i].number, format |-> blocks[FormatOf(blocks, f)].index,
              mode |-> blocks[FormatOf(blocks, f)].mode, frame |-> Frame(blocks[f])] :
               f \in {b \in DOMAIN blocks : blocks[b].type = "frame"}} :
         i \in {k \in DOMAIN Config : Config[k].class = "streaming"}}

Streaming == {k - 1 : k \in {i \in DOMAIN Config : Config[i].class = "streaming"}}

Blocks(i, type) == {b \in DOMAIN Config[i].blocks : Config[i].blocks[b].type = type}

IsList(s) == s \in Seq(ToSet(s))

(* A camera as the specification of the class wants it: the interfaces are numbered
   from zero without gaps, a header names streaming interfaces, a frame is behind a
   format, and no index is used twice, of a format in an interface or of a frame in a
   format. *)
ASSUME ConfigAssumption ==
  /\ IsList(Config)
  /\ \A i \in DOMAIN Config :
       LET blocks == Config[i].blocks
       IN /\ Config[i].number = i - 1 /\ IsList(blocks)
          /\ \A h \in Blocks(i, "header") : blocks[h].streaming \in Seq(Streaming)
          /\ \A f \in Blocks(i, "frame") : \E k \in Blocks(i, "format") : k < f
          /\ \A f, g \in Blocks(i, "format") : blocks[f].index = blocks[g].index => f = g
          /\ \A f, g \in Blocks(i, "frame") :
               /\ FormatOf(blocks, f) = FormatOf(blocks, g)
               /\ blocks[f].index = blocks[g].index
               => f = g
=============================================================================
