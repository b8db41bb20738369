----------------------------- MODULE MCNegotiate -----------------------------
(* A camera with two streaming interfaces, and one for sound between them.  The
   first has two sizes of YUYV, one with a list of rates that has a 0 in it and one
   with a range, and more of a kind nobody asks for; the second has MJPEG under the
   same indices. *)
EXTENDS Negotiate

FormatBlock(index, mode) == [type |-> "format", index |-> index, mode |-> mode]

Rates(index, size, intervals) ==
  [type |-> "frame", index |-> index, size |-> size, intervals |-> intervals,
   min |-> 0, max |-> 0, step |-> 0]

Range3(index, size, min, max, step) ==
  [type |-> "frame", index |-> index, size |-> size, intervals |-> <<>>,
   min |-> min, max |-> max, step |-> step]

Block(type) == [type |-> type]

MCConfig ==
  << [class |-> "control", number |-> 0, blocks |->
       << [type |-> "header", version |-> "1.0", streaming |-> <<1, 3>>],
          Block("plain"), Block("terminal"), Block("unit") >>],
     [class |-> "streaming", number |-> 1, blocks |->
       << Block("input header"), FormatBlock(1, "yuyv"),
          Rates(1, "qvga", <<333333, 2000000, 0, 400000>>), Range3(2, "vga", 333333, 2000000, 1),
          Block("color"), FormatBlock(2, "h264"), Rates(2, "vga", <<333333>>),
          FormatBlock(3, "yuyv"), Rates(1, "vga", <<666666>>), Block("still") >>],
     [class |-> "audio", number |-> 2, blocks |-> <<Block("header of another class")>>],
     [class |-> "streaming", number |-> 3, blocks |->
       << Block("input header"), FormatBlock(1, "mjpeg"), Rates(1, "hd", <<400000>>),
          Range3(2, "vga", 400000, 600000, 200000), Block("color") >>] >>

MCDefault == [mode |-> "yuyv", size |-> "qvga", minFps |-> 1, maxFps |-> 25]

MCRequests ==
  {[mode |-> "yuyv", size |-> "vga", minFps |-> 0, maxFps |-> 30],
   [mode |-> "yuyv", size |-> "vga", minFps |-> 20, maxFps |-> 30],
   [mode |-> "mjpeg", size |-> "vga", minFps |-> 1, maxFps |-> 30],
   [mode |-> "mjpeg", size |-> "vga", minFps |-> 25, maxFps |-> 25], MCDefault}
=============================================================================
