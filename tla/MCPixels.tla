------------------------------ MODULE MCPixels ------------------------------
EXTENDS Pixels

MCSurfaces ==
  {[width |-> 3, height |-> 8, stride |-> 4], [width |-> 2, height |-> 17, stride |-> 2],
   [width |-> 4, height |-> 6, stride |-> 4]}
=============================================================================
