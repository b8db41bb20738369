------------------------------ MODULE Mailbox ------------------------------
(***************************************************************************)
(* The hand-over of frames from the event thread of libusb to the user      *)
(* thread of libuvc, without buffers and locks: a mailbox that keeps the    *)
(* newest frame only.                                                       *)
(***************************************************************************)
EXTENDS Naturals

VARIABLES
  open,    \* frames can be put and taken
  newest,  \* number of the last frame put, 0 for none
  taken    \* number of the last frame taken, 0 for none

vars == <<open, newest, taken>>

Init == ~open /\ newest = 0 /\ taken = 0

Open  == ~open /\ open' /\ newest' = 0 /\ taken' = 0
Put   == open /\ newest' = newest + 1 /\ UNCHANGED <<open, taken>>
Take  == open /\ taken < newest /\ taken' = newest /\ UNCHANGED <<open, newest>>
Close == open /\ ~open' /\ newest' = 0 /\ taken' = 0

Next == Open \/ Put \/ Take \/ Close

Spec == Init /\ [][Next]_vars

(* The frame in an open mailbox is taken, or replaced by a newer one that is. *)
FairSpec == Spec /\ WF_vars(Take)
=============================================================================
