------------------------------ MODULE MCPreview ------------------------------
(***************************************************************************)
(* Instances of Preview for TLC.  A block of memory is a number, so that   *)
(* the representative Any picks is the same in every run.                  *)
(***************************************************************************)
EXTENDS Preview

MCFrames == 1..9
MCFewFrames == 1..3
MCNoFrame == 0
=============================================================================
