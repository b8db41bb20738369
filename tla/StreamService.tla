--------------------------- MODULE StreamService ---------------------------
(***************************************************************************)
(* What UVCPreview expects of a video stream of libuvc.  Between a start    *)
(* that succeeds and the call of uvc_stop_streaming the callback is called, *)
(* one call at a time; uvc_stop_streaming returns when no call is left.     *)
(***************************************************************************)
VARIABLES
  state,  \* "off", "on", or "stopping" while uvc_stop_streaming runs
  busy    \* a frame was taken for the callback, which has not returned

Init == state = "off" /\ ~busy

Start   == state = "off" /\ ~busy /\ state' = "on" /\ UNCHANGED busy
Deliver == state = "on" /\ ~busy /\ busy' /\ UNCHANGED state
Return  == busy /\ ~busy' /\ UNCHANGED state
Stop    == state = "on" /\ state' = "stopping" /\ UNCHANGED busy
Stopped == state = "stopping" /\ ~busy /\ state' = "off" /\ UNCHANGED busy

Next == Start \/ Deliver \/ Return \/ Stop \/ Stopped

Spec == Init /\ [][Next]_<<state, busy>>
=============================================================================
