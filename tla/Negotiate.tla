------------------------------ MODULE Negotiate ------------------------------
(***************************************************************************)
(* How a preview agrees with the camera on a format, a size and a rate:      *)
(* uvc_get_stream_ctrl_format_size_fps and uvc_probe_stream_ctrl of          *)
(* libuvc/src/stream.c, called by UVCPreview::setPreviewSize on the thread   *)
(* of the application and by UVCPreview::preparePreview on the preview       *)
(* thread, and the commit in uvc_stream_open_ctrl.                           *)
(*                                                                         *)
(* One step is one control transfer with the computation around it.  There   *)
(* is one probe control per interface, whoever uses it; no lock is held      *)
(* from one transfer to the next.  A width and a height are one size, and    *)
(* the fields of a request are read and written together.                    *)
(***************************************************************************)
EXTENDS Descriptors

CONSTANTS
  Requests,    \* what setPreviewSize is called with: [mode, size, minFps, maxFps]
  Default,     \* what the constructor of UVCPreview requests
  Payloads,    \* values of dwMaxPayloadTransferSize
  Junk,        \* what an uninitialised control block holds
  MaxCalls,    \* bound: calls of setPreviewSize that negotiate
  MaxSessions, \* bound: previews
  MaxLosses    \* bound: control transfers that fail

ASSUME NegotiateAssumption ==
  /\ ScanControl.ok   \* the camera was opened
  /\ Default \in Requests
  /\ MaxCalls \in Nat /\ MaxSessions \in Nat /\ MaxLosses \in Nat

Threads == {"app", "preview"}
Second  == 10000000   \* of 100 ns, the unit of an interval

VARIABLES
  request,   \* requestMode, requestWidth, ...
  at,        \* control point of each thread
  asked,     \* the arguments of its negotiation
  left,      \* the formats it has not looked at
  ctrl,      \* its control block
  required,  \* required_ctrl
  geometry,  \* frameWidth and frameHeight
  probe,     \* the probe control of each interface
  committed, \* what the last commit said
  calls, sessions, losses,
  raced      \* both threads have been negotiating at once

program == <<request, asked, left, ctrl, required, geometry>>
device  == <<probe, committed, losses>>
counts  == <<calls, sessions>>
vars == <<program, device, counts, at, raced>>

-----------------------------------------------------------------------------
(* Descriptors: devh->info->stream_ifs *)

Interfaces == ScanControl.stream_ifs

Numbers == {Interfaces[i].number : i \in DOMAIN Interfaces}

(* The formats, at <<interface, format>> in the order of the two loops over them. *)
Places == UNION {{<<i, f>> : f \in DOMAIN Interfaces[i].formats} : i \in DOMAIN Interfaces}

Number(k) == Interfaces[k[1]].number
Format(k) == Interfaces[k[1]].formats[k[2]]

Before(k, l) == k[1] < l[1] \/ (k[1] = l[1] /\ k[2] < l[2])
First(S) == CHOOSE k \in S : \A l \in S : ~Before(l, k)

(* Every interface, format and frame that a control block can name. *)
Names == UNION {{[interface |-> Number(k), format |-> Format(k).index, mode |-> Format(k).mode,
                  frame |-> f, at |-> k] : f \in ToSet(Format(k).frames)} : k \in Places}

(* uvc_find_frame_desc asks every interface, and takes the first answer. *)
Named(c) == {n \in Names : n.format = c.format /\ n.frame.index = c.frame}
FrameDesc(c) == CHOOSE n \in Named(c) : n.at = First({m.at : m \in Named(c)})

InRange(interval, r) ==
  Second \div interval >= r.minFps /\ Second \div interval <= r.maxFps

Discrete(frame) == "intervals" \in DOMAIN frame

(* _uvc_frame_format_matches_guid, for the two formats UVCPreview asks for. *)
Matches(k, r) == Format(k).mode = r.mode

(* The loop over a list stops at an interval of 0, which is put behind the list; a
   camera may have one in it. *)
Listed(frame) ==
  {i \in DOMAIN frame.intervals : \A j \in DOMAIN frame.intervals : j <= i => frame.intervals[j] # 0}

(* The first interval of the list whose rate is in the range. *)
FromList(frame, r) ==
  LET good == {i \in Listed(frame) : InRange(frame.intervals[i], r)}
  IN IF good = {} THEN {} ELSE {frame.intervals[CHOOSE i \in good : \A j \in good : i <= j]}

(* A quotient by zero, where the machine has one. *)
Quotient(n) == IF n = 0 THEN 0 ELSE Second \div n

(* The loop over the rates computes the interval of min_fps each time. *)
Looped(r) == \E fps \in r.minFps .. r.maxFps : fps # 0
OnStep(frame, offset) == offset = 0 \/ (frame.step # 0 /\ offset % frame.step = 0)
FromSteps(frame, r) ==
  LET interval == Quotient(r.minFps)
  IN IF Looped(r) /\ interval \in frame.min .. frame.max /\ OnStep(frame, interval - frame.min)
     THEN {interval} ELSE {}

Intervals(frame, r) == IF Discrete(frame) THEN FromList(frame, r) ELSE FromSteps(frame, r)

(* What the request finds in the format at k: nothing, or the frame and the
   interval to ask the camera for. *)
Found(k, r) ==
  LET frames == Format(k).frames
      good == {i \in DOMAIN frames : frames[i].size = r.size /\ Intervals(frames[i], r) # {}}
  IN IF good = {} THEN {}
     ELSE LET f == frames[CHOOSE i \in good : \A j \in good : i <= j]
          IN {[frame |-> f.index, interval |-> i] : i \in Intervals(f, r)}

(* 10000000 / min_fps, or the remainder by dwFrameIntervalStep, is undefined. *)
DividesByZero(k, r) ==
  \E f \in ToSet(Format(k).frames) :
    /\ f.size = r.size /\ ~Discrete(f) /\ Looped(r)
    /\ \/ r.minFps = 0
       \/ f.step = 0 /\ Quotient(r.minFps) \in f.min + 1 .. f.max

Blank == [interface |-> Junk, format |-> Junk, frame |-> Junk, interval |-> Junk, payload |-> Junk]

(* The values a camera gives a control of an interface: one of its frames, and an
   interval that is nobody's, 0. *)
Offers(number) ==
  {[interface |-> number, format |-> d.format, frame |-> d.frame.index, interval |-> 0, payload |-> p] :
     d \in {e \in Declared : e.interface = number}, p \in Payloads}

Init ==
  /\ request = Default
  /\ at = [t \in Threads |-> "idle"] /\ asked = [t \in Threads |-> Default]
  /\ left = [t \in Threads |-> {}]
  /\ ctrl = [t \in Threads |-> Blank] /\ required = [t \in Threads |-> Blank]
  /\ geometry = Default.size
  /\ probe = [n \in Numbers |-> [Blank EXCEPT !.interface = n]] /\ committed = Blank
  /\ calls = 0 /\ sessions = 0 /\ losses = 0 /\ raced = FALSE

-----------------------------------------------------------------------------
Goto(t, point) == at' = [at EXCEPT ![t] = point]

Other(t) == CHOOSE u \in Threads : u # t

(* Control points between the start of a negotiation and its last transfer. *)
Window == {"max", "set", "get", "configure", "open"}

Lost == losses < MaxLosses /\ losses' = losses + 1

(* A thread enters uvc_get_stream_ctrl_format_size_fps. *)
Begin(t, r) ==
  /\ asked' = [asked EXCEPT ![t] = r]
  /\ left' = [left EXCEPT ![t] = Places]
  /\ ctrl' = [ctrl EXCEPT ![t] = Blank]
  /\ Goto(t, "max")
  /\ raced' = (at[Other(t)] \in Window \/ (t = "app" /\ raced))

(* setPreviewSize does nothing about a request of the same size and mode, whatever
   its rates are. *)
SetPreviewSize(r) ==
  /\ at["app"] \notin Window /\ calls < MaxCalls
  /\ r.size # request.size \/ r.mode # request.mode
  /\ request' = r /\ calls' = calls + 1
  /\ Begin("app", r)
  /\ UNCHANGED <<required, geometry, device, sessions>>

PreparePreview ==
  /\ at["preview"] \notin Window \cup {"streaming"} /\ sessions < MaxSessions
  /\ sessions' = sessions + 1
  /\ Begin("preview", request)
  /\ UNCHANGED <<request, required, geometry, device, calls>>

(* A format of another kind is skipped. *)
SkipFormat(t) ==
  /\ at[t] = "max" /\ left[t] # {}
  /\ ~Matches(First(left[t]), asked[t])
  /\ left' = [left EXCEPT ![t] = @ \ {First(@)}]
  /\ UNCHANGED <<request, asked, ctrl, required, geometry, device, counts, at, raced>>

(* A format of the kind asked for: UVC_GET_MAX fills the control block, or fails
   and nobody notices.  Then its frames are searched. *)
GetMax(t) ==
  /\ at[t] = "max" /\ left[t] # {}
  /\ Matches(First(left[t]), asked[t])
  /\ LET k == First(left[t])
         here == [ctrl[t] EXCEPT !.interface = Number(k)]
     IN \E c \in {here} \cup Offers(Number(k)) :
          /\ IF c = here THEN Lost ELSE UNCHANGED losses
          /\ \/ /\ DividesByZero(k, asked[t])
                /\ Goto(t, "crashed") /\ UNCHANGED <<ctrl, left>>
             \/ /\ Found(k, asked[t]) = {}
                /\ left' = [left EXCEPT ![t] = @ \ {k}]
                /\ ctrl' = [ctrl EXCEPT ![t] = c] /\ UNCHANGED at
             \/ /\ \E f \in Found(k, asked[t]) :
                     ctrl' = [ctrl EXCEPT ![t] = [c EXCEPT !.format = Format(k).index,
                                         !.frame = f.frame, !.interval = f.interval]]
                /\ Goto(t, "set") /\ UNCHANGED left
  /\ UNCHANGED <<request, asked, required, geometry, probe, committed, counts, raced>>

(* UVC_ERROR_INVALID_MODE: no format is left. *)
Refuse(t) ==
  /\ at[t] = "max" /\ left[t] = {}
  /\ Goto(t, "refused")
  /\ UNCHANGED <<program, device, counts, raced>>

(* uvc_probe_stream_ctrl asks.  The camera takes the proposal, with a payload size
   of its own, or puts a setting of its own in its place. *)
SetProbe(t) ==
  /\ at[t] = "set"
  /\ required' = [required EXCEPT ![t] = ctrl[t]]
  /\ \/ Lost /\ UNCHANGED probe
     \/ /\ \E c \in Offers(ctrl[t].interface) \cup
                   {[ctrl[t] EXCEPT !.payload = p] : p \in Payloads} :
             probe' = [probe EXCEPT ![ctrl[t].interface] = c]
        /\ UNCHANGED losses
  /\ Goto(t, "get")
  /\ UNCHANGED <<request, asked, left, ctrl, geometry, committed, counts, raced>>

(* The test without the frame. *)
NegotiatedFormat(r, c) == r.format = c.format /\ r.payload = c.payload

(* _uvc_stream_params_negotiated *)
Negotiated(r, c) == NegotiatedFormat(r, c) /\ r.frame = c.frame

Judge(t, c) ==
  /\ ctrl' = [ctrl EXCEPT ![t] = c]
  /\ Goto(t, IF ~Negotiated(required[t], c) THEN "rejected"
             ELSE IF t = "preview" THEN "configure" ELSE "accepted")

(* The answer is not asked for. *)
GetNothing(t) ==
  /\ at[t] = "get" /\ Judge(t, ctrl[t])
  /\ UNCHANGED <<request, asked, left, required, geometry, device, counts, raced>>

(* ... and reads the answer.  When the transfer fails the control block is what
   was asked for, and passes the test. *)
GetProbe(t) ==
  /\ at[t] = "get"
  /\ \/ Lost /\ Judge(t, ctrl[t])
     \/ UNCHANGED losses /\ Judge(t, probe[ctrl[t].interface])
  /\ UNCHANGED <<request, asked, left, required, geometry, probe, committed, counts, raced>>

-----------------------------------------------------------------------------
(* The rest of preparePreview: the size of the frame the control block names.
   The control block was tested, and such a frame there is. *)
Configure ==
  /\ at["preview"] = "configure"
  /\ geometry' = FrameDesc(ctrl["preview"]).frame.size
  /\ Goto("preview", "open")
  /\ UNCHANGED <<request, asked, left, ctrl, required, device, counts, raced>>

(* uvc_stream_open_ctrl commits what was negotiated, or fails. *)
Open ==
  /\ at["preview"] = "open"
  /\ \/ Lost /\ Goto("preview", "failed") /\ UNCHANGED committed
     \/ /\ committed' = ctrl["preview"] /\ Goto("preview", "streaming")
        /\ UNCHANGED losses
  /\ UNCHANGED <<program, probe, counts, raced>>

Stop ==
  /\ at["preview"] = "streaming"
  /\ Goto("preview", "idle")
  /\ UNCHANGED <<program, device, counts, raced>>

Running == \A t \in Threads : at[t] # "crashed"

Step(t) == SkipFormat(t) \/ GetMax(t) \/ Refuse(t) \/ SetProbe(t) \/ GetProbe(t)

Next ==
  /\ Running
  /\ \/ \E r \in Requests : SetPreviewSize(r)
     \/ PreparePreview \/ Configure \/ Open \/ Stop
     \/ \E t \in Threads : Step(t)

Spec == Init /\ [][Next]_vars

-----------------------------------------------------------------------------
(* Properties *)

(* Two interfaces use the same pair of indices, and uvc_find_frame_desc finds the
   frame of the other one. *)
Ambiguous(c) == FrameDesc(c).interface # c.interface

(* Whatever transfers fail, whatever the camera proposes instead, and whatever the
   other thread negotiates meanwhile, a preview streams what the descriptors of the
   camera declare to be a frame of the size and the mode preparePreview read, and
   UVCPreview drops no frame for its size. *)
StreamsWhatWasAsked ==
  at["preview"] = "streaming" =>
    /\ \E d \in Declared : /\ d.interface = committed.interface
                           /\ d.format = committed.format /\ d.frame.index = committed.frame
                           /\ d.frame.size = asked["preview"].size
                           /\ d.mode = asked["preview"].mode
    /\ ~Ambiguous(committed) => geometry = asked["preview"].size

(* When no transfer failed and the other thread kept away, what is committed is what
   the camera answered last, its payload size and its interval included. *)
CommitsTheOffer ==
  [][at["preview"] = "open" /\ at'["preview"] = "streaming" /\ losses = 0 /\ ~raced
       => committed' = probe[committed'.interface]]_vars

(* "minimum frames per second, this value is included", "maximum frames per second,
   this value is included": a search fails only if no frame of the size has a rate
   in the range. *)
SearchFindsARate ==
  \A t \in Threads : at[t] = "refused" =>
    \A n \in Declared :
      n.mode = asked[t].mode /\ n.frame.size = asked[t].size =>
        ~ \E fps \in 1 .. asked[t].maxFps :
             /\ fps >= asked[t].minFps
             /\ IF Discrete(n.frame)
                THEN \E i \in Listed(n.frame) : Second \div n.frame.intervals[i] = fps
                ELSE /\ Second \div fps \in n.frame.min .. n.frame.max
                     /\ OnStep(n.frame, Second \div fps - n.frame.min)
=============================================================================
