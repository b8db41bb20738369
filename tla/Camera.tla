------------------------------- MODULE Camera -------------------------------
(***************************************************************************)
(* One UVCCamera object (UVCCamera.cpp) and what it keeps in libuvc and in *)
(* the operating system: the context and its event thread (init.c), the    *)
(* device, its reference count and its handle (device.c), the interfaces   *)
(* claimed and the file descriptor.                                        *)
(*                                                                         *)
(* The calls are those the application makes: openCamera (init, connect),  *)
(* startPreview, stopPreview, release after stopPreview, destroy at the    *)
(* end.  One thread makes them; the event thread of the context runs       *)
(* beside it.  The preview is reduced to what it needs from here: frames   *)
(* and the end of stopPreview depend on the event thread.                  *)
(*                                                                         *)
(* The descriptor connect is given belongs to a connection of Java that    *)
(* stays open beyond the camera.  What dup returns shares its open file,   *)
(* and the kernel keeps the claimed interfaces with the open file: closing *)
(* the duplicate releases none of them.                                    *)
(***************************************************************************)
EXTENDS Integers, FiniteSets, FiniteSetsExt

CONSTANTS
  Foreign,  \* descriptors the rest of the process has open; 0 is one of them
  MaxOpens  \* bound: how often openCamera is called

ASSUME CameraAssumption ==
  /\ Foreign \subseteq Nat /\ IsFiniteSet(Foreign)
  /\ 0 \in Foreign /\ Foreign # {0}
  /\ MaxOpens \in Nat

NoFd == -1
Interfaces == {"control", "streaming"}

VARIABLES
  usbFs,     \* mUsbFs # nullptr
  context,   \* mContext # nullptr
  kill,      \* ctx->kill_handler_thread
  events,    \* the event thread: "none", "testing" the flag, "handling" events
             \* inside libusb, in the "callback" of a transfer, "exited"
  handle,    \* mDeviceHandle # nullptr, listed in ctx->open_devices
  device,    \* mDevice # nullptr
  ref,       \* dev->ref; the device is freed when it drops to zero
  mFd,       \* mFd
  fd,        \* the descriptor dup returned, inside connect
  open,      \* descriptors dup has opened for the camera
  given,     \* the descriptor of the connection of Java that connect is given
  foreign,   \* descriptors of the rest of the process still open, given's too
  claims,    \* interfaces claimed on the open file of that connection
  preview,   \* "off", "on", "stopping"
  api,       \* control point of the calling thread
  opens,     \* how often openCamera was called
  result,    \* history: what the last connect came to: "none", "ok", "failed"
  unstreamed \* history: the streaming interface was negotiated and no stream
             \* was opened, or closed, since

thread == <<kill, events>>
dev    == <<handle, device, ref>>
files  == <<mFd, fd, open, given, foreign>>
usb    == <<claims, unstreamed>>
vars == <<usbFs, context, thread, dev, files, usb, preview, api, opens, result>>

-----------------------------------------------------------------------------
Init ==
  /\ usbFs = FALSE /\ context = FALSE
  /\ kill = FALSE /\ events = "none"
  /\ handle = FALSE /\ device = FALSE /\ ref = 0
  /\ mFd = 0 /\ fd = NoFd /\ open = {}
  /\ given \in Foreign \ {0} /\ foreign = Foreign
  /\ claims = {} /\ unstreamed = FALSE
  /\ preview = "off" /\ api = "idle" /\ opens = 0 /\ result = "none"

-----------------------------------------------------------------------------
(* openCamera: init and connect, whose results Kotlin does not look at *)

(* A new descriptor is the lowest that is free. *)
LowestFree ==
  LET used == open \cup foreign
  IN Min({d \in 0..Cardinality(used) : d \notin used})

(* The monitor has the connection of before, or opened one: nothing is claimed on
   its open file yet. *)
NewConnection ==
  /\ given' = LowestFree /\ foreign' = foreign \cup {LowestFree}
  /\ claims' = {} /\ unstreamed' = FALSE

(* UVCCamera::init makes a context unless there is one from an earlier call;
   the context outlives every connection.  uvc_init may fail. *)
InitCamera ==
  /\ api = "idle" /\ opens < MaxOpens
  /\ opens' = opens + 1
  /\ usbFs' = TRUE
  /\ context' \in {context, TRUE}
  /\ api' = "connect"
  /\ \/ UNCHANGED <<given, foreign, usb>>
     \/ ~handle /\ NewConnection
  /\ UNCHANGED <<thread, dev, mFd, fd, open, preview, result>>

(* connect takes a descriptor of 0 for none. *)
AlreadyConnected ==
  /\ api = "connect"
  /\ handle \/ given = 0
  /\ result' = IF handle THEN result ELSE "failed"
  /\ api' = "idle"
  /\ UNCHANGED <<usbFs, context, thread, dev, files, usb, preview, opens>>

Dup ==
  /\ api = "connect" /\ ~handle /\ given # 0
  /\ fd' = LowestFree
  /\ open' = open \cup {LowestFree}
  /\ api' = "wrap"
  /\ UNCHANGED <<usbFs, context, thread, dev, mFd, given, foreign, usb, preview, opens,
                 result>>

(* dup fails, and its result is not looked at: libusb is given -1. *)
DupFails ==
  /\ api = "connect" /\ ~handle /\ given # 0
  /\ fd' = NoFd
  /\ api' = "wrap"
  /\ UNCHANGED <<usbFs, context, thread, dev, mFd, open, given, foreign, usb, preview,
                 opens, result>>

(* uvc_wrap reads the context that was never made. *)
WrapWithoutContext ==
  /\ api = "wrap" /\ ~context
  /\ api' = "crashed"
  /\ UNCHANGED <<usbFs, context, thread, dev, files, usb, preview, opens, result>>

(* libusb_wrap_sys_device fails, as it does with -1, and there is nothing to take
   back. *)
WrapFails ==
  /\ api = "wrap" /\ context
  /\ api' = "failed"
  /\ UNCHANGED <<usbFs, context, thread, dev, files, usb, preview, opens, result>>

(* uvc_wrap, uvc_ref_device: the device with its first reference. *)
RefDevice ==
  /\ api = "wrap" /\ context /\ fd # NoFd
  /\ ref' = 1
  /\ api' = "claim"
  /\ UNCHANGED <<usbFs, context, thread, handle, device, files, usb, preview, opens,
                 result>>

(* uvc_claim_if of the control interface. *)
ClaimControl ==
  /\ api = "claim"
  /\ claims' = claims \cup {"control"}
  /\ api' = "attach"
  /\ UNCHANGED <<usbFs, context, thread, dev, files, unstreamed, preview, opens,
                 result>>

(* The error path without uvc_unref_device. *)
OpenFailsKeepingDevice ==
  /\ api \in {"claim", "attach"}
  /\ claims' = claims \ {"control"}
  /\ api' = "failed"
  /\ UNCHANGED <<usbFs, context, thread, dev, files, unstreamed, preview, opens,
                 result>>

(* The device has no descriptors, its interface is taken or the status
   endpoint cannot be read: uvc_open_internal takes back what it did. *)
OpenFails ==
  /\ api \in {"claim", "attach"}
  /\ claims' = claims \ {"control"}
  /\ ref' = ref - 1
  /\ api' = "failed"
  /\ UNCHANGED <<usbFs, context, thread, handle, device, files, unstreamed,
                 preview, opens, result>>

(* The first device of the context: uvc_start_handler_thread.  The flag that
   ends the thread is as the last uvc_close left it, and the result of
   pthread_create is not looked at. *)
AttachHandle ==
  /\ api = "attach"
  /\ events' \in {"testing", "none"}
  /\ handle' = TRUE
  /\ api' = "connected"
  /\ UNCHANGED <<usbFs, context, kill, device, ref, files, usb, preview, opens, result>>

(* A connect that does not store its descriptor. *)
ConnectedWithoutFd ==
  /\ api = "connected"
  /\ ref' = ref + 1 /\ device' = TRUE
  /\ fd' = NoFd
  /\ api' = "idle" /\ result' = "ok"
  /\ UNCHANGED <<usbFs, context, thread, handle, mFd, open, given, foreign, usb,
                 preview, opens>>

(* The rest of connect: uvc_get_device takes a reference of its own. *)
Connected ==
  /\ api = "connected"
  /\ ref' = ref + 1 /\ device' = TRUE
  /\ mFd' = fd /\ fd' = NoFd
  /\ api' = "idle" /\ result' = "ok"
  /\ UNCHANGED <<usbFs, context, thread, handle, open, given, foreign, usb, preview,
                 opens>>

ConnectFails ==
  /\ api = "failed"
  /\ open' = open \ {fd} /\ fd' = NoFd
  /\ api' = "idle" /\ result' = "failed"
  /\ UNCHANGED <<usbFs, context, thread, dev, mFd, given, foreign, usb, preview,
                 opens>>

-----------------------------------------------------------------------------
(* The preview *)

(* A negotiation claims the streaming interface, and ignores a claim that fails. *)
MayClaim ==
  /\ claims' \in {claims, claims \cup {"streaming"}}
  /\ unstreamed' = TRUE

(* What startPreview comes to: a stream; no window, no thread or no such format;
   a negotiation or an open stream that fails and keeps the claim; a stream that
   cannot be started and is closed again. *)
StartPreview ==
  /\ api = "idle" /\ handle /\ preview = "off"
  /\ \/ /\ preview' = "on"
        /\ claims' = claims \cup {"streaming"} /\ unstreamed' = FALSE
     \/ UNCHANGED <<preview, usb>>
     \/ MayClaim /\ UNCHANGED preview
     \/ claims' = claims \ {"streaming"} /\ unstreamed' = FALSE /\ UNCHANGED preview
  /\ UNCHANGED <<usbFs, context, thread, dev, files, api, opens, result>>

(* setPreviewSize negotiates; during a preview the interface is claimed already. *)
SetPreviewSize ==
  /\ api = "idle" /\ handle /\ preview = "off"
  /\ MayClaim
  /\ UNCHANGED <<usbFs, context, thread, dev, files, preview, api, opens, result>>

StopPreview ==
  /\ api = "idle" /\ preview = "on"
  /\ preview' = "stopping"
  /\ api' = "stop"
  /\ UNCHANGED <<usbFs, context, thread, dev, files, usb, opens, result>>

(* A stream that is closed and keeps its interface. *)
PreviewStoppedKeeping ==
  /\ api = "stop" /\ events = "handling"
  /\ preview' = "off"
  /\ api' = "idle"
  /\ UNCHANGED <<usbFs, context, thread, dev, files, usb, opens, result>>

(* uvc_stop_streaming returns when the event thread has handled the end of
   every transfer. *)
PreviewStopped ==
  /\ api = "stop" /\ events = "handling"
  /\ preview' = "off"
  /\ claims' = claims \ {"streaming"}
  /\ api' = "idle"
  /\ UNCHANGED <<usbFs, context, thread, dev, files, unstreamed, opens, result>>

-----------------------------------------------------------------------------
(* UVCCamera::release, after stopPreview *)

Release ==
  /\ api = "idle" /\ preview = "off"
  /\ api' = IF handle THEN "close" ELSE "unref"
  /\ UNCHANGED <<usbFs, context, thread, dev, files, usb, preview, opens, result>>

(* uvc_close without the flag that ends the event thread. *)
CloseWithoutKill ==
  /\ api = "close"
  /\ claims' = claims \ {"control"}
  /\ api' = "usbClose"
  /\ UNCHANGED <<usbFs, context, thread, dev, files, unstreamed, preview, opens,
                 result>>

(* uvc_close: the control interface is released and the event thread told to
   end. *)
Close ==
  /\ api = "close"
  /\ claims' = claims \ {"control"}
  /\ kill' = TRUE
  /\ api' = "usbClose"
  /\ UNCHANGED <<usbFs, context, events, dev, files, unstreamed, preview, opens,
                 result>>

(* The handle is freed while libusb may be in a callback of one of its
   transfers. *)
UsbCloseAtOnce ==
  /\ api = "usbClose"
  /\ api' = "join"
  /\ UNCHANGED <<usbFs, context, thread, dev, files, usb, preview, opens, result>>

(* libusb_close interrupts the event thread and waits until it does not handle
   events; it drops the transfers of the handle. *)
UsbClose ==
  /\ api = "usbClose" /\ events # "callback"
  /\ events' = IF events = "handling" THEN "testing" ELSE events
  /\ api' = "join"
  /\ UNCHANGED <<usbFs, context, kill, dev, files, usb, preview, opens, result>>

(* pthread_join of a thread that was never created fails, or ends the
   process. *)
JoinEvents ==
  /\ api = "join"
  /\ \/ events = "exited" /\ api' = "free"
     \/ events = "none" /\ api' \in {"free", "crashed"}
  /\ events' = "none"
  /\ UNCHANGED <<usbFs, context, kill, dev, files, usb, preview, opens, result>>

FreeHandle ==
  /\ api = "free"
  /\ handle' = FALSE /\ ref' = ref - 1
  /\ api' = "unref"
  /\ UNCHANGED <<usbFs, context, thread, device, files, usb, preview, opens, result>>

(* The camera gives back a reference it may not have. *)
UnrefUntested ==
  /\ api = "unref"
  /\ device' = FALSE /\ ref' = ref - 1
  /\ api' = "closeFd"
  /\ UNCHANGED <<usbFs, context, thread, handle, files, usb, preview, opens, result>>

UnrefDevice ==
  /\ api = "unref"
  /\ device' = FALSE /\ ref' = IF device THEN ref - 1 ELSE ref
  /\ api' = "closeFd"
  /\ UNCHANGED <<usbFs, context, thread, handle, files, usb, preview, opens, result>>

(* The descriptor is closed whenever mUsbFs is set, which init does and not
   connect.  What is claimed on the open file stays claimed. *)
CloseFd ==
  /\ api = "closeFd"
  /\ IF usbFs
     THEN open' = open \ {mFd} /\ foreign' = foreign \ {mFd} /\ mFd' = 0
     ELSE UNCHANGED <<open, foreign, mFd>>
  /\ usbFs' = FALSE
  /\ api' = "idle"
  /\ UNCHANGED <<context, thread, dev, fd, given, usb, preview, opens, result>>

(* The destructor frees the string and nothing else: not the context. *)
Destroy ==
  /\ api = "idle" /\ ~handle /\ preview = "off"
  /\ usbFs' = FALSE
  /\ api' = "destroyed"
  /\ UNCHANGED <<context, thread, dev, files, usb, preview, opens, result>>

-----------------------------------------------------------------------------
(* The event thread: _uvc_handle_events *)

HandleEvents ==
  /\ events = "testing" /\ ~kill
  /\ events' = "handling"
  /\ UNCHANGED <<usbFs, context, kill, dev, files, usb, preview, api, opens, result>>

(* An event thread that handles events once. *)
EndEventsAtOnce ==
  /\ events = "testing"
  /\ events' = "exited"
  /\ UNCHANGED <<usbFs, context, kill, dev, files, usb, preview, api, opens, result>>

EndEvents ==
  /\ events = "testing" /\ kill
  /\ events' = "exited"
  /\ UNCHANGED <<usbFs, context, kill, dev, files, usb, preview, api, opens, result>>

(* The status transfer of the handle, or one of its stream, completes. *)
TransferCallback ==
  /\ events = "handling" /\ handle /\ api \notin {"join", "free"}
  /\ events' = "callback"
  /\ UNCHANGED <<usbFs, context, kill, dev, files, usb, preview, api, opens, result>>

CallbackReturns ==
  /\ events = "callback"
  /\ events' = "testing"
  /\ UNCHANGED <<usbFs, context, kill, dev, files, usb, preview, api, opens, result>>

-----------------------------------------------------------------------------
ConnectStep ==
  \/ AlreadyConnected \/ Dup \/ DupFails \/ WrapWithoutContext \/ WrapFails \/ RefDevice
  \/ ClaimControl \/ OpenFails \/ AttachHandle \/ Connected \/ ConnectFails

ReleaseStep ==
  \/ Close \/ UsbClose \/ JoinEvents \/ FreeHandle \/ UnrefDevice \/ CloseFd

Call == InitCamera \/ StartPreview \/ SetPreviewSize \/ StopPreview \/ Release \/ Destroy

CallInProgress == ConnectStep \/ PreviewStopped \/ ReleaseStep

EventStep == HandleEvents \/ EndEvents \/ CallbackReturns

Next == Call \/ CallInProgress \/ TransferCallback \/ EventStep

Spec == Init /\ [][Next]_vars

(* A call in progress goes on when it can, time and again; the event thread is
   scheduled and the callbacks of libuvc return. *)
FairSpec == Spec /\ SF_vars(CallInProgress) /\ WF_vars(EventStep)

-----------------------------------------------------------------------------
(* Properties *)

ApiPoints ==
  {"idle", "connect", "wrap", "claim", "attach", "connected", "failed", "stop",
   "close", "usbClose", "join", "free", "unref", "closeFd", "crashed", "destroyed"}

(* Every variable has its type, and the count of references is never negative. *)
TypeOK ==
  /\ usbFs \in BOOLEAN /\ context \in BOOLEAN /\ kill \in BOOLEAN
  /\ events \in {"none", "testing", "handling", "callback", "exited"}
  /\ handle \in BOOLEAN /\ device \in BOOLEAN /\ ref \in Nat
  /\ mFd \in Nat /\ fd \in Nat \cup {NoFd}
  /\ open \subseteq Nat /\ given \in Nat /\ foreign \subseteq Nat
  /\ claims \subseteq Interfaces /\ unstreamed \in BOOLEAN
  /\ preview \in {"off", "on", "stopping"}
  /\ api \in ApiPoints /\ opens \in 0..MaxOpens
  /\ result \in {"none", "ok", "failed"}

Quiet == api \in {"idle", "stop", "destroyed"}

(* Between two calls the device has one reference of its handle and one of the
   camera, or none at all: whichever step of connect failed, the device was
   freed, and release leaves nothing behind (uvc_ref_device, uvc_unref_device). *)
ReferencesBalance ==
  Quiet => /\ handle = device
           /\ ref = IF handle THEN 2 ELSE 0

(* Between two calls the camera has the one descriptor it would close, or none,
   and has claimed the control interface exactly while it has a handle, whichever
   step of connect failed.  The streaming interface is claimed while a preview
   runs; without one it is so only after a negotiation that no stream followed,
   which nothing takes back, not even release: a preview that was stopped, or
   whose stream could not be started, leaves no interface claimed. *)
DescriptorsBalance ==
  Quiet => /\ open = IF handle THEN {mFd} ELSE {}
           /\ "control" \in claims <=> handle
           /\ preview # "off" => "streaming" \in claims
           /\ "streaming" \in claims => preview # "off" \/ unstreamed

(* No callback of a transfer runs while, or after, its handle is freed, and when it
   is freed the event thread, which would go on with the context of a camera that
   is closed, has ended: what libusb_close and the join in uvc_close are for. *)
NoCallbackAfterFree ==
  /\ events = "callback" => handle /\ api \notin {"join", "free"}
  /\ api \in {"free", "unref", "closeFd"} => events = "none"

(* release closes a descriptor that is not the camera's only when the connect
   before it failed: mFd is 0 then, and mUsbFs was set by init. *)
StrayCloseAfterFailure == [][foreign \ foreign' # {} => result = "failed"]_vars

(* release returns: the event thread sees the flag and ends. *)
ReleaseReturns == api = "close" ~> api \in {"idle", "crashed"}

(* stopPreview returns, as long as no device of this camera was closed before
   and the event thread could be created: it handles the end of the
   transfers. *)
StopReturns == api = "stop" /\ ~kill /\ events # "none" ~> api = "idle"

(* An open device has an event thread: "Since this is our first device, we need
   to spawn the event handler thread" (uvc_open_internal). *)
EventsHandled == handle /\ api = "idle" => events # "exited"
=============================================================================
