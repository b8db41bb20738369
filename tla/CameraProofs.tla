---------------------------- MODULE CameraProofs ----------------------------
(***************************************************************************)
(* Theorems about Camera, for any descriptors of the rest of the process and *)
(* any number of calls of openCamera.                                       *)
(***************************************************************************)
EXTENDS Camera, FiniteSetTheorems, WellFoundedInduction, TLAPS

(* dup finds a descriptor, and one that nobody has. *)
LEMMA LowestFreeIsFree ==
  ASSUME IsFiniteSet(open), IsFiniteSet(foreign)
  PROVE  LowestFree \in Nat /\ LowestFree \notin open \cup foreign
<1> DEFINE used == open \cup foreign
           free == {d \in 0..Cardinality(used) : d \notin used}
<1>1. IsFiniteSet(used) /\ Cardinality(used) \in Nat
  BY FS_Union, FS_CardinalityType
<1>2. IsFiniteSet(0..Cardinality(used)) /\ Cardinality(0..Cardinality(used)) = Cardinality(used) + 1
  BY <1>1, FS_Interval
<1>3. free # {}
  <2>1. SUFFICES ASSUME 0..Cardinality(used) \subseteq used PROVE FALSE
    OBVIOUS
  <2> DEFINE n == Cardinality(used)
  <2>2. Cardinality(0..n) <= n
    BY <1>1, <2>1, FS_Subset
  <2>3. Cardinality(0..n) = n + 1 /\ n \in Nat
    BY <1>1, <1>2
  <2> HIDE DEF n
  <2> QED BY <2>2, <2>3
<1>4. free \in SUBSET Nat
  BY <1>1
<1> HIDE DEF free
<1>5. PICK m \in free : \A k \in free : ~ (<<1..k, 1..m>> \in StrictSubsetOrdering(Nat))
  <2> DEFINE T == {1..d : d \in free}
  <2>1. \A d \in free : 1..d \subseteq Nat /\ IsFiniteSet(1..d)
    BY <1>4, FS_Interval
  <2>2. T \subseteq FiniteSubsetsOf(Nat) /\ T # {}
    BY <1>3, <2>1 DEF FiniteSubsetsOf
  <2>3. \E x \in T : \A y \in T : ~ (<<y, x>> \in StrictSubsetOrdering(Nat))
    BY <2>2, FS_StrictSubsetOrderingWellFounded, WFMin
  <2> QED BY <2>3
<1>6. \A k \in free : m <= k
  <2> SUFFICES ASSUME NEW k \in free, k < m PROVE FALSE
    BY <1>4
  <2>1. k \in Nat /\ m \in Nat
    BY <1>4
  <2>2. 1..k \in SUBSET Nat /\ 1..m \in SUBSET Nat /\ 1..k \subseteq 1..m
    BY <2>1
  <2>3. m \in 1..m /\ m \notin 1..k
    BY <2>1
  <2>4. <<1..k, 1..m>> \in StrictSubsetOrdering(Nat)
    BY <2>2, <2>3, Zenon DEF StrictSubsetOrdering
  <2> QED BY <1>5, <2>4, Zenon
<1>7. Min(free) \in free
  BY <1>6 DEF Min
<1> QED BY <1>4, <1>7 DEF LowestFree, free

-----------------------------------------------------------------------------
(* The invariant, in parts.  What the camera holds of its device, at each point. *)
Control == "control" \in claims
Nothing == ~handle /\ ~device /\ ref = 0 /\ ~Control

DeviceInv ==
  /\ Quiet \/ api = "connect" =>
       /\ handle = device /\ ref = (IF handle THEN 2 ELSE 0)
       /\ Control <=> handle
  /\ api \in {"wrap", "failed"} => Nothing
  /\ api = "claim" => ~handle /\ ~device /\ ref = 1 /\ ~Control
  /\ api = "attach" => ~handle /\ ~device /\ ref = 1 /\ Control
  /\ api = "connected" => handle /\ ~device /\ ref = 1 /\ Control
  /\ api \in {"close", "usbClose", "join", "free"} => handle /\ device /\ ref = 2
  /\ api \in {"usbClose", "join", "free"} => ~Control
  /\ api = "unref" => ~handle /\ ref = (IF device THEN 1 ELSE 0) /\ ~Control
  /\ api = "closeFd" => Nothing

(* Whose the claim of the streaming interface is: a preview has it, and has its
   handle, and without a preview a negotiation is to blame. *)
ClaimInv ==
  /\ preview # "off" => handle /\ "streaming" \in claims /\ api \in {"idle", "connect", "stop"}
  /\ "streaming" \in claims => preview # "off" \/ unstreamed

(* Which descriptor it has, and that release will close it. *)
Connecting == {"wrap", "claim", "attach", "connected", "failed"}

FileInv ==
  /\ api \in Connecting =>
       \/ fd = NoFd /\ open = {} /\ api \in {"wrap", "failed"}
       \/ fd \in Nat /\ fd \notin foreign /\ open = {fd}
  /\ api \notin Connecting /\ handle => open = {mFd} /\ mFd \notin foreign
  /\ api = "unref" => open = IF device THEN {mFd} ELSE {}
  /\ api = "closeFd" => open \subseteq {mFd} /\ (open # {} => usbFs)
  /\ api \notin Connecting \cup {"unref", "closeFd", "crashed"} /\ ~handle => open = {}
  /\ handle \/ device \/ api \in Connecting \cup {"connect"} => usbFs

(* The event thread. *)
EventInv ==
  /\ ~handle => events = "none"
  /\ api = "join" => events # "callback"
  /\ api = "free" => events = "none"

(* mFd is a descriptor of the rest of the process, and release would close it,
   only after a failure. *)
StrayInv ==
  api \in {"idle", "stop", "unref", "closeFd"} /\ usbFs /\ result # "failed" =>
    mFd \notin foreign

FiniteInv == IsFiniteSet(open) /\ IsFiniteSet(foreign)

CInv ==
  TypeOK /\ FiniteInv /\ DeviceInv /\ ClaimInv /\ FileInv /\ EventInv /\ StrayInv

-----------------------------------------------------------------------------
LEMMA CameraInit == Init => CInv
<1> SUFFICES ASSUME Init PROVE CInv
  OBVIOUS
<1>1. foreign \subseteq Nat /\ given \in Nat /\ opens \in 0..MaxOpens
  BY CameraAssumption DEF Init
<1>3. TypeOK
  BY <1>1 DEF Init, TypeOK, ApiPoints, NoFd
<1>2. FiniteInv
  BY CameraAssumption, FS_EmptySet DEF Init, FiniteInv
<1> QED BY <1>2, <1>3 DEF Init, CInv, DeviceInv, ClaimInv, Control, FileInv, EventInv, StrayInv,
      Nothing, Quiet,
      Connecting

(* The calls of the application. *)
LEMMA CallsKeep ==
  ASSUME CInv, Call PROVE CInv'
<1> USE DEF CInv, FiniteInv, thread, dev, files, usb, Control
<1>1. CASE InitCamera
  <2>1. opens' \in 0..MaxOpens
    BY <1>1, CameraAssumption DEF InitCamera, TypeOK
  <2>2. context' \in BOOLEAN
    BY <1>1, Zenon DEF InitCamera, TypeOK
  <2>3. CASE UNCHANGED <<given, foreign, usb>>
    BY <1>1, <2>1, <2>2, <2>3 DEF InitCamera, TypeOK, ApiPoints, DeviceInv, ClaimInv, FileInv,
       EventInv, StrayInv, Nothing, Quiet, Connecting
  <2>4. CASE ~handle /\ NewConnection
    <3>1. LowestFree \in Nat
      BY LowestFreeIsFree
    <3>2. TypeOK'
      BY <1>1, <2>1, <2>2, <2>4, <3>1 DEF InitCamera, NewConnection, TypeOK, ApiPoints
    <3>3. FiniteInv'
      BY <1>1, <2>4, FS_AddElement DEF InitCamera, NewConnection
    <3>4. DeviceInv' /\ ClaimInv'
      BY <1>1, <2>4 DEF InitCamera, NewConnection, DeviceInv, ClaimInv, Nothing, Quiet
    <3>5. FileInv' /\ EventInv' /\ StrayInv'
      BY <1>1, <2>4 DEF InitCamera, NewConnection, FileInv, EventInv, StrayInv, Connecting
    <3> QED BY <3>2, <3>3, <3>4, <3>5
  <2> QED BY <1>1, <2>3, <2>4 DEF InitCamera
<1>2. CASE StartPreview
  <2> DEFINE Outcome ==
        \/ preview' = "on" /\ claims' = claims \cup {"streaming"} /\ unstreamed' = FALSE
        \/ claims' = claims /\ unstreamed' = unstreamed /\ preview' = preview
        \/ claims' = claims /\ unstreamed' = TRUE /\ preview' = preview
        \/ claims' = claims \cup {"streaming"} /\ unstreamed' = TRUE /\ preview' = preview
        \/ claims' = claims \ {"streaming"} /\ unstreamed' = FALSE /\ preview' = preview
  <2>5. Outcome
    BY <1>2 DEF StartPreview, MayClaim
  <2>6. claims' \subseteq Interfaces /\ unstreamed' \in BOOLEAN /\ preview' \in {"off", "on", "stopping"}
    BY <2>5 DEF TypeOK, Interfaces
  <2>7. Control' <=> Control
    BY <2>5
  <2>1. TypeOK'
    BY <1>2, <2>6 DEF StartPreview, TypeOK, ApiPoints
  <2>2. DeviceInv' /\ ClaimInv'
    <3>1. api = "idle" /\ handle /\ preview = "off"
      BY <1>2 DEF StartPreview
    <3>2. UNCHANGED <<handle, device, ref, api>>
      BY <1>2 DEF StartPreview
    <3>3. ClaimInv'
      BY <2>5, <3>1, <3>2 DEF ClaimInv
    <3> HIDE DEF Outcome
    <3>4. DeviceInv'
      BY <2>7, <3>1, <3>2 DEF DeviceInv, Quiet
    <3> QED BY <3>3, <3>4
  <2>3. FileInv' /\ StrayInv'
    BY <1>2 DEF StartPreview, FileInv, StrayInv, Connecting
  <2>4. EventInv' /\ FiniteInv'
    BY <1>2 DEF StartPreview, TypeOK, EventInv, DeviceInv
  <2> QED BY <2>1, <2>2, <2>3, <2>4
<1>6. CASE SetPreviewSize
  <2>1. TypeOK'
    BY <1>6 DEF SetPreviewSize, MayClaim, TypeOK, ApiPoints, Interfaces
  <2>2. DeviceInv' /\ ClaimInv'
    BY <1>6 DEF SetPreviewSize, MayClaim, TypeOK, Interfaces, DeviceInv, ClaimInv, Nothing, Quiet
  <2>3. FileInv' /\ StrayInv'
    BY <1>6 DEF SetPreviewSize, FileInv, StrayInv, Connecting
  <2>4. EventInv' /\ FiniteInv'
    BY <1>6 DEF SetPreviewSize, TypeOK, EventInv, DeviceInv
  <2> QED BY <2>1, <2>2, <2>3, <2>4
<1>3. CASE StopPreview
  BY <1>3 DEF StopPreview, TypeOK, ApiPoints, DeviceInv, ClaimInv, FileInv, EventInv, StrayInv,
     Nothing, Quiet, Connecting
<1>4. CASE Release
  BY <1>4 DEF Release, TypeOK, ApiPoints, DeviceInv, ClaimInv, FileInv, EventInv, StrayInv,
     Nothing, Quiet, Connecting
<1>5. CASE Destroy
  BY <1>5 DEF Destroy, TypeOK, ApiPoints, DeviceInv, ClaimInv, FileInv, EventInv, StrayInv,
     Nothing, Quiet, Connecting
<1> QED BY <1>1, <1>2, <1>3, <1>4, <1>5, <1>6 DEF Call

(* connect, with its failures. *)
LEMMA ConnectKeeps ==
  ASSUME CInv, ConnectStep PROVE CInv'
<1> USE DEF CInv, FiniteInv, thread, dev, files, usb, Control
<1>1. CASE AlreadyConnected
  <2>1. TypeOK' /\ FiniteInv'
    BY <1>1 DEF AlreadyConnected, TypeOK, ApiPoints
  <2>2. DeviceInv' /\ ClaimInv' /\ EventInv'
    BY <1>1 DEF AlreadyConnected, DeviceInv, ClaimInv, EventInv, Nothing, Quiet
  <2>3. FileInv' /\ StrayInv'
    BY <1>1 DEF AlreadyConnected, FileInv, StrayInv, Connecting
  <2> QED BY <2>1, <2>2, <2>3
<1>2. CASE Dup
  <2>1. LowestFree \in Nat /\ LowestFree \notin open \cup foreign
    BY LowestFreeIsFree
  <2>2. FiniteInv'
    BY <1>2, FS_AddElement DEF Dup
  <2>3. TypeOK'
    BY <1>2, <2>1 DEF Dup, TypeOK, ApiPoints
  <2>4. DeviceInv' /\ ClaimInv' /\ EventInv'
    BY <1>2 DEF Dup, TypeOK, DeviceInv, ClaimInv, EventInv, Nothing, Quiet
  <2>5. FileInv' /\ StrayInv'
    BY <1>2, <2>1 DEF Dup, FileInv, StrayInv, Connecting
  <2> QED BY <2>2, <2>3, <2>4, <2>5
<1>11. CASE DupFails
  <2>1. TypeOK' /\ FiniteInv'
    BY <1>11 DEF DupFails, TypeOK, ApiPoints
  <2>2. DeviceInv' /\ ClaimInv' /\ EventInv'
    BY <1>11 DEF DupFails, TypeOK, DeviceInv, ClaimInv, EventInv, Nothing, Quiet
  <2>3. FileInv' /\ StrayInv'
    BY <1>11 DEF DupFails, FileInv, StrayInv, Connecting
  <2> QED BY <2>1, <2>2, <2>3
<1>3. CASE WrapWithoutContext
  BY <1>3 DEF WrapWithoutContext, TypeOK, ApiPoints, DeviceInv, ClaimInv, FileInv, EventInv,
     StrayInv,
     Nothing, Quiet, Connecting
<1>4. CASE WrapFails
  BY <1>4 DEF WrapFails, TypeOK, ApiPoints, DeviceInv, ClaimInv, FileInv, EventInv, StrayInv,
     Nothing, Quiet, Connecting
<1>5. CASE RefDevice
  BY <1>5 DEF RefDevice, TypeOK, ApiPoints, DeviceInv, ClaimInv, FileInv, EventInv, StrayInv,
     Nothing, Quiet, Connecting
<1>6. CASE ClaimControl
  BY <1>6 DEF ClaimControl, TypeOK, ApiPoints, Interfaces, DeviceInv, ClaimInv, FileInv,
     EventInv, StrayInv,
     Nothing, Quiet, Connecting
<1>7. CASE OpenFails
  BY <1>7 DEF OpenFails, TypeOK, ApiPoints, DeviceInv, ClaimInv, FileInv, EventInv, StrayInv,
     Nothing, Quiet, Connecting
<1>8. CASE AttachHandle
  BY <1>8 DEF AttachHandle, TypeOK, ApiPoints, DeviceInv, ClaimInv, FileInv, EventInv, StrayInv,
     Nothing, Quiet, Connecting
<1>9. CASE Connected
  BY <1>9 DEF Connected, TypeOK, ApiPoints, NoFd, DeviceInv, ClaimInv, FileInv, EventInv,
     StrayInv,
     Nothing, Quiet, Connecting
<1>10. CASE ConnectFails
  <2>1. FiniteInv'
    BY <1>10, FS_RemoveElement DEF ConnectFails
  <2> QED BY <1>10, <2>1 DEF ConnectFails, TypeOK, ApiPoints, NoFd, DeviceInv, ClaimInv, FileInv,
        EventInv, StrayInv, Nothing, Quiet, Connecting
<1> QED BY <1>1, <1>2, <1>3, <1>4, <1>5, <1>6, <1>7, <1>8, <1>9, <1>10, <1>11
     DEF ConnectStep

(* release, and the end of stopPreview. *)
LEMMA ReleaseKeeps ==
  ASSUME CInv, ReleaseStep \/ PreviewStopped PROVE CInv'
<1> USE DEF CInv, FiniteInv, thread, dev, files, usb, Control
<1>1. CASE PreviewStopped
  BY <1>1 DEF PreviewStopped, TypeOK, ApiPoints, DeviceInv, ClaimInv, FileInv, EventInv, StrayInv,
     Nothing, Quiet, Connecting
<1>2. CASE Close
  BY <1>2 DEF Close, TypeOK, ApiPoints, DeviceInv, ClaimInv, FileInv, EventInv, StrayInv,
     Nothing, Quiet, Connecting
<1>3. CASE UsbClose
  <2>1. TypeOK'
    BY <1>3 DEF UsbClose, TypeOK, ApiPoints, Interfaces
  <2>2. DeviceInv' /\ ClaimInv'
    BY <1>3 DEF UsbClose, TypeOK, Interfaces, DeviceInv, ClaimInv, Nothing, Quiet
  <2>3. FileInv' /\ StrayInv'
    BY <1>3 DEF UsbClose, FileInv, StrayInv, Connecting
  <2>4. EventInv'
    BY <1>3 DEF UsbClose, TypeOK, EventInv, DeviceInv
  <2> QED BY <1>3, <2>1, <2>2, <2>3, <2>4 DEF UsbClose
<1>4. CASE JoinEvents
  <2>1. TypeOK'
    BY <1>4 DEF JoinEvents, TypeOK, ApiPoints, Interfaces
  <2>2. DeviceInv' /\ ClaimInv'
    BY <1>4 DEF JoinEvents, TypeOK, Interfaces, DeviceInv, ClaimInv, Nothing, Quiet
  <2>3. FileInv' /\ StrayInv'
    BY <1>4 DEF JoinEvents, FileInv, StrayInv, Connecting
  <2>4. EventInv'
    BY <1>4 DEF JoinEvents, TypeOK, EventInv, DeviceInv
  <2> QED BY <1>4, <2>1, <2>2, <2>3, <2>4 DEF JoinEvents
<1>5. CASE FreeHandle
  <2>1. DeviceInv' /\ ClaimInv'
    BY <1>5 DEF FreeHandle, TypeOK, DeviceInv, ClaimInv, Nothing, Quiet
  <2>2. TypeOK'
    <3>1. ref' \in Nat
      BY <1>5 DEF FreeHandle, DeviceInv
    <3>2. handle' \in BOOLEAN /\ device' \in BOOLEAN /\ api' \in ApiPoints
      BY <1>5 DEF FreeHandle, TypeOK, ApiPoints
    <3>3. UNCHANGED <<usbFs, context, kill, events, files, usb, preview, opens, result>>
      BY <1>5 DEF FreeHandle
    <3> QED BY <3>1, <3>2, <3>3, Zenon DEF TypeOK
  <2>3. FileInv' /\ StrayInv'
    BY <1>5 DEF FreeHandle, TypeOK, FileInv, StrayInv, DeviceInv, Connecting
  <2>4. EventInv'
    BY <1>5 DEF FreeHandle, TypeOK, EventInv
  <2> QED BY <1>5, <2>1, <2>2, <2>3, <2>4 DEF FreeHandle
<1>6. CASE UnrefDevice
  <2>1. DeviceInv' /\ ClaimInv'
    <3>1. CASE device
      BY <1>6, <3>1 DEF UnrefDevice, DeviceInv, ClaimInv, Nothing, Quiet
    <3>2. CASE ~device
      BY <1>6, <3>2 DEF UnrefDevice, DeviceInv, ClaimInv, Nothing, Quiet
    <3> QED BY <3>1, <3>2
  <2>2. TypeOK'
    <3>1. ref' \in Nat
      BY <1>6, <2>1 DEF UnrefDevice, DeviceInv
    <3>2. device' \in BOOLEAN /\ handle' \in BOOLEAN /\ api' \in ApiPoints
      BY <1>6 DEF UnrefDevice, TypeOK, ApiPoints
    <3>3. UNCHANGED <<usbFs, context, kill, events, files, usb, preview, opens, result>>
      BY <1>6 DEF UnrefDevice
    <3> QED BY <3>1, <3>2, <3>3, Zenon DEF TypeOK
  <2>3. FileInv' /\ StrayInv'
    <3>1. CASE device
      BY <1>6, <3>1 DEF UnrefDevice, FileInv, StrayInv, DeviceInv, Connecting
    <3>2. CASE ~device
      BY <1>6, <3>2 DEF UnrefDevice, FileInv, StrayInv, DeviceInv, Connecting
    <3> QED BY <3>1, <3>2
  <2>4. EventInv'
    BY <1>6 DEF UnrefDevice, TypeOK, EventInv
  <2> QED BY <1>6, <2>1, <2>2, <2>3, <2>4 DEF UnrefDevice
<1>7. CASE CloseFd
  <2>1. FiniteInv'
    BY <1>7, FS_RemoveElement DEF CloseFd
  <2> QED BY <1>7, <2>1 DEF CloseFd, TypeOK, ApiPoints, DeviceInv, ClaimInv, FileInv, EventInv,
        StrayInv, Nothing, Quiet, Connecting
<1> QED BY <1>1, <1>2, <1>3, <1>4, <1>5, <1>6, <1>7 DEF ReleaseStep

(* The event thread. *)
LEMMA EventsKeep ==
  ASSUME CInv, TransferCallback \/ EventStep PROVE CInv'
<1> USE DEF CInv, FiniteInv, thread, dev, files, usb, Control, TypeOK, DeviceInv,
            ClaimInv, FileInv, EventInv, StrayInv, Nothing, Quiet, Connecting
<1>1. CASE TransferCallback
  <2>1. TypeOK' /\ FiniteInv' /\ StrayInv'
    BY <1>1 DEF TransferCallback
  <2>2. DeviceInv' /\ ClaimInv'
    BY <1>1 DEF TransferCallback
  <2>3. FileInv' /\ EventInv'
    BY <1>1 DEF TransferCallback
  <2> QED BY <2>1, <2>2, <2>3
<1>2. CASE HandleEvents
  BY <1>2 DEF HandleEvents
<1>3. CASE EndEvents
  BY <1>3 DEF EndEvents
<1>4. CASE CallbackReturns
  BY <1>4 DEF CallbackReturns
<1> QED BY <1>1, <1>2, <1>3, <1>4 DEF EventStep

LEMMA CameraStep == CInv /\ [Next]_vars => CInv'
<1> SUFFICES ASSUME CInv, [Next]_vars PROVE CInv'
  OBVIOUS
<1>1. CASE UNCHANGED vars
  BY <1>1 DEF vars, thread, dev, files, usb, Control, CInv, FiniteInv, TypeOK, DeviceInv,
     ClaimInv, FileInv, EventInv, StrayInv,
     Nothing, Quiet, Connecting
<1> QED BY <1>1, CallsKeep, ConnectKeeps, ReleaseKeeps, EventsKeep DEF Next, CallInProgress

LEMMA CameraInvariant == Spec => []CInv
BY CameraInit, CameraStep, PTL DEF Spec

-----------------------------------------------------------------------------
(* Theorems *)

(* Types hold, and the count of references never falls below zero. *)
THEOREM CameraTypes == Spec => []TypeOK
<1>1. CInv => TypeOK
  BY DEF CInv
<1> QED BY <1>1, CameraInvariant, PTL

(* Whichever step of connect fails, in whatever order connects and releases come,
   the device has the references of its handle and of the camera, or none. *)
THEOREM ReferencesAlwaysBalance == Spec => []ReferencesBalance
<1>1. CInv => ReferencesBalance
  BY DEF CInv, DeviceInv, ReferencesBalance
<1> QED BY <1>1, CameraInvariant, PTL

(* ... and no descriptor is leaked; the control interface is claimed while there is
   a handle, and the streaming interface outlives the preview only by a negotiation
   that no stream followed. *)
THEOREM DescriptorsAlwaysBalance == Spec => []DescriptorsBalance
<1>1. CInv => DescriptorsBalance
  BY DEF CInv, DeviceInv, Control, ClaimInv, FileInv, Quiet, Connecting, DescriptorsBalance
<1> QED BY <1>1, CameraInvariant, PTL

(* libusb_close and the join end the callbacks, and the event thread, before the
   handle is freed. *)
THEOREM HandleOutlivesCallbacks == Spec => []NoCallbackAfterFree
<1>1. CInv => NoCallbackAfterFree
  BY DEF CInv, DeviceInv, Nothing, EventInv, NoCallbackAfterFree
<1> QED BY <1>1, CameraInvariant, PTL

(* A descriptor that is not the camera's is closed only after a connect that failed:
   no release after a connect that succeeded does so. *)
THEOREM StrayCloseOnlyAfterFailure == Spec => StrayCloseAfterFailure
<1>1. CInv /\ [Next]_vars => [foreign \ foreign' # {} => result = "failed"]_vars
  <2> SUFFICES ASSUME CInv, Next, foreign \ foreign' # {} PROVE result = "failed"
    BY DEF vars, files
  <2>1. CloseFd
    BY DEF Next, Call, CallInProgress, ConnectStep, ReleaseStep, EventStep, files,
       InitCamera, NewConnection, StartPreview, SetPreviewSize, StopPreview, Release, Destroy,
       AlreadyConnected, Dup, DupFails, WrapWithoutContext, WrapFails, RefDevice,
       ClaimControl, OpenFails, AttachHandle, Connected, ConnectFails, PreviewStopped, Close,
       UsbClose, JoinEvents, FreeHandle, UnrefDevice,
       TransferCallback, HandleEvents, EndEvents, CallbackReturns
  <2> QED BY <2>1 DEF CloseFd, CInv, StrayInv
<1> QED BY <1>1, CameraInvariant, PTL DEF Spec, StrayCloseAfterFailure
=============================================================================
