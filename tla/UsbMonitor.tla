----------------------------- MODULE UsbMonitor -----------------------------
(***************************************************************************)
(* The application above the camera: MainViewModel, USBRepository,          *)
(* USBDataSource (the USB monitor) and the one LibUvcCamera they share.     *)
(* Three threads: the main thread handles events and broadcasts; two        *)
(* handler threads run the tasks that open devices and cameras.             *)
(*                                                                         *)
(* Android, the user and the cable are outside the repository: permissions  *)
(* are granted or not, a broadcast arrives with the device it is about or   *)
(* without, a device that is unplugged stays away.  An exception nobody     *)
(* catches ends the process.  mHasPermission is left out: it decides about  *)
(* calls of onAttach alone, which does nothing.                            *)
(***************************************************************************)
EXTENDS Integers, Sequences, FiniteSets, SequencesExt

CONSTANTS
  Devices,       \* what can be plugged in, by its name
  NoDevice,
  MaxStarts,     \* bound: StartCamera events
  MaxBroadcasts  \* bound: answers to permission requests

ASSUME MonitorAssumption ==
  /\ NoDevice \notin Devices /\ IsFiniteSet(Devices)
  /\ MaxStarts \in Nat /\ MaxBroadcasts \in Nat

Handlers == {"async", "sec"}

(* What a handler is asked to connect.  The tasks of a list read the map of the
   blocks once more before they use the block. *)
Jobs == [device : Devices \cup {NoDevice}, again : BOOLEAN]

OfList(d)      == [device |-> d, again |-> TRUE]
OfBroadcast(d) == [device |-> d, again |-> FALSE]

VARIABLES
  context,    \* mWeakContext still refers to the context
  attached,   \* devices that are plugged in
  granted,    \* devices the user has given to the application
  broadcasts, \* answers delivered
  starts,     \* StartCamera events handled
  main,       \* control point of the main thread
  list,       \* the device list MainViewModel.requestPermission works on
  intent,     \* mPermissionIntent # null
  destroyed,  \* isDestroyed
  checks,     \* copies of mDeviceCheckRunnable in the queue of mAsyncHandler
  tasks,      \* the other tasks of each handler
  quit,       \* its looper has quit
  at,         \* control point of its thread
  device,     \* the device its task is about
  again,      \* that task reads the map again
  blocks,     \* the devices that have an open connection in mCtrlBLocks
  orphans,    \* connections that are open and in no block of the map
  handle,     \* mDeviceHandle, as the device it is of
  preview,    \* mPreview, as the device it is of
  threads,    \* preview threads of it
  lost,       \* handles overwritten while open
  freed,      \* nativeDestroy was called
  alive,      \* the process
  uses        \* what happened, for the properties

usb     == <<context, attached, granted, broadcasts>>
monitor == <<intent, destroyed, checks, blocks, orphans>>
handler == <<at, device, again>>
camera  == <<handle, preview, threads, lost, freed>>
vars == <<usb, monitor, handler, camera, starts, main, list, tasks, quit, alive, uses>>

Init ==
  /\ context = TRUE /\ attached = Devices /\ granted = {} /\ broadcasts = 0
  /\ starts = 0 /\ main = "looper" /\ list = <<>>
  /\ intent = FALSE /\ destroyed = FALSE /\ checks = 0
  /\ tasks = [h \in Handlers |-> <<>>] /\ quit = [h \in Handlers |-> FALSE]
  /\ at = [h \in Handlers |-> "idle"] /\ device = [h \in Handlers |-> NoDevice]
  /\ again = [h \in Handlers |-> FALSE]
  /\ blocks = {} /\ orphans = 0
  /\ handle = NoDevice /\ preview = NoDevice /\ threads = 0 /\ lost = {} /\ freed = FALSE
  /\ alive = TRUE /\ uses = {}

Die == alive' = FALSE

-----------------------------------------------------------------------------
(* Nothing but the monitor refers to the context any more: it is collected.  Only a
   register without an intent reads it, so it matters no earlier than that. *)
CollectContext ==
  /\ alive /\ context /\ ~intent /\ main = "looper"
  /\ context' = FALSE
  /\ UNCHANGED <<attached, granted, broadcasts, monitor, handler, camera, starts, main, list,
                 tasks, quit, alive, uses>>

(* A cable is pulled. *)
Detach(d) ==
  /\ alive /\ d \in attached
  /\ attached' = attached \ {d} /\ granted' = granted \ {d}
  /\ uses' = uses \cup {"unplugged"}
  /\ UNCHANGED <<context, broadcasts, monitor, handler, camera, starts, main, list, tasks,
                 quit, alive>>

(* The user says yes in the dialog the main thread is waiting for. *)
Grant(d) ==
  /\ alive /\ main = "asking" /\ d \in (ToSet(list) \cap attached) \ granted
  /\ granted' = granted \cup {d}
  /\ UNCHANGED <<context, attached, broadcasts, monitor, handler, camera, starts, main,
                 list, tasks, quit, alive, uses>>

-----------------------------------------------------------------------------
(* The main thread. *)

(* A post to a looper that has quit is refused. *)
Post(t, h, j) == IF quit[h] THEN t ELSE [t EXCEPT ![h] = Append(@, j)]

(* A check posted by every register. *)
PostCheckAlways == checks + 1

(* register posts the check when there is no intent, also where it cannot make
   one because the context is gone. *)
PostCheck == IF intent THEN checks ELSE checks + 1

(* StartCamera: register, then the list of the devices that match the filter,
   in no order. *)
StartCamera ==
  /\ alive /\ main \in {"looper", "over"} /\ starts < MaxStarts
  /\ starts' = starts + 1
  /\ \/ destroyed /\ Die /\ UNCHANGED <<intent, checks, main, list, uses>>
     \/ /\ ~destroyed
        /\ intent' = (intent \/ context)
        /\ checks' = PostCheck
        /\ \E S \in SUBSET attached :
             /\ list' \in SetToSeqs(S)
             /\ uses' = uses \cup (IF S = {} THEN {"no device"}
                                ELSE IF Cardinality(S) > 1 THEN {"two devices"} ELSE {})
        /\ main' = "asking"
        /\ UNCHANGED alive
  /\ UNCHANGED <<usb, destroyed, blocks, orphans, handler, camera, tasks, quit>>

ConnectList ==
  /\ tasks' = LET t == Post(tasks, "async",
                            OfList(IF list = <<>> THEN NoDevice ELSE list[1]))
              IN IF Len(list) > 1 THEN Post(t, "sec", OfList(list[2])) ELSE t
  /\ main' = "looper" /\ list' = <<>>
  /\ UNCHANGED <<usb, monitor, handler, camera, starts, quit, alive, uses>>

(* One device is permitted, and all are connected. *)
AskForAny ==
  /\ alive /\ main = "asking" /\ intent
  /\ list = <<>> \/ ToSet(list) \cap granted # {}
  /\ ConnectList

(* The loop in MainViewModel.requestPermission, which asks for all devices until
   all are permitted.  Then processConnect posts the first to mAsyncHandler and
   the second to mSecAsyncHandler; it does so with an empty list too. *)
Ask ==
  /\ alive /\ main = "asking" /\ intent
  /\ ToSet(list) \subseteq granted
  /\ ConnectList

(* The loop ends as well, with nothing connected, when there is no intent to ask
   with or when asking for a device throws. *)
GiveUp ==
  /\ alive /\ main = "asking"
  /\ intent => ~ (ToSet(list) \subseteq granted)
  /\ main' = "looper" /\ list' = <<>>
  /\ UNCHANGED <<usb, monitor, handler, camera, starts, tasks, quit, alive, uses>>

(* The camera is opened where the broadcast is received. *)
PermissionOnAnyHandler(d) ==
  /\ alive /\ main = "looper" /\ intent /\ ~destroyed
  /\ d \in granted /\ broadcasts < MaxBroadcasts
  /\ broadcasts' = broadcasts + 1
  /\ \E h \in Handlers : tasks' = Post(tasks, h, OfBroadcast(d))
  /\ UNCHANGED <<context, attached, granted, monitor, handler, camera, starts, main, list,
                 quit, alive, uses>>

(* mUsbReceiver hears that d was granted, and connects it once more.  A refusal
   and an answer without a device change nothing here. *)
PermissionGranted(d) ==
  /\ alive /\ main = "looper" /\ intent /\ ~destroyed
  /\ d \in granted /\ broadcasts < MaxBroadcasts
  /\ broadcasts' = broadcasts + 1
  /\ tasks' = Post(tasks, "async", OfBroadcast(d))
  /\ UNCHANGED <<context, attached, granted, monitor, handler, camera, starts, main, list,
                 quit, alive, uses>>

(* mUsbReceiver hears that d was detached, in a broadcast that names it.  The
   block is closed, and close calls onDisconnect, which throws an Error. *)
Detached(d) ==
  /\ alive /\ main = "looper" /\ intent /\ ~destroyed
  /\ d \in blocks \ attached
  /\ blocks' = blocks \ {d} /\ Die
  /\ UNCHANGED <<usb, intent, destroyed, checks, orphans, handler, camera, starts, main,
                 list, tasks, quit, uses>>

(* Release: stopPreview, unregister and release, destroy. *)
StopPreview ==
  /\ alive /\ main = "looper"
  /\ threads' = IF preview = NoDevice THEN threads ELSE 0
  /\ main' = "unregister" /\ uses' = uses \cup {"released"}
  /\ UNCHANGED <<usb, monitor, handler, handle, preview, lost, freed, starts, list, tasks,
                 quit, alive>>

Unregister ==
  /\ alive /\ main = "unregister"
  /\ checks' = 0 /\ intent' = FALSE
  /\ main' = "release"
  /\ UNCHANGED <<usb, destroyed, blocks, orphans, handler, camera, starts, list, tasks, quit,
                 alive, uses>>

ReleaseCamera ==
  /\ alive /\ main = "release"
  /\ handle' = NoDevice
  /\ preview' = IF handle = NoDevice THEN preview ELSE NoDevice
  /\ threads' = IF handle = NoDevice THEN threads ELSE 0
  /\ main' = "destroy"
  /\ UNCHANGED <<usb, monitor, handler, lost, freed, starts, list, tasks, quit, alive, uses>>

(* destroy unregisters once more, for a check that was posted since.  The first
   block that is closed ends the process. *)
CloseBlocks ==
  /\ alive /\ main = "destroy"
  /\ destroyed' = TRUE /\ checks' = 0
  /\ \/ (\E d \in blocks : blocks' = blocks \ {d}) /\ Die /\ UNCHANGED main
     \/ blocks = {} /\ main' = "quit" /\ UNCHANGED <<blocks, alive>>
  /\ UNCHANGED <<usb, intent, orphans, handler, camera, starts, list, tasks, quit,
                 uses>>

(* The second looper is forgotten. *)
QuitFirstLooper ==
  /\ alive /\ main = "quit"
  /\ blocks' = {} /\ orphans' = orphans + Cardinality(blocks)
  /\ quit' = [quit EXCEPT !["async"] = TRUE] /\ tasks' = [tasks EXCEPT !["async"] = <<>>]
  /\ checks' = 0
  /\ main' = "free"
  /\ UNCHANGED <<usb, intent, destroyed, handler, camera, starts, list, alive, uses>>

(* mCtrlBLocks.clear forgets a block that was put meanwhile.  What is queued in a
   looper that quits is dropped; a task that runs goes on. *)
QuitLoopers ==
  /\ alive /\ main = "quit"
  /\ blocks' = {} /\ orphans' = orphans + Cardinality(blocks)
  /\ quit' = [h \in Handlers |-> TRUE] /\ tasks' = [h \in Handlers |-> <<>>] /\ checks' = 0
  /\ main' = "free"
  /\ UNCHANGED <<usb, intent, destroyed, handler, camera, starts, list, alive, uses>>

DestroyCamera ==
  /\ alive /\ main = "free"
  /\ freed' = TRUE /\ main' = "over"
  /\ UNCHANGED <<usb, monitor, handler, handle, preview, threads, lost, starts, list, tasks,
                 quit, alive, uses>>

-----------------------------------------------------------------------------
(* A handler thread. *)

Goto(h, point) == at' = [at EXCEPT ![h] = point]

(* A task of an empty list has no element 0. *)
Begin(h) ==
  /\ alive /\ at[h] = "idle" /\ tasks[h] # <<>>
  /\ tasks' = [tasks EXCEPT ![h] = Tail(@)]
  /\ device' = [device EXCEPT ![h] = Head(tasks[h]).device]
  /\ again' = [again EXCEPT ![h] = Head(tasks[h]).again]
  /\ IF Head(tasks[h]).device = NoDevice THEN Die /\ UNCHANGED at
                                         ELSE Goto(h, "look") /\ UNCHANGED alive
  /\ UNCHANGED <<usb, monitor, camera, starts, main, list, quit, uses>>

Found(h) == IF again[h] THEN "reread" ELSE "test"

(* mCtrlBLocks[device] is read ... *)
Look(h) ==
  /\ alive /\ at[h] = "look"
  /\ Goto(h, IF device[h] \in blocks THEN Found(h) ELSE "open")
  /\ UNCHANGED <<usb, monitor, device, again, camera, starts, main, list, tasks, quit, alive, uses>>

(* ... and written.  openDevice returns no connection for a device that is not
   there or not permitted, and the constructor of UsbControlBlock throws. *)
OpenBlock(h) ==
  /\ alive /\ at[h] = "open"
  /\ IF device[h] \in granted
     THEN /\ blocks' = blocks \cup {device[h]}
          /\ orphans' = IF device[h] \in blocks THEN orphans + 1 ELSE orphans
          /\ Goto(h, Found(h)) /\ UNCHANGED alive
     ELSE Die /\ UNCHANGED <<orphans, blocks, at>>
  /\ UNCHANGED <<usb, intent, destroyed, checks, device, again, camera, starts, main, list,
                 tasks, quit, uses>>

(* The block is taken from the map with !!, which throws if the map was cleared
   meanwhile. *)
Reread(h) ==
  /\ alive /\ at[h] = "reread"
  /\ IF device[h] \in blocks THEN Goto(h, "test") /\ UNCHANGED alive
                             ELSE Die /\ UNCHANGED at
  /\ UNCHANGED <<usb, monitor, device, again, camera, starts, main, list, tasks, quit, uses>>

End(h) ==
  /\ Goto(h, "idle")
  /\ device' = [device EXCEPT ![h] = NoDevice] /\ again' = [again EXCEPT ![h] = FALSE]

(* onConnect on a camera that was destroyed: anything may happen. *)
Late(h) == freed /\ End(h) /\ alive' \in BOOLEAN

(* openCamera: UVCCamera::connect tests mDeviceHandle ... *)
TestHandle(h) ==
  /\ alive /\ at[h] = "test"
  /\ \/ Late(h)
     \/ /\ ~freed /\ UNCHANGED <<alive, device, again>>
        /\ Goto(h, IF handle = NoDevice THEN "wrap" ELSE "start")
  /\ UNCHANGED <<usb, monitor, camera, starts, main, list, tasks, quit, uses>>

(* ... and sets it, or sets it to null when the device cannot be opened. *)
Wrap(h) ==
  /\ alive /\ at[h] = "wrap"
  /\ \/ Late(h) /\ UNCHANGED <<handle, preview, threads, lost>>
     \/ /\ ~freed /\ Goto(h, "start") /\ UNCHANGED <<alive, device, again>>
        /\ lost' = lost \cup ({handle} \ {NoDevice})
        /\ \/ handle' = device[h] /\ preview' = device[h] /\ threads' = 0
           \/ handle' = NoDevice /\ UNCHANGED <<preview, threads>>
  /\ UNCHANGED <<usb, monitor, freed, starts, main, list, tasks, quit, uses>>

(* startPreview tests bIsRunning ... *)
TestRunning(h) ==
  /\ alive /\ at[h] = "start"
  /\ \/ Late(h)
     \/ ~freed /\ (preview = NoDevice \/ threads > 0) /\ End(h) /\ UNCHANGED alive
     \/ ~freed /\ preview # NoDevice /\ threads = 0 /\ Goto(h, "run") /\ UNCHANGED <<alive, device, again>>
  /\ UNCHANGED <<usb, monitor, camera, starts, main, list, tasks, quit, uses>>

(* ... and creates a thread. *)
RunPreview(h) ==
  /\ alive /\ at[h] = "run"
  /\ \/ Late(h) /\ UNCHANGED threads
     \/ ~freed /\ End(h) /\ threads' = threads + 1 /\ UNCHANGED alive
  /\ UNCHANGED <<usb, monitor, handle, preview, lost, freed, starts, main, list, tasks,
                 quit, uses>>

(* mDeviceCheckRunnable tests isDestroyed, once every two seconds ... *)
Check ==
  /\ alive /\ at["async"] = "idle" /\ checks > 0
  /\ checks' = checks - 1
  /\ IF destroyed THEN UNCHANGED at ELSE Goto("async", "check")
  /\ UNCHANGED <<usb, intent, destroyed, blocks, orphans, device, again, camera, starts,
                 main, list, tasks, quit, alive, uses>>

(* ... getDeviceList throws if it is set by now; else the check is posted again,
   even if it was removed meanwhile. *)
CheckAgain ==
  /\ alive /\ at["async"] = "check"
  /\ \/ destroyed /\ Die /\ UNCHANGED <<at, checks>>
     \/ /\ ~destroyed /\ Goto("async", "idle") /\ UNCHANGED alive
        /\ checks' = checks + 1
  /\ UNCHANGED <<usb, intent, destroyed, blocks, orphans, device, again, camera, starts,
                 main, list, tasks, quit, uses>>

Task(h) ==
  \/ Begin(h) \/ Look(h) \/ OpenBlock(h) \/ Reread(h)
  \/ TestHandle(h) \/ Wrap(h) \/ TestRunning(h) \/ RunPreview(h)

Release ==
  Unregister \/ ReleaseCamera \/ CloseBlocks \/ QuitLoopers \/ DestroyCamera

Next ==
  \/ \E d \in Devices :
       Detach(d) \/ Grant(d) \/ PermissionGranted(d) \/ Detached(d)
  \/ CollectContext
  \/ StartCamera \/ Ask \/ GiveUp \/ StopPreview \/ Release
  \/ \E h \in Handlers : Task(h)
  \/ Check \/ CheckAgain

Spec == Init /\ [][Next]_vars

-----------------------------------------------------------------------------
(* Properties *)

Points == {"idle", "look", "open", "reread", "test", "wrap", "start", "run", "check"}

(* The copies of the device check that are queued or running. *)
Checks == checks + (IF at["async"] = "check" THEN 1 ELSE 0)

(* There is one at most, unless the context was gone before the first start: each
   start posts one then. *)
TypeOK ==
  /\ context \in BOOLEAN /\ attached \subseteq Devices /\ granted \subseteq attached
  /\ broadcasts \in 0..MaxBroadcasts /\ starts \in 0..MaxStarts
  /\ main \in {"looper", "asking", "unregister", "release", "destroy", "quit", "free", "over"}
  /\ list \in Seq(Devices) /\ intent \in BOOLEAN /\ destroyed \in BOOLEAN
  /\ checks \in Nat /\ Checks <= starts /\ (intent \/ context => Checks <= 1)
  /\ tasks \in [Handlers -> Seq(Jobs)] /\ quit \in [Handlers -> BOOLEAN]
  /\ at \in [Handlers -> Points] /\ device \in [Handlers -> Devices \cup {NoDevice}]
  /\ again \in [Handlers -> BOOLEAN]
  /\ orphans \in Nat /\ blocks \subseteq Devices
  /\ handle \in Devices \cup {NoDevice} /\ preview \in Devices \cup {NoDevice}
  /\ threads \in Nat /\ lost \subseteq Devices
  /\ freed \in BOOLEAN /\ alive \in BOOLEAN

(* With a device at every start, none unplugged and no release, no thread of the
   application throws: no task runs on a device that was not permitted. *)
SurvivesOrdinaryUse ==
  uses \cap {"no device", "unplugged", "released"} = {} => alive

(* All that is tested and set without a lock - the blocks, mDeviceHandle,
   bIsRunning - is so on one thread as long as no start finds two devices: every
   connection opened is in the map, no open camera is overwritten, and it has one
   preview thread, however many broadcasts repeat the connection. *)
OneDeviceIsSafe ==
  alive /\ uses \cap {"two devices", "released"} = {} =>
    /\ orphans = 0
    /\ lost = {} /\ threads <= 1

(* Once the native camera is destroyed no task begins: what still uses it began
   before. *)
QuietAfterDestroy ==
  [][\A h \in Handlers : freed /\ at[h] = "idle" => at'[h] = "idle"]_vars
=============================================================================
