-------------------------- MODULE UsbMonitorProofs --------------------------
(***************************************************************************)
(* Theorems about UsbMonitor, for any set of devices, any number of starts   *)
(* and any number of broadcasts.                                            *)
(***************************************************************************)
EXTENDS UsbMonitor, FiniteSetTheorems, TLAPS

(* The list of the devices that are there is empty when none is, and has one
   element when one is. *)
LEMMA ListOf ==
  ASSUME NEW S \in SUBSET Devices, NEW s \in SetToSeqs(S)
  PROVE  /\ s \in Seq(Devices) /\ Len(s) = Cardinality(S)
         /\ Cardinality(S) \in Nat
         /\ s = <<>> => S = {}
<1>1. IsFiniteSet(S)
  BY MonitorAssumption, FS_Subset DEF MonitorAssumption
<1>2. Cardinality(S) \in Nat /\ (Cardinality(S) = 0 <=> S = {})
  BY <1>1, FS_CardinalityType, FS_EmptySet
<1>3. s \in [1..Cardinality(S) -> S]
  BY DEF SetToSeqs
<1>4. s \in Seq(S) /\ Len(s) = Cardinality(S)
  BY <1>2, <1>3
<1> QED BY <1>2, <1>4

LEMMA TailOf ==
  ASSUME NEW S, NEW s \in Seq(S), s # <<>>
  PROVE  /\ Tail(s) \in Seq(S) /\ Head(s) \in S /\ Head(s) = s[1] /\ 1 \in 1..Len(s)
         /\ \A i \in 1..Len(Tail(s)) : i + 1 \in 1..Len(s) /\ Tail(s)[i] = s[i + 1]
OBVIOUS

-----------------------------------------------------------------------------
(* The invariant, in parts.  Where the main thread is, and what a release has
   done by then. *)
MainInv ==
  /\ main \notin {"looper", "asking"} \/ destroyed => "released" \in uses
  /\ destroyed => main \in {"destroy", "quit", "free", "over"}
  /\ main \in {"quit", "free", "over"} => destroyed
  /\ main \in {"free", "over"} => checks = 0 /\ \A h \in Handlers : tasks[h] = <<>>
  /\ freed => main = "over"
  /\ ~intent /\ context /\ main \in {"looper", "asking"} => Checks = 0

(* As long as nothing is unplugged, every task is about a device the user has
   permitted. *)
PermitInv ==
  "unplugged" \notin uses =>
    /\ \A h \in Handlers : \A i \in 1..Len(tasks[h]) : tasks[h][i].device \in granted \cup {NoDevice}
    /\ \A h \in Handlers : at[h] \in {"look", "open"} => device[h] \in granted
    /\ blocks \subseteq granted

(* As long as every start finds a device, no task is about none. *)
EmptyInv ==
  "no device" \notin uses =>
    /\ main = "asking" => list # <<>>
    /\ \A h \in Handlers : \A i \in 1..Len(tasks[h]) : tasks[h][i].device # NoDevice

(* As long as no start finds two, the second handler rests, and what the first
   tests stays as it was until it sets it. *)
OneInv ==
  uses \cap {"two devices", "released"} = {} =>
    /\ main = "asking" => Len(list) <= 1
    /\ tasks["sec"] = <<>> /\ at["sec"] = "idle"
    /\ orphans = 0 /\ lost = {} /\ threads <= 1
    /\ at["async"] = "open" => device["async"] \notin blocks
    /\ at["async"] = "wrap" => handle = NoDevice
    /\ at["async"] = "run" => threads = 0

(* As long as nothing is unplugged and no release begins, the block a task is
   about to take from the map once more is there. *)
RereadInv ==
  uses \cap {"unplugged", "released"} = {} =>
    \A h \in Handlers : at[h] = "reread" => device[h] \in blocks

UInv ==
  TypeOK /\ MainInv /\ PermitInv /\ EmptyInv /\ OneInv /\ RereadInv /\ SurvivesOrdinaryUse

LEMMA MonitorInit == Init => UInv
<1> SUFFICES ASSUME Init PROVE UInv
  OBVIOUS
<1>1. broadcasts \in 0..MaxBroadcasts /\ starts \in 0..MaxStarts
  BY MonitorAssumption DEF MonitorAssumption, Init
<1>2. TypeOK
  <2>1. list \in Seq(Devices) /\ tasks \in [Handlers -> Seq(Jobs)]
    BY DEF Init
  <2>2. Checks = 0 /\ starts = 0
    BY DEF Init, Handlers, Checks
  <2>3. at \in [Handlers -> Points] /\ device \in [Handlers -> Devices \cup {NoDevice}]
        /\ again \in [Handlers -> BOOLEAN] /\ quit \in [Handlers -> BOOLEAN]
        /\ checks \in Nat
    BY DEF Init, Points
  <2>4. /\ context \in BOOLEAN /\ attached \subseteq Devices /\ granted \subseteq attached /\ intent \in BOOLEAN
        /\ destroyed \in BOOLEAN /\ main = "looper" /\ orphans \in Nat /\ blocks \subseteq Devices
        /\ handle \in Devices \cup {NoDevice} /\ preview \in Devices \cup {NoDevice}
        /\ threads \in Nat /\ lost \subseteq Devices /\ freed \in BOOLEAN /\ alive \in BOOLEAN
    BY DEF Init
  <2> QED BY <1>1, <2>1, <2>2, <2>3, <2>4 DEF TypeOK
<1>3. MainInv /\ PermitInv /\ EmptyInv /\ OneInv /\ RereadInv /\ SurvivesOrdinaryUse
  BY DEF Init, MainInv, PermitInv, EmptyInv, OneInv, RereadInv, SurvivesOrdinaryUse, Handlers,
         Checks
<1> QED BY <1>2, <1>3 DEF UInv

-----------------------------------------------------------------------------
(* The cable, the user and the garbage collector. *)
LEMMA OutsideKeeps ==
  ASSUME UInv, CollectContext \/ \E d \in Devices : Detach(d) \/ Grant(d) PROVE UInv'
<1> USE DEF UInv, usb, monitor, handler, camera
<1>1. CASE CollectContext
  <2>1. TypeOK'
    BY <1>1 DEF CollectContext, TypeOK, Checks
  <2>2. MainInv' /\ PermitInv' /\ EmptyInv' /\ OneInv' /\ RereadInv' /\ SurvivesOrdinaryUse'
    BY <1>1 DEF CollectContext, MainInv, PermitInv, EmptyInv, OneInv, RereadInv,
                SurvivesOrdinaryUse
  <2> QED BY <2>1, <2>2
<1>2. CASE \E d \in Devices : Detach(d) \/ Grant(d)
  <2>1. PICK d \in Devices : Detach(d) \/ Grant(d)
    BY <1>2
  <2>2. CASE Detach(d)
    <3>1. TypeOK'
      BY <2>2 DEF Detach, TypeOK, Checks
    <3>2. MainInv' /\ PermitInv' /\ EmptyInv' /\ OneInv' /\ RereadInv' /\ SurvivesOrdinaryUse'
      BY <2>2 DEF Detach, MainInv, PermitInv, EmptyInv, OneInv, RereadInv, SurvivesOrdinaryUse,
                  Checks
    <3> QED BY <3>1, <3>2
  <2>3. CASE Grant(d)
    <3>1. TypeOK'
      BY <2>3 DEF Grant, TypeOK, Checks
    <3>2. MainInv' /\ PermitInv' /\ EmptyInv' /\ OneInv' /\ RereadInv' /\ SurvivesOrdinaryUse'
      BY <2>3 DEF Grant, MainInv, PermitInv, EmptyInv, OneInv, RereadInv, SurvivesOrdinaryUse,
                  Checks
    <3> QED BY <3>1, <3>2
  <2> QED BY <2>1, <2>2, <2>3
<1> QED BY <1>1, <1>2

(* A post keeps what is queued, and adds the task at the end. *)
LEMMA PostIs ==
  ASSUME NEW t \in [Handlers -> Seq(Jobs)], NEW h \in Handlers,
         NEW d \in Jobs
  PROVE  /\ Post(t, h, d) \in [Handlers -> Seq(Jobs)]
         /\ \A g \in Handlers \ {h} : Post(t, h, d)[g] = t[g]
         /\ \A g \in Handlers : \A i \in 1..Len(Post(t, h, d)[g]) :
              \/ Post(t, h, d)[g][i] = d
              \/ i \in 1..Len(t[g]) /\ Post(t, h, d)[g][i] = t[g][i]
BY DEF Post

LEMMA StartKeeps ==
  ASSUME UInv, StartCamera PROVE UInv'
<1> USE DEF UInv, usb, monitor, handler, camera
<1>1. starts' \in 0..MaxStarts
  <2>1. starts' = starts + 1 /\ starts < MaxStarts
    BY Zenon DEF StartCamera
  <2> QED BY <2>1, MonitorAssumption DEF MonitorAssumption, TypeOK
<1>2. CASE destroyed
  <2>1. TypeOK'
    <3>1. /\ Checks' = Checks /\ starts' = starts + 1 /\ starts \in Nat /\ Checks \in Int
          /\ UNCHANGED <<intent, context>>
      BY <1>2 DEF StartCamera, Checks, TypeOK
    <3>2. Checks' <= starts' /\ (intent' \/ context' => Checks' <= 1)
      BY <3>1 DEF TypeOK
    <3> QED BY <1>1, <1>2, <3>2 DEF StartCamera, Die, TypeOK
  <2>2. MainInv' /\ PermitInv' /\ EmptyInv' /\ OneInv' /\ RereadInv' /\ SurvivesOrdinaryUse'
    BY <1>2 DEF StartCamera, Die, MainInv, PermitInv, EmptyInv, OneInv, RereadInv,
                SurvivesOrdinaryUse, Checks
  <2> QED BY <2>1, <2>2
<1>3. CASE ~destroyed
  <2>1. main = "looper"
    BY <1>3 DEF StartCamera, MainInv
  <2>2. PICK S \in SUBSET attached :
          /\ list' \in SetToSeqs(S)
          /\ uses' = uses \cup (IF S = {} THEN {"no device"}
                                ELSE IF Cardinality(S) > 1 THEN {"two devices"} ELSE {})
    BY <1>3 DEF StartCamera
  <2>3. /\ list' \in Seq(Devices) /\ (list' = <<>> => "no device" \in uses')
        /\ Len(list') > 1 => "two devices" \in uses'
    <3>1. S \in SUBSET Devices
      BY DEF TypeOK
    <3>2. /\ list' \in Seq(Devices) /\ Len(list') = Cardinality(S) /\ (list' = <<>> => S = {})
          /\ Cardinality(S) \in Nat
      BY <2>2, <3>1, ListOf
    <3>3. S = {} => Cardinality(S) = 0
      BY FS_EmptySet
    <3>4. S = {} => "no device" \in uses'
      BY <2>2
    <3>5. Cardinality(S) > 1 => "two devices" \in uses'
      <4>1. SUFFICES ASSUME Cardinality(S) > 1 PROVE "two devices" \in uses'
        OBVIOUS
      <4>2. S # {}
        BY <3>3, <4>1
      <4> QED BY <2>2, <4>1, <4>2, Zenon
    <3> QED BY <3>2, <3>4, <3>5
  <2>4. uses \subseteq uses' /\ ("released" \in uses' => "released" \in uses)
        /\ ("unplugged" \in uses' => "unplugged" \in uses)
    BY <2>2
  <2>5. /\ intent' = (intent \/ context) /\ checks' = PostCheck /\ main' = "asking"
        /\ starts' = starts + 1
        /\ UNCHANGED <<alive, usb, destroyed, blocks, orphans, handler, camera, tasks, quit>>
    BY <1>3 DEF StartCamera
  <2> HIDE DEF UInv
  <2>6. TypeOK'
    <3>1. /\ at' = at /\ checks' = (IF intent THEN checks ELSE checks + 1) /\ checks \in Nat
          /\ starts \in Nat /\ context' = context
      BY <2>5 DEF PostCheck, UInv, TypeOK
    <3>2. /\ Checks' = (IF intent THEN Checks ELSE Checks + 1) /\ Checks \in Nat /\ checks' \in Nat
      BY <3>1 DEF Checks
    <3>3. Checks' <= starts'
      BY <2>5, <3>1, <3>2 DEF UInv, TypeOK
    <3>4. intent' \/ context' => Checks' <= 1
      <4>1. CASE intent
        BY <3>2, <4>1 DEF UInv, TypeOK
      <4>2. CASE ~intent /\ context
        BY <2>1, <3>2, <4>2 DEF UInv, MainInv
      <4>3. CASE ~intent /\ ~context
        <5>1. ~intent' /\ ~context'
          <6>1. intent' = (intent \/ context) /\ context' = context
            BY <2>5, <3>1, Zenon
          <6>2. (intent \/ context) = FALSE
            BY <4>3, Zenon
          <6> QED BY <4>3, <6>1, <6>2, Zenon
        <5> QED BY <5>1
      <4> QED BY <4>1, <4>2, <4>3
    <3>5. intent' \in BOOLEAN
      BY <2>5
    <3> QED BY <1>1, <2>3, <2>5, <3>2, <3>3, <3>4, <3>5 DEF UInv, TypeOK
  <2>7. MainInv'
    BY <2>1, <2>4, <2>5 DEF UInv, MainInv
  <2>8. PermitInv' /\ RereadInv' /\ SurvivesOrdinaryUse'
    BY <2>4, <2>5 DEF UInv, PermitInv, RereadInv, SurvivesOrdinaryUse
  <2>9. EmptyInv'
    BY <2>3, <2>4, <2>5 DEF UInv, EmptyInv
  <2>10. OneInv'
    <3>1. list' \in Seq(Devices) /\ (Len(list') <= 1 \/ "two devices" \in uses')
      <4>1. list' \in Seq(Devices)
        BY <2>3, Zenon
      <4>2. Len(list') \in Nat
        BY <4>1
      <4>3. Len(list') > 1 => "two devices" \in uses'
        BY <2>3, Zenon
      <4>4. Len(list') <= 1 \/ "two devices" \in uses'
        <5>1. Len(list') > 1 \/ Len(list') <= 1
          BY <4>2
        <5> QED BY <5>1, <4>3, Zenon
      <4> QED BY <4>1, <4>4, Zenon
    <3> QED BY <2>4, <2>5, <3>1 DEF UInv, OneInv
  <2> QED BY <2>6, <2>7, <2>8, <2>9, <2>10 DEF UInv
<1> QED BY <1>2, <1>3

LEMMA AskKeeps ==
  ASSUME UInv, Ask PROVE UInv'
<1> USE DEF usb, monitor, handler, camera
<1> DEFINE first == OfList(IF list = <<>> THEN NoDevice ELSE list[1])
           second == OfList(list[2])
           t == Post(tasks, "async", first)
<1>1. /\ list \in Seq(Devices) /\ ToSet(list) \subseteq granted /\ main = "asking" /\ alive
      /\ tasks \in [Handlers -> Seq(Jobs)]
  BY DEF UInv, TypeOK, Ask
<1>2. /\ first.device \in granted \cup {NoDevice} /\ first \in Jobs
      /\ list # <<>> => first.device \in Devices
  <2>1. list # <<>> => list[1] \in granted /\ list[1] \in Devices
    BY <1>1 DEF ToSet
  <2> QED BY <2>1 DEF OfList, Jobs
<1>3. Len(list) > 1 => second.device \in granted /\ second.device \in Devices /\ second \in Jobs
  <2>1. Len(list) > 1 => list[2] \in granted /\ list[2] \in Devices
    BY <1>1 DEF ToSet
  <2> QED BY <2>1 DEF OfList, Jobs
<1>4. "async" \in Handlers /\ "sec" \in Handlers /\ "sec" # "async"
  BY DEF Handlers
<1>5. /\ tasks' = IF Len(list) > 1 THEN Post(t, "sec", second) ELSE t
      /\ main' = "looper" /\ list' = <<>>
      /\ UNCHANGED <<usb, monitor, handler, camera, starts, quit, alive, uses>>
  BY DEF Ask, ConnectList
<1> HIDE DEF first, second
<1>6. /\ t \in [Handlers -> Seq(Jobs)] /\ t["sec"] = tasks["sec"]
      /\ \A g \in Handlers : \A i \in 1..Len(t[g]) :
           t[g][i] = first \/ (i \in 1..Len(tasks[g]) /\ t[g][i] = tasks[g][i])
  <2> HIDE DEF t
  <2> DEFINE r == Post(tasks, "async", first)
  <2>1. /\ r \in [Handlers -> Seq(Jobs)]
        /\ \A g \in Handlers \ {"async"} : r[g] = tasks[g]
        /\ \A g \in Handlers : \A i \in 1..Len(r[g]) :
             r[g][i] = first \/ (i \in 1..Len(tasks[g]) /\ r[g][i] = tasks[g][i])
    BY <1>1, <1>2, <1>4, PostIs, Zenon
  <2>2. t = r
    BY DEF t
  <2> HIDE DEF r
  <2> QED BY <1>4, <2>1, <2>2
<1> HIDE DEF t
<1>7. /\ tasks' \in [Handlers -> Seq(Jobs)]
      /\ \A g \in Handlers : \A i \in 1..Len(tasks'[g]) :
           \/ tasks'[g][i] = first
           \/ Len(list) > 1 /\ tasks'[g][i] = second
           \/ i \in 1..Len(tasks[g]) /\ tasks'[g][i] = tasks[g][i]
      /\ Len(list) <= 1 => tasks'["sec"] = tasks["sec"]
  <2>1. CASE Len(list) > 1
    <3>1. second \in Jobs /\ tasks' = Post(t, "sec", second)
      BY <1>3, <1>5, <2>1
    <3>2. /\ tasks' \in [Handlers -> Seq(Jobs)]
          /\ \A g \in Handlers : \A i \in 1..Len(tasks'[g]) :
               tasks'[g][i] = second \/ (i \in 1..Len(t[g]) /\ tasks'[g][i] = t[g][i])
      <4>1. t \in [Handlers -> Seq(Jobs)]
        BY <1>6, Zenon
      <4> DEFINE r == Post(t, "sec", second)
      <4>2. /\ r \in [Handlers -> Seq(Jobs)]
            /\ \A g \in Handlers : \A i \in 1..Len(r[g]) :
                 r[g][i] = second \/ (i \in 1..Len(t[g]) /\ r[g][i] = t[g][i])
        BY <1>4, <3>1, <4>1, PostIs, Zenon
      <4>3. tasks' = r
        BY <3>1, Zenon
      <4> HIDE DEF r
      <4> QED BY <4>2, <4>3, Zenon
    <3>3. ~ (Len(list) <= 1)
      BY <1>1, <2>1
    <3>4. ASSUME NEW g \in Handlers, NEW i \in 1..Len(tasks'[g]), tasks'[g][i] # second
          PROVE  \/ tasks'[g][i] = first
                 \/ i \in 1..Len(tasks[g]) /\ tasks'[g][i] = tasks[g][i]
      <4>1. i \in 1..Len(t[g]) /\ tasks'[g][i] = t[g][i]
        BY <3>2, <3>4, Zenon
      <4> QED BY <1>6, <4>1, Zenon
    <3> QED BY <2>1, <3>2, <3>3, <3>4, Zenon
  <2>2. CASE ~ (Len(list) > 1)
    BY <1>5, <1>6, <2>2
  <2> QED BY <2>1, <2>2
<1>8. TypeOK'
  BY <1>5, <1>7 DEF UInv, TypeOK, Checks
<1>9. MainInv' /\ RereadInv' /\ SurvivesOrdinaryUse'
  BY <1>1, <1>5 DEF UInv, MainInv, RereadInv, SurvivesOrdinaryUse, Checks
<1>10. PermitInv'
  BY <1>2, <1>3, <1>5, <1>7 DEF UInv, PermitInv
<1>11. EmptyInv'
  <2>1. NoDevice \notin Devices
    BY MonitorAssumption DEF MonitorAssumption
  <2> SUFFICES ASSUME "no device" \notin uses,
                      NEW g \in Handlers, NEW i \in 1..Len(tasks'[g])
               PROVE  tasks'[g][i].device # NoDevice
    BY <1>5 DEF EmptyInv
  <2>2. first.device # NoDevice /\ (Len(list) > 1 => second.device # NoDevice)
    BY <1>1, <1>2, <1>3, <2>1 DEF UInv, EmptyInv
  <2> QED BY <1>7, <2>2 DEF UInv, EmptyInv
<1>12. OneInv'
  BY <1>1, <1>5, <1>7 DEF UInv, OneInv
<1> QED BY <1>8, <1>9, <1>10, <1>11, <1>12 DEF UInv

LEMMA GiveUpKeeps ==
  ASSUME UInv, GiveUp PROVE UInv'
<1> USE DEF usb, monitor, handler, camera
<1>1. TypeOK'
  BY DEF UInv, GiveUp, TypeOK, Checks
<1>2. MainInv' /\ PermitInv' /\ EmptyInv' /\ OneInv' /\ RereadInv' /\ SurvivesOrdinaryUse'
  BY DEF UInv, GiveUp, MainInv, PermitInv, EmptyInv, OneInv, RereadInv, SurvivesOrdinaryUse,
         Checks
<1> QED BY <1>1, <1>2 DEF UInv

-----------------------------------------------------------------------------
(* The rest of the main thread. *)
LEMMA BroadcastKeeps ==
  ASSUME UInv, NEW d \in Devices, PermissionGranted(d) \/ Detached(d) PROVE UInv'
<1> USE DEF usb, monitor, handler, camera
<1> DEFINE j == OfBroadcast(d)
<1>0. j \in Jobs /\ j.device = d
  BY DEF OfBroadcast, Jobs
<1> HIDE DEF j
<1>1. CASE PermissionGranted(d)
  <2>1. broadcasts' \in 0..MaxBroadcasts
    <3>1. broadcasts' = broadcasts + 1 /\ broadcasts < MaxBroadcasts
      BY <1>1, Zenon DEF PermissionGranted
    <3> QED BY <3>1, MonitorAssumption DEF UInv, MonitorAssumption, TypeOK
  <2>2. /\ tasks' = Post(tasks, "async", j) /\ d \in granted /\ ~destroyed /\ main = "looper"
        /\ tasks \in [Handlers -> Seq(Jobs)]
        /\ UNCHANGED <<context, attached, granted, monitor, handler, camera, starts, main, list,
                       quit, alive, uses>>
    BY <1>1 DEF UInv, TypeOK, PermissionGranted, j
  <2>3. "async" \in Handlers /\ "sec" \in Handlers \ {"async"}
    BY DEF Handlers
  <2>4. /\ tasks' \in [Handlers -> Seq(Jobs)] /\ tasks'["sec"] = tasks["sec"]
        /\ \A g \in Handlers : \A i \in 1..Len(tasks'[g]) :
             tasks'[g][i] = j \/ (i \in 1..Len(tasks[g]) /\ tasks'[g][i] = tasks[g][i])
    <3> DEFINE r == Post(tasks, "async", j)
    <3>1. /\ r \in [Handlers -> Seq(Jobs)]
          /\ \A g \in Handlers \ {"async"} : r[g] = tasks[g]
          /\ \A g \in Handlers : \A i \in 1..Len(r[g]) :
               r[g][i] = j \/ (i \in 1..Len(tasks[g]) /\ r[g][i] = tasks[g][i])
      <4>1. j \in Jobs /\ "async" \in Handlers
        BY <1>0, <2>3, Zenon
      <4>2. tasks \in [Handlers -> Seq(Jobs)]
        BY <2>2, Zenon
      <4> QED BY <4>1, <4>2, PostIs, Zenon
    <3>2. tasks' = r
      BY <2>2
    <3> HIDE DEF r
    <3> QED BY <2>3, <3>1, <3>2
  <2>5. TypeOK'
    BY <2>1, <2>2, <2>4 DEF UInv, TypeOK, Checks
  <2>6. MainInv' /\ RereadInv' /\ SurvivesOrdinaryUse' /\ OneInv'
    BY <2>2, <2>4 DEF UInv, MainInv, RereadInv, SurvivesOrdinaryUse, OneInv, Checks
  <2>7. PermitInv'
    BY <1>0, <2>2, <2>4 DEF UInv, PermitInv
  <2>8. EmptyInv'
    <3>1. j.device # NoDevice /\ main = "looper"
      BY <1>0, <2>2, MonitorAssumption DEF MonitorAssumption
    <3>2. /\ EmptyInv /\ main' = main /\ uses' = uses
          /\ \A g \in Handlers : \A i \in 1..Len(tasks'[g]) :
               tasks'[g][i] = j \/ (i \in 1..Len(tasks[g]) /\ tasks'[g][i] = tasks[g][i])
      BY <2>2, <2>4 DEF UInv
    <3> QED BY <3>1, <3>2, Zenon DEF EmptyInv
  <2> QED BY <2>5, <2>6, <2>7, <2>8 DEF UInv
<1>2. CASE Detached(d)
  <2>1. "unplugged" \in uses
    BY <1>2 DEF UInv, Detached, PermitInv, TypeOK
  <2>2. TypeOK'
    BY <1>2 DEF UInv, Detached, Die, TypeOK, Checks
  <2>3. MainInv' /\ PermitInv' /\ EmptyInv' /\ OneInv' /\ RereadInv' /\ SurvivesOrdinaryUse'
    BY <1>2, <2>1 DEF UInv, Detached, Die, MainInv, PermitInv, EmptyInv, OneInv, RereadInv,
                      SurvivesOrdinaryUse, Checks
  <2> QED BY <2>2, <2>3 DEF UInv
<1> QED BY <1>1, <1>2

LEMMA ReleaseKeeps ==
  ASSUME UInv, StopPreview \/ Release PROVE UInv'
<1> USE DEF usb, monitor, handler, camera
<1>1. CASE StopPreview
  <2>1. TypeOK'
    BY <1>1 DEF UInv, StopPreview, TypeOK, Checks
  <2>2. MainInv' /\ PermitInv' /\ EmptyInv' /\ OneInv' /\ RereadInv' /\ SurvivesOrdinaryUse'
    BY <1>1 DEF UInv, StopPreview, MainInv, PermitInv, EmptyInv, OneInv, RereadInv,
                SurvivesOrdinaryUse, Checks
  <2> QED BY <2>1, <2>2 DEF UInv
<1>2. CASE Release
  <2> USE <1>2
  <2>1. "released" \in uses /\ UNCHANGED <<usb, handler, starts, list, uses>>
    BY DEF UInv, MainInv, Release, Unregister, ReleaseCamera, CloseBlocks, QuitLoopers, DestroyCamera
  <2>2. OneInv' /\ RereadInv' /\ SurvivesOrdinaryUse'
    BY <2>1 DEF OneInv, RereadInv, SurvivesOrdinaryUse
  <2> HIDE <1>2
  <2>8. "async" \in Handlers
    BY DEF Handlers
  <2>3. CASE Unregister
    <3>1. TypeOK'
      <4>1. checks' = 0 /\ at' = at
        BY <2>1, <2>3 DEF Unregister
      <4>2. checks' \in Nat /\ Checks' <= Checks /\ Checks \in Nat /\ Checks' \in Nat
        BY <4>1 DEF UInv, TypeOK, Checks
      <4>3. Checks' <= starts /\ (intent \/ context => Checks' <= 1)
        BY <4>2 DEF UInv, TypeOK
      <4>4. /\ starts' = starts /\ context' = context /\ (intent' => intent) /\ checks' \in Nat
            /\ intent' \in BOOLEAN
        BY <2>1, <2>3, <4>2, Zenon DEF UInv, TypeOK, Unregister
      <4>5. Checks' <= starts' /\ (intent' \/ context' => Checks' <= 1)
        <5>1. Checks' <= starts'
          BY <4>3, <4>4
        <5>2. intent' \/ context' => intent \/ context
          BY <4>4, Zenon
        <5> QED BY <4>3, <5>1, <5>2, Zenon
      <4> QED BY <2>1, <2>3, <4>4, <4>5 DEF UInv, Unregister, Die, TypeOK
    <3>2. MainInv'
      BY <2>1, <2>8, <2>3 DEF UInv, TypeOK, MainInv, Unregister, Die
    <3>3. PermitInv' /\ EmptyInv'
      BY <2>1, <2>3 DEF UInv, PermitInv, EmptyInv, Unregister, Die
    <3> QED BY <2>2, <3>1, <3>2, <3>3 DEF UInv
  <2>4. CASE ReleaseCamera
    <3>1. TypeOK'
      BY <2>1, <2>8, <2>4 DEF UInv, ReleaseCamera, Die, TypeOK, Checks
    <3>2. MainInv'
      BY <2>1, <2>8, <2>4 DEF UInv, TypeOK, MainInv, ReleaseCamera, Die
    <3>3. PermitInv' /\ EmptyInv'
      BY <2>1, <2>4 DEF UInv, PermitInv, EmptyInv, ReleaseCamera, Die
    <3> QED BY <2>2, <3>1, <3>2, <3>3 DEF UInv
  <2>5. CASE CloseBlocks
    <3>1. TypeOK'
      <4>1. checks' = 0 /\ at' = at
        BY <2>1, <2>5 DEF CloseBlocks
      <4>2. checks' \in Nat /\ Checks' <= Checks /\ Checks \in Nat /\ Checks' \in Nat
        BY <4>1 DEF UInv, TypeOK, Checks
      <4>3. Checks' <= starts /\ (intent \/ context => Checks' <= 1)
        BY <4>2 DEF UInv, TypeOK
      <4>4. /\ starts' = starts /\ context' = context /\ (intent' => intent) /\ checks' \in Nat
            /\ intent' \in BOOLEAN
        BY <2>1, <2>5, <4>2, Zenon DEF UInv, TypeOK, CloseBlocks
      <4>5. Checks' <= starts' /\ (intent' \/ context' => Checks' <= 1)
        <5>1. Checks' <= starts'
          BY <4>3, <4>4
        <5>2. intent' \/ context' => intent \/ context
          BY <4>4, Zenon
        <5> QED BY <4>3, <5>1, <5>2, Zenon
      <4> QED BY <2>1, <2>5, <4>4, <4>5 DEF UInv, CloseBlocks, Die, TypeOK
    <3>2. MainInv'
      BY <2>1, <2>8, <2>5 DEF UInv, TypeOK, MainInv, CloseBlocks, Die
    <3>3. PermitInv' /\ EmptyInv'
      BY <2>1, <2>5 DEF UInv, PermitInv, EmptyInv, CloseBlocks, Die
    <3> QED BY <2>2, <3>1, <3>2, <3>3 DEF UInv
  <2>6. CASE QuitLoopers
    <3>1. TypeOK'
      <4>1. IsFiniteSet(blocks)
        BY MonitorAssumption, FS_Subset DEF MonitorAssumption, UInv, TypeOK
      <4>2. orphans' \in Nat
        BY <2>6, <4>1, FS_CardinalityType DEF QuitLoopers, UInv, TypeOK
      <4>3. checks' = 0 /\ at' = at
        BY <2>1, <2>6 DEF QuitLoopers
      <4>4. checks' \in Nat /\ Checks' <= Checks /\ Checks \in Nat /\ Checks' \in Nat
        BY <4>3 DEF UInv, TypeOK, Checks
      <4>5. Checks' <= starts /\ (intent \/ context => Checks' <= 1)
        BY <4>4 DEF UInv, TypeOK
      <4> QED BY <2>1, <2>8, <2>6, <4>2, <4>4, <4>5 DEF UInv, QuitLoopers, TypeOK
    <3>2. MainInv'
      BY <2>1, <2>8, <2>6 DEF UInv, TypeOK, MainInv, QuitLoopers, Die
    <3>3. PermitInv' /\ EmptyInv'
      <4>1. /\ \A h \in Handlers : tasks'[h] = <<>>
            /\ blocks' = {} /\ main' = "free"
        BY <2>6 DEF QuitLoopers
      <4>2. \A h \in Handlers : 1..Len(tasks'[h]) = {}
        BY <4>1
      <4> QED BY <2>1, <4>1, <4>2 DEF UInv, PermitInv, EmptyInv
    <3> QED BY <2>2, <3>1, <3>2, <3>3 DEF UInv
  <2>7. CASE DestroyCamera
    <3>1. TypeOK'
      BY <2>1, <2>8, <2>7 DEF UInv, DestroyCamera, Die, TypeOK, Checks
    <3>2. MainInv'
      BY <2>1, <2>8, <2>7 DEF UInv, TypeOK, MainInv, DestroyCamera, Die
    <3>3. PermitInv' /\ EmptyInv'
      BY <2>1, <2>7 DEF UInv, PermitInv, EmptyInv, DestroyCamera, Die
    <3> QED BY <2>2, <3>1, <3>2, <3>3 DEF UInv
  <2> QED BY <1>2, <2>3, <2>4, <2>5, <2>6, <2>7 DEF Release
<1> QED BY <1>1, <1>2

-----------------------------------------------------------------------------
(* The handler threads. *)
LEMMA BeginKeeps ==
  ASSUME UInv, NEW h \in Handlers, Begin(h) PROVE UInv'
<1> USE DEF usb, monitor, handler, camera
<1>1. /\ tasks \in [Handlers -> Seq(Jobs)] /\ tasks[h] # <<>>
      /\ tasks' = [tasks EXCEPT ![h] = Tail(@)]
      /\ tasks[h] \in Seq(Jobs)
  BY DEF UInv, TypeOK, Begin
<1>2. /\ Tail(tasks[h]) \in Seq(Jobs) /\ Head(tasks[h]) \in Jobs
      /\ Head(tasks[h]) = tasks[h][1] /\ 1 \in 1..Len(tasks[h])
      /\ \A i \in 1..Len(Tail(tasks[h])) :
           i + 1 \in 1..Len(tasks[h]) /\ Tail(tasks[h])[i] = tasks[h][i + 1]
  BY <1>1, TailOf
<1>3. \A g \in Handlers : \A i \in 1..Len(tasks'[g]) :
        \E j \in 1..Len(tasks[g]) : tasks'[g][i] = tasks[g][j]
  <2> SUFFICES ASSUME NEW g \in Handlers, NEW i \in 1..Len(tasks'[g])
               PROVE  \E j \in 1..Len(tasks[g]) : tasks'[g][i] = tasks[g][j]
    OBVIOUS
  <2>1. CASE g = h
    <3>1. tasks'[g] = Tail(tasks[h])
      BY <1>1, <2>1
    <3> QED BY <1>2, <2>1, <3>1
  <2>2. CASE g # h
    <3>1. tasks'[g] = tasks[g]
      BY <1>1, <2>2
    <3> QED BY <3>1
  <2> QED BY <2>1, <2>2
<1>4. tasks' \in [Handlers -> Seq(Jobs)]
  BY <1>1, <1>2
<1>5. /\ device' = [device EXCEPT ![h] = Head(tasks[h]).device]
      /\ again' = [again EXCEPT ![h] = Head(tasks[h]).again]
      /\ IF Head(tasks[h]).device = NoDevice THEN alive' = FALSE /\ at' = at
         ELSE at' = [at EXCEPT ![h] = "look"] /\ alive' = alive
      /\ UNCHANGED <<usb, monitor, camera, starts, main, list, quit, uses>>
      /\ alive /\ at[h] = "idle"
  BY DEF Begin, Die, Goto
<1>6. TypeOK'
  <2>1. /\ at \in [Handlers -> Points] /\ device \in [Handlers -> Devices \cup {NoDevice}]
        /\ again \in [Handlers -> BOOLEAN] /\ alive \in BOOLEAN
    BY DEF UInv, TypeOK
  <2>2. device' \in [Handlers -> Devices \cup {NoDevice}] /\ again' \in [Handlers -> BOOLEAN]
    BY <1>2, <1>5, <2>1 DEF Jobs
  <2>3. at' \in [Handlers -> Points] /\ alive' \in BOOLEAN
    BY <1>5, <2>1 DEF Points
  <2>4. at["async"] = "check" <=> at'["async"] = "check"
    BY <1>5, <2>1 DEF Handlers
  <2>5. checks' = checks /\ Checks' = Checks
    BY <1>5, <2>1, <2>4 DEF Checks
  <2> QED BY <1>4, <1>5, <2>2, <2>3, <2>5 DEF UInv, TypeOK
<1>7. MainInv'
  BY <1>1, <1>5 DEF UInv, TypeOK, MainInv, Handlers, Checks
<1>8. PermitInv' /\ EmptyInv'
  <2>1. PermitInv'
    <3> SUFFICES ASSUME "unplugged" \notin uses, NEW g \in Handlers
                 PROVE  /\ \A i \in 1..Len(tasks'[g]) : tasks'[g][i].device \in granted \cup {NoDevice}
                        /\ at'[g] \in {"look", "open"} => device'[g] \in granted
                        /\ blocks \subseteq granted
      BY <1>5 DEF PermitInv
    <3>1. \A i \in 1..Len(tasks'[g]) : tasks'[g][i].device \in granted \cup {NoDevice}
      BY <1>3 DEF UInv, PermitInv
    <3>2. Head(tasks[h]).device \in granted \cup {NoDevice}
      BY <1>2 DEF UInv, PermitInv
    <3>3. at'[g] \in {"look", "open"} => device'[g] \in granted
      BY <1>5, <3>2 DEF UInv, PermitInv, TypeOK
    <3> QED BY <3>1, <3>3 DEF UInv, PermitInv
  <2>2. EmptyInv'
    <3> SUFFICES ASSUME "no device" \notin uses, NEW g \in Handlers, NEW i \in 1..Len(tasks'[g])
                 PROVE  tasks'[g][i].device # NoDevice
      BY <1>5 DEF UInv, EmptyInv
    <3>1. PICK j \in 1..Len(tasks[g]) : tasks'[g][i] = tasks[g][j]
      BY <1>3
    <3> QED BY <3>1 DEF UInv, EmptyInv
  <2> QED BY <2>1, <2>2
<1>11. RereadInv'
  BY <1>5 DEF UInv, TypeOK, RereadInv
<1>9. SurvivesOrdinaryUse'
  BY <1>2, <1>5 DEF UInv, EmptyInv, SurvivesOrdinaryUse
<1>10. OneInv'
  BY <1>1, <1>5 DEF UInv, TypeOK, OneInv, Handlers
<1> QED BY <1>6, <1>7, <1>8, <1>9, <1>10, <1>11 DEF UInv

(* What a step of a task leaves alone, and the types of what it does not. *)
LEMMA TaskMoves ==
  ASSUME UInv, NEW h \in Handlers, Task(h), ~ Begin(h)
  PROVE  /\ at[h] # "check"
         /\ \E p \in Points \ {"check"} : at' = [at EXCEPT ![h] = p]
         /\ \E e \in Devices \cup {NoDevice} : device' = [device EXCEPT ![h] = e]
         /\ \E r \in BOOLEAN : again' = [again EXCEPT ![h] = r]
         /\ orphans' \in Nat /\ blocks' \subseteq Devices
         /\ handle' \in Devices \cup {NoDevice} /\ preview' \in Devices \cup {NoDevice}
         /\ threads' \in Nat /\ lost' \subseteq Devices /\ alive' \in BOOLEAN
         /\ UNCHANGED <<usb, intent, destroyed, checks, freed, starts, main, list, tasks, quit,
                        uses>>
<1> USE DEF usb, monitor, handler, camera, Goto, End
<1>1. /\ at \in [Handlers -> Points] /\ device \in [Handlers -> Devices \cup {NoDevice}]
      /\ at = [at EXCEPT ![h] = at[h]] /\ device = [device EXCEPT ![h] = device[h]]
      /\ device[h] \in Devices \cup {NoDevice}
      /\ again = [again EXCEPT ![h] = again[h]] /\ again[h] \in BOOLEAN
  BY DEF UInv, TypeOK
<1>2. /\ orphans \in Nat /\ blocks \subseteq Devices /\ attached \subseteq Devices
      /\ granted \subseteq attached
      /\ handle \in Devices \cup {NoDevice} /\ preview \in Devices \cup {NoDevice}
      /\ threads \in Nat /\ lost \subseteq Devices /\ alive \in BOOLEAN
  BY DEF UInv, TypeOK
<1>3. CASE Look(h)
  BY <1>1, <1>2, <1>3 DEF Look, Found, Points
<1>4. CASE OpenBlock(h)
  <2>1. CASE device[h] \in granted
    BY <1>1, <1>2, <1>4, <2>1 DEF OpenBlock, Found, Points
  <2>2. CASE device[h] \notin granted
    BY <1>1, <1>2, <1>4, <2>2 DEF OpenBlock, Die, Points
  <2> QED BY <2>1, <2>2
<1>9. CASE Reread(h)
  BY <1>1, <1>2, <1>9 DEF Reread, Die, Points
<1>5. CASE TestHandle(h)
  BY <1>1, <1>2, <1>5 DEF TestHandle, Late, Points
<1>6. CASE Wrap(h)
  <2>1. CASE Late(h)
    BY <1>1, <1>2, <1>6, <2>1 DEF Wrap, Late, Points
  <2>2. CASE ~ Late(h)
    <3>1. /\ at[h] # "check" /\ at' = [at EXCEPT ![h] = "start"] /\ device' = device /\ again' = again
          /\ UNCHANGED <<usb, monitor, freed, starts, main, list, tasks, quit, uses, alive>>
      BY <1>6, <2>2 DEF Wrap
    <3>2. /\ handle' \in Devices \cup {NoDevice} /\ preview' \in Devices \cup {NoDevice}
          /\ threads' \in Nat /\ lost' \subseteq Devices
      <4>1. lost' = lost \cup ({handle} \ {NoDevice}) /\ threads' \in {0, threads}
            /\ handle' \in {device[h], NoDevice} /\ preview' \in {device[h], preview}
        BY <1>6, <2>2 DEF Wrap
      <4>2. threads' \in Nat
        BY <1>2, <4>1
      <4> QED BY <1>1, <1>2, <4>1, <4>2, Zenon
    <3> QED BY <1>1, <1>2, <3>1, <3>2 DEF Points
  <2> QED BY <2>1, <2>2
<1>7. CASE TestRunning(h)
  BY <1>1, <1>2, <1>7 DEF TestRunning, Late, Points
<1>8. CASE RunPreview(h)
  <2>1. threads' \in Nat
    <3>1. threads' \in {threads, threads + 1}
      BY <1>8 DEF RunPreview, Late
    <3> QED BY <1>2, <3>1
  <2>2. alive' \in BOOLEAN
    BY <1>2, <1>8, Zenon DEF RunPreview, Late
  <2> QED BY <1>1, <1>2, <1>8, <2>1, <2>2 DEF RunPreview, Late, Points
<1> QED BY <1>3, <1>4, <1>5, <1>6, <1>7, <1>8, <1>9 DEF Task

LEMMA OneMore == \A n : n = 0 + 1 => n <= 1
OBVIOUS

LEMMA NoMore == \A n, k \in Nat : k <= 1 /\ (n = 0 \/ n = k) => n <= 1
OBVIOUS

LEMMA TaskKeeps ==
  ASSUME UInv, NEW h \in Handlers, Task(h) PROVE UInv'
<1> USE DEF usb, monitor, handler, camera, Goto, End
<1>1. CASE Begin(h)
  BY <1>1, BeginKeeps
<1> SUFFICES ASSUME ~ Begin(h) PROVE UInv'
  BY <1>1
<1>2. PICK p \in Points \ {"check"} : at' = [at EXCEPT ![h] = p]
  BY TaskMoves
<1>3. PICK e \in Devices \cup {NoDevice} : device' = [device EXCEPT ![h] = e]
  BY TaskMoves
<1>11. PICK r \in BOOLEAN : again' = [again EXCEPT ![h] = r]
  BY TaskMoves
<1>4. /\ at[h] # "check" /\ at \in [Handlers -> Points]
      /\ device \in [Handlers -> Devices \cup {NoDevice}] /\ again \in [Handlers -> BOOLEAN]
      /\ UNCHANGED <<usb, intent, destroyed, checks, freed, starts, main, list, tasks, quit, uses>>
  BY TaskMoves DEF UInv, TypeOK
<1>5. at'["async"] = "check" <=> at["async"] = "check"
  BY <1>2, <1>4 DEF Handlers
<1>6. TypeOK'
  <2>1. at' \in [Handlers -> Points] /\ device' \in [Handlers -> Devices \cup {NoDevice}]
        /\ again' \in [Handlers -> BOOLEAN]
    BY <1>2, <1>3, <1>4, <1>11
  <2>2. Checks' = Checks
    BY <1>4, <1>5 DEF Checks
  <2>3. /\ orphans' \in Nat /\ blocks' \subseteq Devices
        /\ handle' \in Devices \cup {NoDevice} /\ preview' \in Devices \cup {NoDevice}
        /\ threads' \in Nat /\ lost' \subseteq Devices /\ alive' \in BOOLEAN
    BY TaskMoves
  <2> QED BY <1>4, <2>1, <2>2, <2>3 DEF UInv, TypeOK
<1>7. MainInv' /\ EmptyInv'
  BY <1>4, <1>5 DEF UInv, MainInv, EmptyInv, Checks
<1>8. PermitInv'
  <2> SUFFICES ASSUME "unplugged" \notin uses
               PROVE  /\ at'[h] \in {"look", "open"} => device'[h] \in granted
                      /\ blocks' \subseteq granted
    BY <1>2, <1>3, <1>4 DEF UInv, PermitInv
  <2> USE <1>4 DEF UInv, PermitInv
  <2>1. CASE Look(h)
    BY <2>1 DEF Look, Found
  <2>2. CASE OpenBlock(h)
    BY <2>2 DEF OpenBlock, Found, Die
  <2>7. CASE Reread(h)
    BY <2>7 DEF Reread, Die
  <2>3. CASE TestHandle(h)
    BY <2>3 DEF TestHandle, Late
  <2>4. CASE Wrap(h)
    BY <2>4 DEF Wrap, Late
  <2>5. CASE TestRunning(h)
    BY <2>5 DEF TestRunning, Late
  <2>6. CASE RunPreview(h)
    BY <2>6 DEF RunPreview, Late
  <2> QED BY <2>1, <2>2, <2>3, <2>4, <2>5, <2>6, <2>7 DEF Task
<1>9. SurvivesOrdinaryUse'
  <2> SUFFICES ASSUME uses \cap {"no device", "unplugged", "released"} = {} PROVE alive'
    BY <1>4 DEF SurvivesOrdinaryUse
  <2>1. /\ alive /\ ~freed /\ (at[h] = "open" => device[h] \in granted)
        /\ at[h] = "reread" => device[h] \in blocks
    BY DEF UInv, MainInv, PermitInv, RereadInv, SurvivesOrdinaryUse
  <2> QED BY <2>1 DEF Task, Look, OpenBlock, Reread, TestHandle, Late, Wrap, TestRunning, RunPreview
<1>10. OneInv'
  <2> SUFFICES ASSUME uses \cap {"two devices", "released"} = {}
               PROVE  /\ at'["sec"] = "idle"
                      /\ orphans' = 0 /\ lost' = {} /\ threads' <= 1
                      /\ at'["async"] = "open" => device'["async"] \notin blocks'
                      /\ at'["async"] = "wrap" => handle' = NoDevice
                      /\ at'["async"] = "run" => threads' = 0
    BY <1>4 DEF UInv, OneInv
  <2>1. /\ at["sec"] = "idle" /\ orphans = 0 /\ lost = {} /\ threads \in Nat /\ threads <= 1 /\ ~freed
        /\ at["async"] = "open" => device["async"] \notin blocks
        /\ at["async"] = "wrap" => handle = NoDevice
        /\ at["async"] = "run" => threads = 0
    BY DEF UInv, OneInv, MainInv, TypeOK
  <2>2. h = "async"
    BY <2>1 DEF Task, Look, OpenBlock, Reread, TestHandle, Wrap, TestRunning, RunPreview, Handlers
  <2>3. /\ "async" \in Handlers /\ "sec" \in Handlers /\ at'["sec"] = at["sec"]
        /\ at'["async"] = p /\ device'["async"] = e
    BY <1>2, <1>3, <1>4, <2>2 DEF Handlers
  <2>4. CASE Look(h)
    BY <1>4, <2>1, <2>2, <2>3, <2>4 DEF Look, Found
  <2>5. CASE OpenBlock(h)
    <3>1. device["async"] \notin blocks /\ orphans' = 0 /\ UNCHANGED <<handle, lost, threads>>
      BY <1>4, <2>1, <2>2, <2>5 DEF OpenBlock, Die
    <3>2. p \in {"test", "reread", "open"} /\ (p = "open" => UNCHANGED <<blocks, device>>)
      BY <1>4, <2>1, <2>2, <2>3, <2>5 DEF OpenBlock, Found, Die
    <3> QED BY <1>4, <2>1, <2>2, <2>3, <3>1, <3>2
  <2>10. CASE Reread(h)
    BY <1>4, <2>1, <2>2, <2>3, <2>10 DEF Reread, Die
  <2>6. CASE TestHandle(h)
    BY <1>4, <2>1, <2>2, <2>3, <2>6 DEF TestHandle, Late
  <2>7. CASE Wrap(h)
    <3>1. p = "start" /\ lost' = lost \cup ({handle} \ {NoDevice}) /\ UNCHANGED orphans
          /\ threads' \in {0, threads} /\ handle = NoDevice
      BY <1>4, <2>1, <2>2, <2>3, <2>7 DEF Wrap, Late
    <3>2. lost' = {} /\ orphans' = 0
      BY <2>1, <3>1
    <3>3. threads \in Nat /\ threads <= 1
      BY <2>1
    <3>4. threads' <= 1
      <4>1. threads' = 0 \/ threads' = threads
        BY <3>1, Zenon
      <4>2. threads' \in Nat
        BY TaskMoves
      <4> QED BY <3>3, <4>1, <4>2, NoMore, Zenon
    <3> QED BY <1>4, <2>1, <2>2, <2>3, <3>1, <3>2, <3>4, Zenon
  <2>8. CASE TestRunning(h)
    BY <1>4, <2>1, <2>2, <2>3, <2>8 DEF TestRunning, Late
  <2>9. CASE RunPreview(h)
    <3>1. p = "idle" /\ threads' = threads + 1 /\ UNCHANGED <<lost, orphans>>
      BY <1>4, <2>1, <2>2, <2>3, <2>9 DEF RunPreview, Late
    <3>2. threads = 0
      BY <1>4, <2>1, <2>2, <2>9 DEF RunPreview
    <3>3. threads' <= 1
      <4>1. threads' = threads + 1
        BY <3>1, Zenon
      <4> QED BY <3>2, <4>1, OneMore, Zenon
    <3>4. lost' = {} /\ orphans' = 0
      BY <2>1, <3>1
    <3> QED BY <1>4, <2>1, <2>2, <2>3, <3>1, <3>3, <3>4, Zenon
  <2> QED BY <2>4, <2>5, <2>6, <2>7, <2>8, <2>9, <2>10 DEF Task
<1>12. RereadInv'
  <2> SUFFICES ASSUME uses \cap {"unplugged", "released"} = {}, NEW g \in Handlers,
                      at'[g] = "reread"
               PROVE  device'[g] \in blocks'
    BY <1>4 DEF RereadInv
  <2>1. blocks \subseteq blocks'
    BY DEF Task, Look, OpenBlock, Reread, TestHandle, Wrap, TestRunning, RunPreview
  <2>2. CASE g # h
    <3>1. at'[g] = at[g] /\ device'[g] = device[g]
      BY <1>2, <1>3, <1>4, <2>2
    <3> QED BY <2>1, <3>1 DEF UInv, RereadInv
  <2>3. CASE g = h
    <3>1. (Look(h) \/ OpenBlock(h) \/ Reread(h)) /\ device' = device
      BY <1>2, <1>4, <2>3 DEF Task, Look, OpenBlock, Reread, TestHandle, Wrap, TestRunning, RunPreview,
            Late
    <3>2. CASE Look(h)
      BY <1>4, <2>3, <3>1, <3>2 DEF Look
    <3>3. CASE OpenBlock(h)
      BY <1>4, <2>3, <3>1, <3>3 DEF OpenBlock
    <3>4. CASE Reread(h)
      BY <1>4, <2>3, <3>1, <3>4 DEF Reread, UInv, RereadInv
    <3> QED BY <3>1, <3>2, <3>3, <3>4
  <2> QED BY <2>2, <2>3
<1> QED BY <1>6, <1>7, <1>8, <1>9, <1>10, <1>12 DEF UInv

LEMMA CheckKeeps ==
  ASSUME UInv, Check \/ CheckAgain PROVE UInv'
<1> USE DEF usb, monitor, handler, camera, Goto
<1>1. "async" \in Handlers /\ "sec" \in Handlers /\ "sec" # "async"
  BY DEF Handlers
<1>2. /\ at \in [Handlers -> Points] /\ checks \in Nat
      /\ Checks = checks + (IF at["async"] = "check" THEN 1 ELSE 0) /\ Checks \in Nat
      /\ alive \in BOOLEAN
  BY DEF UInv, TypeOK, Checks
<1>3. /\ UNCHANGED <<usb, intent, destroyed, blocks, orphans, device, again, camera, starts, main, list,
                     tasks, quit, uses>>
      /\ \A g \in Handlers \ {"async"} : at'[g] = at[g]
      /\ at'["async"] \in {"idle", "check"} /\ at["async"] \in {"idle", "check"}
      /\ at' \in [Handlers -> Points]
  BY <1>1, <1>2 DEF Check, CheckAgain, Points
<1>4. /\ checks' \in Nat /\ Checks' \in Nat /\ Checks' <= Checks
      /\ destroyed => checks' <= checks
      /\ alive' \in BOOLEAN /\ (~destroyed => alive')
  <2>1. CASE Check
    BY <1>1, <1>2, <2>1 DEF Check, Checks
  <2>2. CASE CheckAgain
    <3>1. at["async"] = "check" /\ Checks = checks + 1 /\ alive
      BY <1>2, <2>2 DEF CheckAgain
    <3>2. CASE destroyed
      <4>1. at' = at /\ checks' = checks /\ alive' = FALSE
        BY <2>2, <3>2 DEF CheckAgain, Die
      <4>2. Checks' = Checks
        BY <4>1 DEF Checks
      <4>3. checks' <= checks /\ Checks' <= Checks
        BY <1>2, <4>1, <4>2
      <4> QED BY <1>2, <3>2, <4>1, <4>2, <4>3, Zenon
    <3>3. CASE ~destroyed
      <4>1. at'["async"] = "idle" /\ checks' = checks + 1 /\ alive' = alive
        BY <1>1, <1>2, <2>2, <3>3 DEF CheckAgain
      <4>2. Checks' = checks + 1
        BY <1>2, <4>1 DEF Checks
      <4> QED BY <1>2, <3>1, <3>3, <4>1, <4>2
    <3> QED BY <3>2, <3>3
  <2> QED BY <2>1, <2>2
<1>6. TypeOK'
  <2>1. Checks' <= starts /\ (intent \/ context => Checks' <= 1)
    BY <1>2, <1>4 DEF UInv, TypeOK
  <2> QED BY <1>3, <1>4, <2>1 DEF UInv, TypeOK
<1>7. MainInv'
  <2>1. main \in {"free", "over"} => checks' = 0
    BY <1>2, <1>4 DEF UInv, MainInv
  <2>2. Checks = 0 => Checks' = 0
    BY <1>2, <1>4
  <2> QED BY <1>3, <2>1, <2>2 DEF UInv, MainInv
<1>8. PermitInv'
  BY <1>1, <1>3 DEF UInv, PermitInv, Handlers
<1>9. EmptyInv'
  BY <1>3 DEF UInv, EmptyInv
<1>10. OneInv'
  BY <1>1, <1>3 DEF UInv, OneInv
<1>12. RereadInv'
  BY <1>1, <1>3 DEF UInv, RereadInv, Handlers
<1>11. SurvivesOrdinaryUse'
  BY <1>3, <1>4 DEF UInv, MainInv, SurvivesOrdinaryUse
<1> QED BY <1>6, <1>7, <1>8, <1>9, <1>10, <1>11, <1>12 DEF UInv

LEMMA MonitorStep == UInv /\ [Next]_vars => UInv'
<1> SUFFICES ASSUME UInv, [Next]_vars PROVE UInv'
  OBVIOUS
<1>1. CASE UNCHANGED vars
  <2>1. TypeOK' /\ SurvivesOrdinaryUse'
    BY <1>1 DEF vars, usb, monitor, handler, camera, UInv, TypeOK, SurvivesOrdinaryUse, Checks
  <2>2. MainInv' /\ PermitInv' /\ RereadInv'
    BY <1>1 DEF vars, usb, monitor, handler, camera, UInv, MainInv, PermitInv, RereadInv, Checks
  <2>3. EmptyInv' /\ OneInv'
    BY <1>1 DEF vars, usb, monitor, handler, camera, UInv, EmptyInv, OneInv
  <2> QED BY <2>1, <2>2, <2>3 DEF UInv
<1> QED BY <1>1, OutsideKeeps, StartKeeps, AskKeeps, GiveUpKeeps, BroadcastKeeps, ReleaseKeeps,
           TaskKeeps, CheckKeeps
    DEF Next

LEMMA MonitorInvariant == Spec => []UInv
BY MonitorInit, MonitorStep, PTL DEF Spec

-----------------------------------------------------------------------------
(* Theorems *)

(* Types hold; there is never more than one copy of the device check, unless the
   context is gone, and then one for each start. *)
THEOREM MonitorTypes == Spec => []TypeOK
<1>1. UInv => TypeOK
  BY DEF UInv
<1> QED BY <1>1, MonitorInvariant, PTL

(* With a device at every start, none unplugged and no release, nothing the two
   handlers and the main thread do in any order ends the application. *)
THEOREM OrdinaryUseSurvives == Spec => []SurvivesOrdinaryUse
<1>1. UInv => SurvivesOrdinaryUse
  BY DEF UInv
<1> QED BY <1>1, MonitorInvariant, PTL

(* With one device at every start and no release, what is tested and set without a
   lock is safe. *)
THEOREM OneDeviceAlwaysSafe == Spec => []OneDeviceIsSafe
<1>1. UInv => OneDeviceIsSafe
  BY DEF UInv, OneInv, OneDeviceIsSafe
<1> QED BY <1>1, MonitorInvariant, PTL

(* After the native camera is destroyed no task and no device check begins. *)
THEOREM HandlersRestAfterDestroy == Spec => QuietAfterDestroy
<1>1. UInv /\ [Next]_vars => [\A h \in Handlers : freed /\ at[h] = "idle" => at'[h] = "idle"]_vars
  <2> SUFFICES ASSUME UInv, Next, freed, NEW h \in Handlers, at[h] = "idle"
               PROVE  at'[h] = "idle"
    BY DEF vars, handler
  <2>1. main = "over" /\ destroyed /\ checks = 0 /\ tasks[h] = <<>> /\ at \in [Handlers -> Points]
    BY DEF UInv, MainInv, TypeOK
  <2>2. CASE at' = at
    BY <2>2
  <2>3. CASE \E g \in Handlers : Task(g)
    <3>1. PICK g \in Handlers : Task(g)
      BY <2>3
    <3>2. g # h
      BY <2>1, <3>1 DEF Task, Begin, Look, OpenBlock, Reread, TestHandle, Wrap, TestRunning, RunPreview
    <3> QED BY <2>1, <3>1, <3>2 DEF Task, Begin, Look, OpenBlock, Reread, TestHandle, Wrap, TestRunning,
          RunPreview, Late, End, Goto, handler
  <2>4. CASE CheckAgain
    BY <2>1, <2>4 DEF CheckAgain, Goto
  <2> QED BY <2>1, <2>2, <2>3, <2>4 DEF Next, Detach, Grant, CollectContext, PermissionGranted, Detached, StartCamera, Ask,
        GiveUp,        ConnectList, StopPreview, Release, Unregister, ReleaseCamera, CloseBlocks, QuitLoopers,
        DestroyCamera, Check, handler
<1> QED BY <1>1, MonitorInvariant, PTL DEF Spec, QuietAfterDestroy
=============================================================================
