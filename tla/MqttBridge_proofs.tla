-------------------------- MODULE MqttBridge_proofs --------------------------
(***************************************************************************)
(* Theorems about the program: for any nodes, anything plugged in, any     *)
(* settings, tags and descriptors.                                         *)
(***************************************************************************)
EXTENDS MqttBridge, SequenceTheorems, TLAPS

(* The places of the program in which it talks to one device. *)
Probing == {"settings", "write", "head", "rest", "create"}

Places == Probing \cup {"connect", "devices", "open", "select", "loop", "free",
                        "disconnect", "exit"}

Over == {"free", "disconnect", "exit"}

-----------------------------------------------------------------------------
(* The inductive invariant of the devices, in parts. *)

DevicesTyped ==
  /\ owner \in [0..MaxFD -> {Unused, Program, Broker} \cup NodeIds]
  /\ device \in [NodeIds -> Device]
  /\ array \in Seq({0} \cup NodeIds)
  /\ ix \in Nat \ {0} /\ factory \in 1..3
  /\ pc \in Places

Fresh(i) == device[i].readFD = 0 /\ device[i].writeFD = 0

(* Which slots FreeDevices has gone over for their own factory. *)
Passed(k) ==
  \E g \in 1..2 : /\ Factories[g] = FactoryOf(array[k])
                  /\ g < factory \/ (g = factory /\ k < ix)

(* The slots hold the devices that are made, each once. *)
SlotInv ==
  /\ \A k \in DOMAIN array : array[k] # 0 => device[array[k]].state = "made"
  /\ \A k, l \in DOMAIN array : array[k] # 0 /\ array[k] = array[l] => k = l
  /\ \A i \in NodeIds : device[i].state = "made" => \E k \in DOMAIN array : array[k] = i
  /\ pc \in {"connect", "devices"} => array = <<>>
  /\ pc \notin Over => factory = 1
  /\ pc = "free" => \A k \in DOMAIN array : array[k] # 0 => ~Passed(k)
  /\ pc = "disconnect" => \A k \in DOMAIN array : array[k] = 0

(* Which of them were not opened yet. *)
PlaceInv ==
  /\ pc \in {"connect", "devices"} => \A i \in NodeIds : Fresh(i)
  /\ pc \in Probing \cup {"open"} => \A k \in DOMAIN array : array[k] # 0
  /\ pc = "open" => \A k \in DOMAIN array : k >= ix => Fresh(array[k])
  /\ pc \in Probing => \A k \in DOMAIN array : k > ix => Fresh(array[k])
  /\ pc \in Probing =>
       /\ ix \in DOMAIN array
       /\ Nodes[array[ix]] # "bus"
       /\ Nodes[array[ix]] = "tty" => device[array[ix]].readFD > 0

(* Descriptors that belong to a device are in its fields, and the fields   *)
(* of a serial line hold what belongs to it; descriptor 0 is never among   *)
(* these, for it is in use as long as devices are opened.                  *)
OwnedInv ==
  \A f \in 0..MaxFD : owner[f] \in NodeIds =>
    f > 0 /\ device[owner[f]].state = "made" /\ f \in FDsOf(owner[f])

LineInv ==
  \A i \in NodeIds : Nodes[i] = "tty" =>
    \/ device[i].readFD = 0 /\ device[i].writeFD \in {0, -1}
    \/ /\ device[i].readFD > 0 /\ device[i].writeFD = device[i].readFD
       /\ owner[device[i].readFD] = i \/ (owner[device[i].readFD] = Unused /\ pc \in Over)

FDInv ==
  /\ pc \in Probing \cup {"open", "devices"} => owner[0] # Unused
  /\ OwnedInv
  /\ LineInv
  /\ \A i \in NodeIds : Nodes[i] = "bus" => Fresh(i) \/ i \in trouble

MisuseInv == NeverTouched /\ ClosesOwn

DeviceInv == DevicesTyped /\ SlotInv /\ PlaceInv /\ FDInv /\ MisuseInv

-----------------------------------------------------------------------------
(* Steps that leave the devices alone *)

LEMMA OwnersDiffer == \A i \in NodeIds : i # Unused /\ i # Program /\ i # Broker /\ i \in Nat
<1>1. NodeIds = 1..Len(Nodes) /\ Len(Nodes) \in Nat
  BY DevicesAssumption, LenProperties DEF NodeIds
<1>2. QED
  BY <1>1 DEF Unused, Program, Broker

LEMMA InitDevices == Init => DeviceInv
<1> SUFFICES ASSUME Init PROVE DeviceInv
  OBVIOUS
<1> USE DEF Init, DiscoveryInit, DevicesInit
<1>1. DevicesTyped
  BY DevicesAssumption DEF DevicesTyped, Device, Places, Unused, Program
<1>2. SlotInv
  BY DEF SlotInv, Over
<1>3. PlaceInv
  BY DEF PlaceInv, Probing, Fresh
<1>4. FDInv
  BY OwnersDiffer DEF FDInv, OwnedInv, LineInv, Probing, Fresh
<1>5. MisuseInv
  BY DEF MisuseInv, NeverTouched, ClosesOwn
<1>6. QED
  BY <1>1, <1>2, <1>3, <1>4, <1>5 DEF DeviceInv

(* While one device is probed nothing but the history of trouble changes.  *)
LEMMA ProbingKeepsDevices ==
  ASSUME DeviceInv, pc \in Probing, pc' \in Probing,
         UNCHANGED <<devvars, ix, factory>>, trouble \subseteq trouble'
  PROVE  DeviceInv'
<1> USE DEF DeviceInv, devvars
<1>1. DevicesTyped'
  BY DEF DevicesTyped, Places
<1>2. SlotInv'
  BY DEF SlotInv, Probing, Over
<1>3. PlaceInv'
  BY DEF PlaceInv, Probing, Fresh
<1>4. FDInv'
  BY DEF FDInv, OwnedInv, LineInv, Probing, Over, Fresh, FDsOf
<1>5. MisuseInv'
  BY DEF MisuseInv, NeverTouched, ClosesOwn
<1>6. QED
  BY <1>1, <1>2, <1>3, <1>4, <1>5

(* Once discovery is over devices are in use, and the connection to the    *)
(* broker may go.                                                          *)
LEMMA LoopsKeepDevices ==
  ASSUME DeviceInv, pc \in {"open", "select", "loop"}, pc' \in {"select", "loop"},
         ix' \in Nat \ {0}, UNCHANGED <<device, array, misuse, factory, trouble>>,
         owner' = owner \/ owner' = [f \in DOMAIN owner |->
                                        IF owner[f] = Broker THEN Unused ELSE owner[f]]
  PROVE  DeviceInv'
<1> USE DEF DeviceInv
<1>1. DevicesTyped'
  BY OwnersDiffer DEF DevicesTyped, Places, Probing, Unused, Broker, Program
<1>2. SlotInv'
  BY DEF SlotInv, Over
<1>3. PlaceInv'
  BY DEF PlaceInv, Probing, Fresh
<1>4. FDInv'
  <2>1. \A f \in 0..MaxFD : owner[f] \in NodeIds \/ owner'[f] \in NodeIds => owner'[f] = owner[f]
    BY OwnersDiffer DEF DevicesTyped, Unused, Broker
  <2>2. OwnedInv'
    BY <2>1 DEF FDInv, OwnedInv, FDsOf
  <2>3. ASSUME NEW i \in NodeIds, Nodes[i] = "tty", device[i].readFD > 0
        PROVE  owner'[device[i].readFD] = i
    <3>1. device[i].readFD \in 0..MaxFD
      BY <2>3, DevicesAssumption DEF DevicesTyped, Device
    <3>2. owner[device[i].readFD] = i
      BY <2>3 DEF FDInv, LineInv, Over
    <3>3. QED
      BY <2>1, <3>1, <3>2
  <2>4. LineInv'
    BY <2>3 DEF FDInv, LineInv
  <2>5. QED
    BY <2>2, <2>4 DEF FDInv, Probing, Fresh
<1>5. MisuseInv'
  BY DEF MisuseInv, NeverTouched, ClosesOwn
<1>6. QED
  BY <1>1, <1>2, <1>3, <1>4, <1>5

-----------------------------------------------------------------------------
(* The start of the program *)

LEMMA ConnectKeepsDevices == DeviceInv /\ Connect => DeviceInv'
<1> SUFFICES ASSUME DeviceInv, Connect PROVE DeviceInv'
  OBVIOUS
<1> USE DEF DeviceInv, Connect, Jump, probevars
<1>0. pc = "connect" /\ pc' \in {"devices", "exit"} /\ ix' = 1
      /\ UNCHANGED <<device, array, misuse, factory, trouble>>
  OBVIOUS
<1>1. /\ owner' \in [0..MaxFD -> {Unused, Program, Broker} \cup NodeIds]
      /\ \A f \in 0..MaxFD : owner[f] \in NodeIds \/ owner'[f] \in NodeIds => owner'[f] = owner[f]
      /\ pc' = "devices" => owner'[0] # Unused
  <2>1. CASE UNCHANGED owner /\ pc' = "exit"
    BY <2>1 DEF DevicesTyped
  <2>2. CASE pc' = "devices" /\ \E fd \in Lowest(UnusedFDs) : owner' = [owner EXCEPT ![fd] = Broker]
    <3>1. PICK fd \in Lowest(UnusedFDs) : owner' = [owner EXCEPT ![fd] = Broker]
      BY <2>2
    <3>2. fd \in 0..MaxFD /\ owner[fd] = Unused
      BY <3>1 DEF Lowest, UnusedFDs
    <3>3. owner[0] = Unused => fd = 0
      BY <3>1, <3>2, DevicesAssumption DEF Lowest, UnusedFDs
    <3>4. QED
      BY <2>2, <3>1, <3>2, <3>3, OwnersDiffer, DevicesAssumption DEF DevicesTyped, Unused, Broker
  <2>3. QED
    BY <2>1, <2>2
<1>2. DevicesTyped'
  BY <1>0, <1>1 DEF DevicesTyped, Places
<1>3. SlotInv'
  BY <1>0 DEF SlotInv, Over
<1>4. PlaceInv'
  BY <1>0 DEF PlaceInv, Probing, Fresh
<1>5. FDInv'
  <2>1. \A i \in NodeIds : Fresh(i) /\ Fresh(i)'
    BY <1>0 DEF PlaceInv, Fresh
  <2>2. OwnedInv'
    BY <1>0, <1>1 DEF FDInv, OwnedInv, FDsOf
  <2>3. LineInv'
    BY <1>0, <2>1 DEF LineInv, Fresh
  <2>4. QED
    BY <1>0, <1>1, <2>1, <2>2, <2>3 DEF FDInv, Probing
<1>6. MisuseInv'
  BY <1>0 DEF MisuseInv, NeverTouched, ClosesOwn
<1>7. QED
  BY <1>2, <1>3, <1>4, <1>5, <1>6

LEMMA FindingKeepsDevices == DeviceInv /\ FindDevices => DeviceInv'
<1> SUFFICES ASSUME DeviceInv, FindDevices PROVE DeviceInv'
  OBVIOUS
<1> USE DEF DeviceInv, FindDevices, Jump, probevars
<1>0. pc = "devices" /\ pc' \in {"free", "open"} /\ ix' = 1
      /\ UNCHANGED <<owner, misuse, factory, trouble>>
  BY DEF DiscoverDevices
<1>1. PICK n \in 0..Len(Nodes) : \E found \in [1..n -> NodeIds] :
        /\ \A a, b \in 1..n : a < b => found[a] < found[b]
        /\ array' = found
        /\ device' = [i \in NodeIds |-> IF \E k \in 1..n : found[k] = i
                                       THEN [device[i] EXCEPT !.state = "made"] ELSE device[i]]
  BY DEF DiscoverDevices
<1>2. /\ n \in Nat /\ array' \in [1..n -> NodeIds]
      /\ \A a, b \in 1..n : a < b => array'[a] < array'[b]
      /\ device' = [i \in NodeIds |-> IF \E k \in 1..n : array'[k] = i
                                     THEN [device[i] EXCEPT !.state = "made"] ELSE device[i]]
  BY <1>1, LenProperties, DevicesAssumption
<1>3. array' \in Seq(NodeIds) /\ DOMAIN array' = 1..n
  BY <1>2
<1>4. \A i \in NodeIds : Fresh(i) /\ Fresh(i)' /\ device[i].state # "made"
  BY <1>0, <1>2 DEF PlaceInv, SlotInv, DevicesTyped, Device, Fresh
<1>5. DevicesTyped'
  <2>1. device' \in [NodeIds -> Device]
    BY <1>2 DEF DevicesTyped, Device
  <2>2. array' \in Seq({0} \cup NodeIds)
    BY <1>2
  <2>3. QED
    BY <1>0, <2>1, <2>2 DEF DevicesTyped, Places
<1>6. SlotInv'
  <2>1. factory = 1
    BY <1>0 DEF SlotInv, Over
  <2>2. \A k, l \in 1..n : array'[k] = array'[l] => k = l
    <3> SUFFICES ASSUME NEW k \in 1..n, NEW l \in 1..n, array'[k] = array'[l], k # l PROVE FALSE
      OBVIOUS
    <3>1. array'[k] \in Nat /\ array'[l] \in Nat
      BY <1>2, OwnersDiffer
    <3>2. k < l \/ l < k
      BY <1>2
    <3>3. QED
      BY <1>2, <3>1, <3>2
  <2>3. \A k \in 1..n : array'[k] \in NodeIds /\ device'[array'[k]].state = "made"
    BY <1>2 DEF DevicesTyped, Device
  <2>4. \A i \in NodeIds : device'[i].state = "made" => \E k \in 1..n : array'[k] = i
    BY <1>2, <1>4
  <2>5. pc' = "free" => \A k \in 1..n : ~Passed(k)'
    BY <1>0, <2>1, <1>2 DEF Passed
  <2>6. QED
    BY <1>0, <1>3, <2>1, <2>2, <2>3, <2>4, <2>5 DEF SlotInv, Over
<1>7. PlaceInv'
  BY <1>0, <1>2, <1>3, <1>4, OwnersDiffer DEF PlaceInv, Probing, Unused
<1>8. FDInv'
  <2>1. OwnedInv'
    BY <1>0, <1>4 DEF FDInv, OwnedInv
  <2>2. LineInv'
    BY <1>4 DEF LineInv, Fresh
  <2>3. QED
    BY <1>0, <1>4, <2>1, <2>2 DEF FDInv, Probing
<1>9. MisuseInv'
  BY <1>0 DEF MisuseInv, NeverTouched, ClosesOwn
<1>10. QED
  BY <1>5, <1>6, <1>7, <1>8, <1>9

-----------------------------------------------------------------------------
(* Opening a device.  An Open that succeeds leaves a line with one         *)
(* descriptor of its own, and no Open ever takes one that is in use.       *)

Opens(i, st) == IF Nodes[i] = "usb" THEN USBDevice_Open(i, st) ELSE SerialDevice_Open(i, st)

LEMMA SetFDsResult ==
  ASSUME DevicesTyped, NEW i \in NodeIds, NEW r \in -1..MaxFD, NEW w \in -1..MaxFD,
         SetFDs(i, r, w)
  PROVE  /\ device' \in [NodeIds -> Device]
         /\ device'[i].state = device[i].state
         /\ device'[i].readFD = r /\ device'[i].writeFD = w
         /\ \A j \in NodeIds : j # i => device'[j] = device[j]
<1>1. device \in [NodeIds -> Device]
  BY DEF DevicesTyped
<1>2. device[i] \in Device
  BY <1>1
<1>3. device' = [device EXCEPT ![i] = [[device[i] EXCEPT !.readFD = r] EXCEPT !.writeFD = w]]
  BY <1>1 DEF SetFDs
<1>4. [[device[i] EXCEPT !.readFD = r] EXCEPT !.writeFD = w] \in Device
  BY <1>2 DEF Device
<1>5. device'[i] = [[device[i] EXCEPT !.readFD = r] EXCEPT !.writeFD = w]
  BY <1>1, <1>3
<1>6. QED
  BY <1>1, <1>2, <1>3, <1>4, <1>5 DEF Device

OpenedRight(i, st) ==
  /\ owner' \in [0..MaxFD -> {Unused, Program, Broker} \cup NodeIds]
  /\ owner'[0] = owner[0]
  /\ \A f \in 0..MaxFD : owner[f] # Unused => owner'[f] = owner[f]
  /\ \A f \in 0..MaxFD : owner'[f] # owner[f] =>
       f > 0 /\ owner'[f] = i /\ f \in {device'[i].readFD, device'[i].writeFD}
            /\ Nodes[i] # "usb"
  /\ device' \in [NodeIds -> Device]
  /\ device'[i].state = device[i].state
  /\ \A j \in NodeIds : j # i => device'[j] = device[j]
  /\ Nodes[i] = "tty" =>
       \/ st # "SUCCESS" /\ device'[i].readFD = 0 /\ device'[i].writeFD \in {0, -1}
       \/ /\ device'[i].readFD > 0 /\ device'[i].writeFD = device'[i].readFD
          /\ owner'[device'[i].readFD] = i
  /\ Nodes[i] = "bus" => st # "SUCCESS"

LEMMA OpenResult ==
  ASSUME DevicesTyped, NEW i \in NodeIds, Fresh(i), NEW st, Opens(i, st), owner[0] # Unused
  PROVE  OpenedRight(i, st)
<1> USE DEF OpenedRight
<1>1. ~IsOpen(i) /\ device[i].readFD = 0 /\ device[i].writeFD = 0
  BY DEF Fresh, IsOpen
<1>2. /\ owner \in [0..MaxFD -> {Unused, Program, Broker} \cup NodeIds]
      /\ device \in [NodeIds -> Device]
      /\ MaxFD \in Nat \ {0} /\ Nodes[i] \in {"usb", "tty", "bus"}
  BY DevicesAssumption DEF NodeIds, DevicesTyped
<1>3. \A fd \in UnusedFDs : fd \in 1..MaxFD /\ owner[fd] = Unused
  BY <1>2 DEF UnusedFDs
<1>4. CASE UNCHANGED <<owner, device>> /\ st = "INVALID_PARAMETER"
  BY <1>1, <1>2, <1>4
<1>5. CASE Nodes[i] = "usb" /\ USBDevice_Open(i, st)
  <2>1. SetFDs(i, 1, 1) /\ owner' = owner
    BY <1>5 DEF USBDevice_Open
  <2>2. 1 \in -1..MaxFD
    BY <1>2
  <2>3. QED
    BY <1>2, <1>5, <2>1, <2>2, SetFDsResult
<1>6. CASE Nodes[i] = "tty" /\ OpenLine(i, st)
  <2>1. CASE st = "READER_IO_ERROR" /\ SetFDs(i, device[i].readFD, -1) /\ owner' = owner
    <3>1. 0 \in -1..MaxFD /\ -1 \in -1..MaxFD /\ SetFDs(i, 0, -1)
      BY <1>1, <1>2, <2>1
    <3>2. QED
      BY <1>2, <1>6, <2>1, <3>1, SetFDsResult
  <2>2. CASE \E fd \in Lowest(UnusedFDs) : SetFDs(i, fd, fd) /\ owner' = [owner EXCEPT ![fd] = i]
    <3>1. PICK fd \in UnusedFDs : SetFDs(i, fd, fd) /\ owner' = [owner EXCEPT ![fd] = i]
      BY <2>2 DEF Lowest
    <3>2. fd \in 1..MaxFD /\ owner[fd] = Unused /\ fd \in -1..MaxFD
      BY <1>2, <1>3
    <3>3. /\ device' \in [NodeIds -> Device] /\ device'[i].state = device[i].state
          /\ device'[i].readFD = fd /\ device'[i].writeFD = fd
          /\ \A j \in NodeIds : j # i => device'[j] = device[j]
      BY <3>1, <3>2, SetFDsResult
    <3>4. QED
      BY <1>2, <1>6, <3>1, <3>2, <3>3
  <2>3. QED
    BY <1>6, <2>1, <2>2 DEF OpenLine
<1>7. CASE Nodes[i] = "bus" /\ OpenBus(i, st)
  <2>1. ASSUME st = "READER_IO_ERROR", owner' = owner, NEW r \in -1..MaxFD, NEW w \in -1..MaxFD,
               SetFDs(i, r, w)
        PROVE  OpenedRight(i, st)
    BY <1>2, <1>7, <2>1, SetFDsResult
  <2>2. ASSUME st = "READER_IO_ERROR", owner' = owner, SetFDs(i, device[i].readFD, -1)
        PROVE  OpenedRight(i, st)
    <3>1. 0 \in -1..MaxFD /\ -1 \in -1..MaxFD /\ SetFDs(i, 0, -1)
      BY <1>1, <1>2, <2>2
    <3>2. QED
      BY <2>1, <2>2, <3>1
  <2>3. ASSUME NEW w \in UnusedFDs, st = "READER_IO_ERROR", owner' = owner, SetFDs(i, -1, w)
        PROVE  OpenedRight(i, st)
    <3>1. w \in -1..MaxFD /\ -1 \in -1..MaxFD
      BY <1>2, <1>3
    <3>2. QED
      BY <2>1, <2>3, <3>1
  <2>4. ASSUME NEW w \in UnusedFDs, NEW r \in UnusedFDs, st = "INVALID_PARAMETER",
               SetFDs(i, r, w), owner' = [owner EXCEPT ![w] = i, ![r] = i]
        PROVE  OpenedRight(i, st)
    <3>1. w \in 1..MaxFD /\ r \in 1..MaxFD /\ owner[w] = Unused /\ owner[r] = Unused
          /\ w \in -1..MaxFD /\ r \in -1..MaxFD
      BY <1>2, <1>3
    <3>2. /\ device' \in [NodeIds -> Device] /\ device'[i].state = device[i].state
          /\ device'[i].readFD = r /\ device'[i].writeFD = w
          /\ \A j \in NodeIds : j # i => device'[j] = device[j]
      BY <2>4, <3>1, SetFDsResult
    <3>3. QED
      BY <1>2, <1>7, <2>4, <3>1, <3>2
  <2>5. QED
    BY <1>7, <2>2, <2>3, <2>4 DEF OpenBus, Lowest
<1>8. QED
  BY <1>1, <1>2, <1>4, <1>5, <1>6, <1>7 DEF Opens, SerialDevice_Open

LEMMA OpeningKeepsDevices == DeviceInv /\ OpenDevice /\ UNCHANGED factory => DeviceInv'
<1> SUFFICES ASSUME DeviceInv, OpenDevice, UNCHANGED factory PROVE DeviceInv'
  OBVIOUS
<1> USE DEF DeviceInv
<1> DEFINE i == array[ix]
<1>1. /\ pc = "open" /\ ix \in DOMAIN array /\ i \in NodeIds /\ i # 0
      /\ Fresh(i) /\ device[i].state = "made" /\ owner[0] # Unused
      /\ owner \in [0..MaxFD -> {Unused, Program, Broker} \cup NodeIds]
      /\ device \in [NodeIds -> Device] /\ MaxFD \in Nat
      /\ array \in Seq({0} \cup NodeIds)
  BY LenProperties, DevicesAssumption
  DEF OpenDevice, DevicesTyped, PlaceInv, SlotInv, FDInv, Probing
<1>2. PICK st : /\ Open(i, st)
                /\ TroubleIf(st # "SUCCESS" \/ sits[i].looping)
                /\ IF st = "SUCCESS" THEN pc' = (IF IsSerial THEN "settings" ELSE "write") /\ UNCHANGED ix
                                     ELSE NextDevice
  BY DEF OpenDevice, Node
<1>3. /\ Opens(i, st) /\ misuse' = misuse /\ array' = array
  BY <1>1, <1>2 DEF Open, Opens, Touched
<1>4. trouble \subseteq trouble' /\ (st # "SUCCESS" => i \in trouble')
  BY <1>2 DEF TroubleIf, Node
<1>5. /\ pc' \in {"open", "settings", "write"} /\ ix' \in {ix, ix + 1}
      /\ pc' # "open" => ix' = ix /\ st = "SUCCESS"
      /\ pc' = "open" => ix' = ix + 1
  BY <1>2 DEF NextDevice
<1>6. OpenedRight(i, st)
  BY <1>1, <1>3, OpenResult
<1>7. \A k \in DOMAIN array : k # ix => array[k] # i
  BY <1>1 DEF SlotInv
<1>8. \A j \in NodeIds : device'[j].state = device[j].state
  BY <1>6 DEF OpenedRight
<1>9. DevicesTyped'
  BY <1>1, <1>3, <1>5, <1>6 DEF DevicesTyped, OpenedRight, Places, Probing
<1>10. SlotInv'
  BY <1>1, <1>3, <1>5, <1>8 DEF SlotInv, DevicesTyped, Over
<1>11. PlaceInv'
  <2>1. \A k \in DOMAIN array : k > ix => Fresh(array[k]) /\ Fresh(array[k])' /\ array[k] # 0
    <3> SUFFICES ASSUME NEW k \in DOMAIN array, k > ix
                 PROVE  Fresh(array[k]) /\ Fresh(array[k])' /\ array[k] # 0
      OBVIOUS
    <3>1. Fresh(array[k]) /\ array[k] # 0
      BY <1>1 DEF PlaceInv, DevicesTyped
    <3>2. array[k] \in NodeIds /\ array[k] # i
      BY <1>1, <1>7, <3>1
    <3>3. QED
      BY <1>3, <1>6, <3>1, <3>2 DEF OpenedRight, Fresh
  <2>2. ix \in Nat /\ DOMAIN array \subseteq Nat
    BY <1>1 DEF DevicesTyped
  <2>3. \A k \in DOMAIN array : array[k] # 0
    BY <1>1 DEF PlaceInv
  <2>4. st = "SUCCESS" => Nodes[i] # "bus" /\ (Nodes[i] = "tty" => device'[i].readFD > 0)
    BY <1>6 DEF OpenedRight
  <2>5. \A k \in DOMAIN array : k >= ix + 1 => k > ix
    BY <2>2
  <2>6. QED
    BY <1>1, <1>3, <1>5, <2>1, <2>2, <2>3, <2>4, <2>5 DEF PlaceInv, Probing, Fresh
<1>12. FDInv'
  <2>1. OwnedInv'
    <3> SUFFICES ASSUME NEW f \in 0..MaxFD, NEW j \in NodeIds, owner'[f] = j
                 PROVE  f > 0 /\ device'[j].state = "made" /\ f \in FDsOf(j)'
      BY DEF OwnedInv
    <3>1. CASE owner'[f] # owner[f]
      <4>1. f > 0 /\ j = i /\ f \in {device'[i].readFD, device'[i].writeFD} /\ Nodes[i] # "usb"
        BY <1>6, <3>1 DEF OpenedRight
      <4>2. QED
        BY <1>1, <1>8, <4>1 DEF FDsOf
    <3>2. CASE owner'[f] = owner[f]
      <4>1. f > 0 /\ device[j].state = "made" /\ f \in FDsOf(j)
        BY <3>2 DEF FDInv, OwnedInv
      <4>2. j # i
        BY <1>1, <4>1 DEF FDsOf, Fresh
      <4>3. device'[j] = device[j]
        BY <1>6, <3>2, <4>2 DEF OpenedRight
      <4>4. QED
        BY <3>2, <4>1, <4>3 DEF FDsOf
    <3>3. QED
      BY <3>1, <3>2
  <2>2. LineInv'
    <3> SUFFICES ASSUME NEW j \in NodeIds, Nodes[j] = "tty"
                 PROVE  \/ device'[j].readFD = 0 /\ device'[j].writeFD \in {0, -1}
                        \/ /\ device'[j].readFD > 0 /\ device'[j].writeFD = device'[j].readFD
                           /\ owner'[device'[j].readFD] = j
      BY DEF LineInv
    <3>1. CASE j = i
      BY <1>6, <3>1 DEF OpenedRight
    <3>2. CASE j # i
      <4>1. device'[j] = device[j]
        BY <1>6, <3>2 DEF OpenedRight
      <4>2. device[j].readFD > 0 => device[j].readFD \in 0..MaxFD
        BY <1>1 DEF Device
      <4>3. device[j].readFD > 0 => owner[device[j].readFD] = j
        BY <1>1 DEF FDInv, LineInv, Over
      <4>4. device[j].readFD > 0 => owner'[device[j].readFD] = j
        BY <1>6, <4>2, <4>3, OwnersDiffer DEF OpenedRight
      <4>5. QED
        BY <4>1, <4>4 DEF FDInv, LineInv
    <3>3. QED
      BY <3>1, <3>2
  <2>3. ASSUME NEW j \in NodeIds, Nodes[j] = "bus"
        PROVE  Fresh(j)' \/ j \in trouble'
    BY <1>4, <1>6, <2>3 DEF OpenedRight, FDInv, Fresh
  <2>4. QED
    BY <1>1, <1>6, <2>1, <2>2, <2>3 DEF FDInv, OpenedRight
<1>13. MisuseInv'
  BY <1>3, <1>4 DEF MisuseInv, NeverTouched, ClosesOwn
<1>14. QED
  BY <1>9, <1>10, <1>11, <1>12, <1>13

-----------------------------------------------------------------------------
(* Closing a device.  What it closes is its own, or descriptor 0, or the   *)
(* number an Open that failed left in an spi or i2c node.                  *)

Closes(i) ==
  /\ device[i].state = "made"
  /\ CloseFDs(i, FDsOf(i))
  /\ device' \in [NodeIds -> Device]
  /\ device'[i].readFD = 0 /\ device'[i].writeFD = 0
  /\ \A j \in NodeIds : j # i => device'[j] = device[j]

LEMMA CloseResult ==
  ASSUME DeviceInv, NEW i \in NodeIds, Closes(i), trouble \subseteq trouble',
         pc \in Over => pc' \in Over,
         pc' \notin Over => owner[0] # Unused /\ \A f \in FDsOf(i) : f > 0 /\ owner[f] = i
  PROVE  FDInv' /\ MisuseInv' /\ owner' \in [0..MaxFD -> {Unused, Program, Broker} \cup NodeIds]
<1> USE DEF DeviceInv
<1>1. /\ owner \in [0..MaxFD -> {Unused, Program, Broker} \cup NodeIds]
      /\ device \in [NodeIds -> Device]
      /\ MaxFD \in Nat /\ Nodes[i] \in {"usb", "tty", "bus"}
  BY DevicesAssumption DEF DevicesTyped, NodeIds
<1>2. /\ owner' \in [0..MaxFD -> {Unused, Program, Broker} \cup NodeIds]
      /\ \A f \in 0..MaxFD : owner'[f] = IF f \in FDsOf(i) THEN Unused ELSE owner[f]
  BY <1>1 DEF Closes, CloseFDs
<1>3. OwnedInv'
  <2> SUFFICES ASSUME NEW f \in 0..MaxFD, NEW j \in NodeIds, owner'[f] = j
               PROVE  f > 0 /\ device'[j].state = "made" /\ f \in FDsOf(j)'
    BY DEF OwnedInv
  <2>1. owner[f] = j /\ f \notin FDsOf(i)
    BY <1>2, OwnersDiffer
  <2>2. f > 0 /\ device[j].state = "made" /\ f \in FDsOf(j)
    BY <2>1 DEF FDInv, OwnedInv
  <2>3. device'[j] = device[j]
    BY <2>1, <2>2 DEF Closes
  <2>4. QED
    BY <2>2, <2>3 DEF FDsOf
<1>4. LineInv'
  <2> SUFFICES ASSUME NEW j \in NodeIds, Nodes[j] = "tty", j # i, device[j].readFD > 0
               PROVE  LET f == device[j].readFD
                      IN  owner'[f] = j \/ (owner'[f] = Unused /\ pc' \in Over)
    BY DEF LineInv, FDInv, Closes, Fresh
  <2>1. device[j].readFD \in 0..MaxFD
    BY <1>1 DEF Device
  <2>2. owner[device[j].readFD] = j \/ (owner[device[j].readFD] = Unused /\ pc \in Over)
    BY DEF FDInv, LineInv
  <2>3. QED
    BY <1>2, <2>1, <2>2
<1>5. FDInv'
  <2>1. pc' \in Probing \cup {"open", "devices"} => owner'[0] # Unused
    <3> SUFFICES ASSUME pc' \in Probing \cup {"open", "devices"} PROVE owner'[0] # Unused
      OBVIOUS
    <3>1. pc' \notin Over
      BY DEF Probing, Over
    <3>2. 0 \notin FDsOf(i) /\ 0 \in 0..MaxFD
      BY <1>1, <3>1
    <3>3. QED
      BY <1>2, <3>1, <3>2
  <2>2. ASSUME NEW j \in NodeIds, Nodes[j] = "bus"
        PROVE  Fresh(j)' \/ j \in trouble'
    BY <2>2 DEF Closes, FDInv, Fresh
  <2>3. QED
    BY <1>3, <1>4, <2>1, <2>2 DEF FDInv
<1>6. MisuseInv'
  <2> SUFFICES ASSUME NEW m \in misuse', m \notin misuse
               PROVE  m.what # "touch" /\ (m.fd = 0 \/ (Nodes[m.node] = "bus" /\ m.node \in trouble))
    BY DEF MisuseInv, NeverTouched, ClosesOwn
  <2>1. PICK f \in FDsOf(i) \cap 0..MaxFD :
          m = Misuse("close", i, f) /\ owner[f] # Unused /\ owner[f] # i
    BY DEF Closes, CloseFDs, Touched
  <2>2. m.what = "close" /\ m.node = i /\ m.fd = f
    BY <2>1 DEF Misuse
  <2>3. Nodes[i] = "tty" => f = 0
    BY <1>1, <2>1 DEF FDInv, LineInv, FDsOf
  <2>4. Nodes[i] = "bus" => f = 0 \/ i \in trouble
    BY <2>1 DEF FDInv, FDsOf, Fresh
  <2>5. Nodes[i] # "usb"
    BY <2>1 DEF FDsOf
  <2>6. QED
    BY <1>1, <2>2, <2>3, <2>4, <2>5
<1>7. QED
  BY <1>2, <1>5, <1>6

LEMMA MakingKeepsDevices == DeviceInv /\ MakesReader /\ UNCHANGED factory => DeviceInv'
<1> SUFFICES ASSUME DeviceInv, MakesReader, UNCHANGED factory PROVE DeviceInv'
  OBVIOUS
<1> USE DEF DeviceInv, devvars
<1>1. pc = "create" /\ pc' = "open" /\ ix' = ix + 1 /\ ix \in Nat
      /\ UNCHANGED <<devvars, factory, trouble>>
  BY DEF MakesReader, NextDevice, DevicesTyped
<1>2. DevicesTyped'
  BY <1>1 DEF DevicesTyped, Places
<1>3. SlotInv'
  BY <1>1 DEF SlotInv, Over
<1>4. PlaceInv'
  BY <1>1 DEF PlaceInv, Probing, Fresh, DevicesTyped
<1>5. FDInv'
  BY <1>1 DEF FDInv, OwnedInv, LineInv, Probing, Over, Fresh, FDsOf
<1>6. MisuseInv'
  BY <1>1 DEF MisuseInv, NeverTouched, ClosesOwn
<1>7. QED
  BY <1>2, <1>3, <1>4, <1>5, <1>6

LEMMA NoReaderKeepsDevices == DeviceInv /\ NoReader /\ UNCHANGED factory => DeviceInv'
<1> SUFFICES ASSUME DeviceInv, NoReader, UNCHANGED factory PROVE DeviceInv'
  OBVIOUS
<1> DEFINE i == array[ix]
<1>1. pc = "create" /\ trouble \subseteq trouble'
  BY DEF NoReader, TroubleIf
<1>2. CASE pc' = "settings" /\ UNCHANGED <<devvars, ix>>
  BY <1>1, <1>2, ProbingKeepsDevices DEF Probing
<1>3. CASE Close(i) /\ NextDevice
  <2> USE DEF DeviceInv
  <2>1. /\ ix \in DOMAIN array /\ i \in NodeIds /\ i # 0 /\ device[i].state = "made"
        /\ ix \in Nat /\ DOMAIN array \subseteq Nat
        /\ device \in [NodeIds -> Device] /\ array \in Seq({0} \cup NodeIds)
        /\ MaxFD \in Nat
    BY <1>1, DevicesAssumption DEF DevicesTyped, PlaceInv, SlotInv, Probing
  <2>2. pc' = "open" /\ ix' = ix + 1 /\ array' = array /\ factory' = factory
    BY <1>3 DEF NextDevice, Close
  <2>3. Closes(i) /\ \A j \in NodeIds : device'[j].state = device[j].state
    <3>1. device' = [device EXCEPT ![i] = [device[i] EXCEPT !.readFD = 0, !.writeFD = 0]]
      BY <1>3 DEF Close, Reset
    <3>2. device[i] \in Device /\ 0 \in -1..MaxFD
      BY <2>1
    <3>3. [device[i] EXCEPT !.readFD = 0, !.writeFD = 0] \in Device
      BY <3>2 DEF Device
    <3>4. CloseFDs(i, FDsOf(i))
      BY <1>3 DEF Close
    <3>5. device'[i] = [device[i] EXCEPT !.readFD = 0, !.writeFD = 0]
          /\ \A j \in NodeIds : j # i => device'[j] = device[j]
      BY <2>1, <3>1
    <3>6. device' \in [NodeIds -> Device]
      BY <2>1, <3>1, <3>3
    <3>7. QED
      BY <2>1, <3>2, <3>4, <3>5, <3>6 DEF Closes, Device
  <2>4. owner[0] # Unused /\ \A f \in FDsOf(i) : f > 0 /\ owner[f] = i
    <3>1. Nodes[i] \in {"usb", "tty"} /\ (Nodes[i] = "tty" => device[i].readFD > 0)
      BY <1>1, <2>1, DevicesAssumption DEF PlaceInv, Probing, NodeIds
    <3>2. owner[0] # Unused
      BY <1>1 DEF FDInv, Probing
    <3>3. QED
      BY <1>1, <2>1, <3>1, <3>2 DEF FDInv, LineInv, FDsOf, Over
  <2>5. FDInv' /\ MisuseInv' /\ owner' \in [0..MaxFD -> {Unused, Program, Broker} \cup NodeIds]
    BY <1>1, <2>1, <2>3, <2>4, CloseResult DEF Over
  <2>6. DevicesTyped'
    BY <2>1, <2>2, <2>3, <2>5 DEF DevicesTyped, Places, Closes
  <2>7. SlotInv'
    BY SMTT(30), <1>1, <2>1, <2>2, <2>3 DEF SlotInv, DevicesTyped, Over
  <2>8. PlaceInv'
    <3>1. \A k \in DOMAIN array : k >= ix + 1 => Fresh(array[k])'
      <4> SUFFICES ASSUME NEW k \in DOMAIN array, k >= ix + 1 PROVE Fresh(array[k])'
        OBVIOUS
      <4>1. k > ix
        BY <2>1
      <4>2. Fresh(array[k]) /\ array[k] # 0
        BY <1>1, <4>1 DEF PlaceInv, Probing
      <4>3. array[k] \in NodeIds
        BY <2>1, <4>2
      <4>4. CASE array[k] = i
        BY <2>2, <2>3, <4>4 DEF Closes, Fresh
      <4>5. CASE array[k] # i
        BY <2>2, <2>3, <4>2, <4>3, <4>5 DEF Closes, Fresh
      <4>6. QED
        BY <4>4, <4>5
    <3>2. QED
      BY <1>1, <2>2, <3>1 DEF PlaceInv, Probing
  <2>9. QED
    BY <2>5, <2>6, <2>7, <2>8
<1>4. QED
  BY <1>2, <1>3 DEF NoReader, Node

-----------------------------------------------------------------------------
(* The end of the program: the factories go over the array one after the   *)
(* other.                                                                  *)

LEMMA SlotsPassed ==
  DeviceInv /\ pc = "free" /\ factory = 3 => \A k \in DOMAIN array : array[k] = 0
<1> SUFFICES ASSUME DeviceInv, pc = "free", factory = 3, NEW k \in DOMAIN array, array[k] # 0
             PROVE  Passed(k)
  BY DEF DeviceInv, SlotInv
<1>1. FactoryOf(array[k]) = Factories[1] \/ FactoryOf(array[k]) = Factories[2]
  BY DEF FactoryOf, Factories
<1>2. QED
  BY <1>1 DEF Passed

(* A slot whose device the factory has freed, or has left to the other     *)
(* one, is behind it.                                                      *)
LEMMA FreeingKeepsDevices == DeviceInv /\ FreeDevices => DeviceInv'
<1> SUFFICES ASSUME DeviceInv, FreeDevices PROVE DeviceInv'
  OBVIOUS
<1> USE DEF DeviceInv
<1> DEFINE i == array[ix]
<1>1. /\ pc = "free" /\ pc' = "free" /\ trouble' = trouble /\ factory \in 1..2
      /\ device \in [NodeIds -> Device] /\ array \in Seq({0} \cup NodeIds)
      /\ ix \in Nat \ {0} /\ MaxFD \in Nat
  BY DevicesAssumption DEF FreeDevices, Factories, probevars, DevicesTyped
<1>2. CASE UNCHANGED devvars /\ ix' \in Nat \ {0} /\ factory' \in 1..3
           /\ \A k \in DOMAIN array : array[k] # 0 /\ Passed(k)' => Passed(k)
  <2> USE DEF devvars
  <2>1. DevicesTyped'
    BY <1>1, <1>2 DEF DevicesTyped, Places
  <2>2. SlotInv'
    BY <1>1, <1>2 DEF SlotInv, Over
  <2>3. PlaceInv'
    BY <1>1, <1>2 DEF PlaceInv, Probing
  <2>4. FDInv'
    BY <1>1, <1>2 DEF FDInv, OwnedInv, LineInv, Probing, Fresh, FDsOf
  <2>5. MisuseInv'
    BY <1>1, <1>2 DEF MisuseInv, NeverTouched, ClosesOwn
  <2>6. QED
    BY <2>1, <2>2, <2>3, <2>4, <2>5
<1>3. CASE ~(ix <= Len(array))
  <2>1. ix' = 1 /\ factory' = factory + 1 /\ UNCHANGED devvars
    BY <1>3 DEF FreeDevices
  <2>2. \A k \in DOMAIN array : k \in Nat \ {0} /\ k < ix
    BY <1>1, <1>3, LenProperties
  <2>3. ASSUME NEW k \in DOMAIN array, Passed(k)' PROVE Passed(k)
    <3>1. PICK g \in 1..2 : Factories[g] = FactoryOf(array'[k])
                            /\ (g < factory' \/ (g = factory' /\ k < ix'))
      BY <2>3 DEF Passed, FactoryOf
    <3>2. g <= factory
      BY <1>1, <2>1, <2>2, <3>1
    <3>3. QED
      BY <1>1, <2>1, <2>2, <3>1, <3>2 DEF Passed, devvars
  <2>4. QED
    BY <1>1, <1>2, <2>1, <2>3
<1>4. CASE ix <= Len(array)
  <2>1. /\ FreeSlot(Factories[factory], ix) /\ ix' = ix + 1 /\ factory' = factory
        /\ ix \in DOMAIN array
    BY <1>1, <1>4, LenProperties DEF FreeDevices
  <2>2. ASSUME NEW k \in DOMAIN array, array' = array, k # ix, Passed(k)' PROVE Passed(k)
    <3>1. PICK g \in 1..2 : Factories[g] = FactoryOf(array'[k])
                            /\ (g < factory' \/ (g = factory' /\ k < ix'))
      BY <2>2 DEF Passed, FactoryOf
    <3>2. k \in Nat /\ (k < ix' => k < ix)
      BY <1>1, <2>1, <2>2
    <3>3. QED
      BY <2>1, <2>2, <3>1, <3>2 DEF Passed
  <2>3. CASE i = 0 /\ UNCHANGED devvars
    BY <1>1, <1>2, <2>1, <2>2, <2>3 DEF devvars
  <2>4. CASE i # 0 /\ FactoryOf(i) # Factories[factory] /\ misuse' = misuse \cup Touched(i)
             /\ UNCHANGED <<owner, device, array>>
    <3>1. device[i].state = "made"
      BY <2>1, <2>4 DEF SlotInv
    <3>2. misuse' = misuse
      BY <2>4, <3>1 DEF Touched
    <3>3. ASSUME Passed(ix) \/ \E g \in 1..2 : Factories[g] = FactoryOf(i) /\ g <= factory
          PROVE  Passed(ix)
      BY <1>1, <2>4, <3>3 DEF Passed
    <3>4. ASSUME NEW k \in DOMAIN array, k = ix, Passed(k)' PROVE Passed(k)
      <4>1. PICK g \in 1..2 : Factories[g] = FactoryOf(array'[k])
                              /\ (g < factory' \/ (g = factory' /\ k < ix'))
        BY <3>4 DEF Passed, FactoryOf
      <4>2. g <= factory /\ Factories[g] = FactoryOf(i)
        BY <1>1, <2>1, <2>4, <3>4, <4>1
      <4>3. QED
        BY <3>3, <3>4, <4>2
    <3>5. QED
      BY <1>1, <1>2, <2>1, <2>2, <2>4, <3>2, <3>4 DEF devvars
  <2>5. CASE i # 0 /\ Free(i) /\ array' = EmptySlot(ix)
    <3>1. i \in NodeIds /\ device[i].state = "made"
      BY <1>1, <2>1, <2>5 DEF SlotInv
    <3>2. /\ array' \in Seq({0} \cup NodeIds) /\ DOMAIN array' = DOMAIN array
          /\ array'[ix] = 0 /\ \A k \in DOMAIN array : k # ix => array'[k] = array[k]
      BY <1>1, <2>1, <2>5 DEF EmptySlot
    <3>3. /\ device' \in [NodeIds -> Device] /\ CloseFDs(i, FDsOf(i))
          /\ device'[i].state = "freed" /\ device'[i].readFD = 0 /\ device'[i].writeFD = 0
          /\ \A j \in NodeIds : j # i => device'[j] = device[j]
      <4>1. device' = [device EXCEPT ![i] = [Reset(device[i]) EXCEPT !.state = "freed"]]
            /\ CloseFDs(i, FDsOf(i))
        BY <2>5 DEF Free
      <4>2. Reset(device[i]) \in Device /\ Reset(device[i]).readFD = 0
            /\ Reset(device[i]).writeFD = 0
        <5>1. device[i] \in Device
          BY <1>1, <3>1
        <5>2. 0 \in -1..MaxFD
          BY <1>1
        <5>3. [device[i] EXCEPT !.readFD = 0, !.writeFD = 0] \in Device
          BY <5>1, <5>2 DEF Device
        <5>4. QED
          BY <5>1, <5>3 DEF Reset, Device
      <4>3. /\ [Reset(device[i]) EXCEPT !.state = "freed"] \in Device
            /\ [Reset(device[i]) EXCEPT !.state = "freed"].state = "freed"
            /\ [Reset(device[i]) EXCEPT !.state = "freed"].readFD = 0
            /\ [Reset(device[i]) EXCEPT !.state = "freed"].writeFD = 0
        BY <4>2 DEF Device
      <4>4. QED
        BY <1>1, <3>1, <4>1, <4>3
    <3>4. Closes(i)
      BY <3>1, <3>3 DEF Closes
    <3>5. FDInv' /\ MisuseInv' /\ owner' \in [0..MaxFD -> {Unused, Program, Broker} \cup NodeIds]
      BY <1>1, <3>1, <3>4, CloseResult DEF Over
    <3>6. DevicesTyped'
      BY <1>1, <2>1, <3>2, <3>3, <3>5 DEF DevicesTyped, Places
    <3>7. \A k \in DOMAIN array : array'[k] # 0 =>
            k # ix /\ array'[k] = array[k] /\ array[k] # i /\ array[k] \in NodeIds
      <4> SUFFICES ASSUME NEW k \in DOMAIN array, array'[k] # 0
                   PROVE  k # ix /\ array'[k] = array[k] /\ array[k] # i /\ array[k] \in NodeIds
        OBVIOUS
      <4>1. k # ix /\ array'[k] = array[k]
        BY <3>2
      <4>2. array[k] # i
        BY <2>1, <2>5, <4>1 DEF SlotInv
      <4>3. QED
        BY <1>1, <4>1, <4>2
    <3>8. SlotInv'
      <4>1. \A k \in DOMAIN array' : array'[k] # 0 => device'[array'[k]].state = "made"
        BY <3>2, <3>3, <3>7 DEF SlotInv
      <4>2. \A k, l \in DOMAIN array' : array'[k] # 0 /\ array'[k] = array'[l] => k = l
        BY <3>2, <3>7 DEF SlotInv
      <4>3. ASSUME NEW j \in NodeIds, device'[j].state = "made"
            PROVE  \E k \in DOMAIN array' : array'[k] = j
        <5>1. j # i
          BY <3>3, <4>3
        <5>2. PICK k \in DOMAIN array : array[k] = j
          BY <3>3, <4>3, <5>1 DEF SlotInv
        <5>3. QED
          BY <3>2, <5>1, <5>2
      <4>4. ASSUME NEW k \in DOMAIN array', array'[k] # 0, Passed(k)' PROVE FALSE
        <5>1. PICK g \in 1..2 : Factories[g] = FactoryOf(array'[k])
                                /\ (g < factory' \/ (g = factory' /\ k < ix'))
          BY <4>4 DEF Passed, FactoryOf
        <5>2. k # ix /\ array'[k] = array[k] /\ k \in DOMAIN array /\ array[k] # 0
          BY <3>2, <3>7, <4>4
        <5>3. k \in Nat /\ (k < ix' => k < ix)
          BY <1>1, <2>1, <5>2
        <5>4. Passed(k)
          BY <2>1, <5>1, <5>2, <5>3 DEF Passed
        <5>5. QED
          BY <1>1, <5>2, <5>4 DEF SlotInv
      <4>5. QED
        BY <1>1, <4>1, <4>2, <4>3, <4>4 DEF SlotInv, Over
    <3>9. PlaceInv'
      BY <1>1 DEF PlaceInv, Probing
    <3>10. QED
      BY <3>5, <3>6, <3>8, <3>9
  <2>6. QED
    BY <2>1, <2>3, <2>4, <2>5 DEF FreeSlot
<1>5. QED
  <2>1. Len(array) \in Nat
    BY <1>1, LenProperties
  <2>2. QED
    BY <1>1, <1>3, <1>4, <2>1

LEMMA EndKeepsDevices ==
  ASSUME DeviceInv, LoopsDone \/ FreeReaders \/ Disconnect
  PROVE  DeviceInv'
<1> USE DEF DeviceInv
<1>1. /\ device' = device /\ array' = array /\ misuse' = misuse
      /\ trouble' = trouble /\ factory' = factory /\ ix' = 1
  BY DEF LoopsDone, FreeReaders, Disconnect, Jump, devvars, probevars
<1>2. /\ pc' \in Over /\ pc # "connect" /\ pc # "devices"
      /\ pc' = "free" => pc \notin Over
      /\ pc' = "disconnect" => pc = "free" /\ factory = 3
      /\ pc' = "exit" => pc = "disconnect"
  BY DEF LoopsDone, FreeReaders, Disconnect, Jump, Over, Factories, DevicesTyped
<1>3. /\ owner' \in [0..MaxFD -> {Unused, Program, Broker} \cup NodeIds]
      /\ \A f \in 0..MaxFD : owner[f] # Broker => owner'[f] = owner[f]
      /\ \A f \in 0..MaxFD : owner[f] = Broker => owner'[f] \in {Broker, Unused}
  <2>1. CASE owner' = owner
    BY <2>1 DEF DevicesTyped
  <2>2. CASE owner' = [f \in DOMAIN owner |-> IF owner[f] = Broker THEN Unused ELSE owner[f]]
    BY <2>2 DEF DevicesTyped
  <2>3. QED
    BY <2>1, <2>2 DEF LoopsDone, FreeReaders, Disconnect, devvars
<1>4. DevicesTyped'
  BY <1>1, <1>2, <1>3 DEF DevicesTyped, Places, Over
<1>5. SlotInv'
  <2>1. pc' = "free" => \A k \in DOMAIN array : ~Passed(k)'
    <3> SUFFICES ASSUME pc' = "free", NEW k \in DOMAIN array, Passed(k)' PROVE FALSE
      OBVIOUS
    <3>1. PICK g \in 1..2 : g < factory' \/ (g = factory' /\ k < ix')
      BY DEF Passed
    <3>2. factory' = 1 /\ k \in Nat \ {0}
      BY <1>1, <1>2, LenProperties DEF SlotInv, DevicesTyped
    <3>3. QED
      BY <1>1, <3>1, <3>2
  <2>2. pc' = "disconnect" => \A k \in DOMAIN array : array[k] = 0
    BY <1>2, SlotsPassed
  <2>3. QED
    BY <1>1, <1>2, <2>1, <2>2 DEF SlotInv, Over
<1>6. PlaceInv'
  BY <1>2 DEF PlaceInv, Probing, Over
<1>7. FDInv'
  <2>1. \A f \in 0..MaxFD : owner[f] \in NodeIds \/ owner'[f] \in NodeIds => owner'[f] = owner[f]
    BY <1>3, OwnersDiffer
  <2>2. OwnedInv'
    BY <1>1, <2>1 DEF FDInv, OwnedInv, FDsOf
  <2>3. ASSUME NEW i \in NodeIds, Nodes[i] = "tty", device[i].readFD > 0
        PROVE  LET f == device[i].readFD IN owner'[f] = i \/ owner'[f] = Unused
    <3>1. device[i].readFD \in 0..MaxFD
      BY <2>3, DevicesAssumption DEF DevicesTyped, Device
    <3>2. owner[device[i].readFD] = i \/ owner[device[i].readFD] = Unused
      BY <2>3 DEF FDInv, LineInv
    <3>3. QED
      BY <1>3, <2>1, <3>1, <3>2 DEF Unused, Broker
  <2>4. LineInv'
    BY <1>1, <1>2, <2>3 DEF FDInv, LineInv
  <2>5. QED
    BY <1>1, <1>2, <2>2, <2>4 DEF FDInv, Probing, Over, Fresh
<1>8. MisuseInv'
  BY <1>1 DEF MisuseInv, NeverTouched, ClosesOwn
<1>9. QED
  BY <1>4, <1>5, <1>6, <1>7, <1>8

(* Every step keeps the devices right: this is what the theorems rest on.  *)
LEMMA NextKeepsDevices == DeviceInv /\ [Next]_vars => DeviceInv'
<1> SUFFICES ASSUME DeviceInv, [Next]_vars PROVE DeviceInv'
  OBVIOUS
<1>1. ix \in Nat \ {0} /\ ix + 1 \in Nat \ {0}
  BY DEF DeviceInv, DevicesTyped
<1>2. CASE UNCHANGED <<devvars, pc, ix, factory, trouble>>
  BY <1>2 DEF DeviceInv, DevicesTyped, SlotInv, PlaceInv, FDInv, OwnedInv, LineInv, MisuseInv,
    NeverTouched, ClosesOwn, Passed, Fresh, FDsOf, devvars
<1>3. CASE Connect
  BY <1>3, ConnectKeepsDevices
<1>4. CASE FindDevices
  BY <1>4, FindingKeepsDevices
<1>5. CASE ReadersFound
  BY <1>5, LoopsKeepDevices DEF ReadersFound, Jump, devvars, probevars
<1>6. CASE Discover
  <2>1. factory' = factory
    BY <1>6 DEF Discover
  <2>2. CASE OpenDevice
    BY <2>1, <2>2, OpeningKeepsDevices
  <2>3. CASE MakesReader
    BY <2>1, <2>3, MakingKeepsDevices
  <2>4. CASE NoReader
    BY <2>1, <2>4, NoReaderKeepsDevices
  <2>5. CASE SetOptions
    BY <2>1, <2>5, ProbingKeepsDevices DEF SetOptions, devvars, Probing
  <2>6. CASE WriteFails \/ WriteProbe
    BY <2>1, <2>6, ProbingKeepsDevices DEF WriteFails, WriteProbe, TroubleIf, devvars, Probing
  <2>7. CASE Arrive
    BY <2>1, <2>7, ProbingKeepsDevices DEF Arrive, TroubleIf, devvars, Probing
  <2>8. CASE ReadHead \/ ReadRest
    BY <2>1, <2>8, ProbingKeepsDevices DEF ReadHead, ReadRest, Read, TroubleIf, devvars, Probing
  <2>9. CASE Reopen
    BY <2>1, <2>9, ProbingKeepsDevices DEF Reopen, devvars, Probing
  <2>10. QED
    BY <1>6, <2>2, <2>3, <2>4, <2>5, <2>6, <2>7, <2>8, <2>9 DEF Discover, DiscoverNext
<1>7. CASE SelectTags \/ LoopEnds
  BY <1>1, <1>7, LoopsKeepDevices DEF SelectTags, LoopEnds, devvars, probevars
<1>8. CASE TagFound
  BY <1>1, <1>8, LoopsKeepDevices DEF TagFound, devvars, probevars
<1>9. CASE ConnectionLost
  BY <1>1, <1>9, LoopsKeepDevices DEF ConnectionLost, probevars
<1>10. CASE FreeDevices
  BY <1>10, FreeingKeepsDevices
<1>11. CASE LoopsDone \/ FreeReaders \/ Disconnect
  BY <1>11, EndKeepsDevices
<1>12. CASE BrokerTakes
  BY <1>2, <1>12 DEF BrokerTakes, discvars, probevars
<1>13. CASE UNCHANGED vars
  BY <1>2, <1>13 DEF vars, discvars, probevars
<1>14. QED
  BY <1>3, <1>4, <1>5, <1>6, <1>7, <1>8, <1>9, <1>10, <1>11, <1>12, <1>13 DEF Next, Host

-----------------------------------------------------------------------------

(* The slots of the array, the devices and the descriptors of the process  *)
(* agree at every step of the program.                                     *)
THEOREM DevicesAgree == Spec => []DeviceInv
<1>1. Init => DeviceInv
  BY InitDevices
<1>2. DeviceInv /\ [Next]_vars => DeviceInv'
  BY NextKeepsDevices
<1>3. QED
  BY <1>1, <1>2, PTL DEF Spec

(* Close and Free of a device (SerialDevice.c:600, 739) close descriptors  *)
(* of that device only, but for descriptor 0 and what a failed Open of an  *)
(* spi or i2c node left behind, however many devices and descriptors.      *)
THEOREM DevicesCloseTheirOwn == Spec => []ClosesOwn
<1>1. DeviceInv => ClosesOwn
  BY DEF DeviceInv, MisuseInv
<1>2. QED
  BY <1>1, DevicesAgree, PTL

(* The factories (DeviceFactory.c:87) free every device once, look at none *)
(* that is freed, and leave no descriptor of a device behind.              *)
THEOREM DevicesFreedOnce == Spec => []FreedOnce
<1>1. ASSUME DeviceInv PROVE FreedOnce
  <2>1. NeverTouched
    BY <1>1 DEF DeviceInv, MisuseInv
  <2>2. ASSUME pc = "disconnect", NEW i \in NodeIds PROVE device[i].state # "made"
    BY <1>1, <2>2, OwnersDiffer DEF DeviceInv, SlotInv, Unused
  <2>3. ASSUME pc = "disconnect", NEW f \in DOMAIN owner PROVE owner[f] \notin NodeIds
    <3>1. f \in 0..MaxFD
      BY <1>1 DEF DeviceInv, DevicesTyped
    <3>2. QED
      BY <1>1, <2>2, <2>3, <3>1 DEF DeviceInv, FDInv, OwnedInv
  <2>4. QED
    BY <2>1, <2>2, <2>3 DEF FreedOnce, AllGivenBack
<1>2. QED
  BY <1>1, DevicesAgree, PTL

-----------------------------------------------------------------------------
(* Sequences of messages *)

LEMMA ConcatPrefix ==
  ASSUME NEW S, NEW s \in Seq(S), NEW t \in Seq(S)
  PROVE  Len(s) <= Len(s \o t) /\ s = SubSeq(s \o t, 1, Len(s))
<1>1. Len(s) \in Nat /\ Len(t) \in Nat /\ Len(s \o t) = Len(s) + Len(t)
  BY LenProperties, ConcatProperties
<1>2. CASE Len(s) = 0
  <2>1. s = <<>>
    BY <1>2, EmptySeq
  <2>2. SubSeq(s \o t, 1, 0) = <<>>
    BY SubSeqEmpty
  <2>3. QED
    BY <1>1, <1>2, <2>1, <2>2
<1>3. CASE Len(s) # 0
  <2>1. SubSeq(s \o t, 1, Len(s)) = SubSeq(s, 1, Len(s))
    BY <1>1, <1>3, SubSeqOfConcat1
  <2>2. QED
    BY <1>1, <2>1, SubSeqFull
<1>4. QED
  BY <1>2, <1>3

LEMMA PrefixOfAppend ==
  ASSUME NEW S, NEW s \in Seq(S), NEW e \in S, NEW n \in 0..Len(s)
  PROVE  SubSeq(Append(s, e), 1, n) = SubSeq(s, 1, n)
<1>1. Len(s) \in Nat /\ <<e>> \in Seq(S) /\ Append(s, e) = s \o <<e>>
  BY LenProperties, AppendIsConcat
<1>2. CASE n = 0
  BY <1>2, SubSeqEmpty
<1>3. CASE n # 0
  BY <1>1, <1>3, SubSeqOfConcat1
<1>4. QED
  BY <1>2, <1>3

LEMMA HeadMoves ==
  ASSUME NEW S, NEW s \in Seq(S), NEW t \in Seq(S), t # <<>>
  PROVE  Append(s, Head(t)) \o Tail(t) = s \o t
<1>1. Head(t) \in S /\ Tail(t) \in Seq(S) /\ <<Head(t)>> \in Seq(S)
  BY HeadTailProperties
<1>2. <<Head(t)>> \o Tail(t) = t
  BY <1>1, HeadTailProperties, LenProperties
<1>3. Append(s, Head(t)) = s \o <<Head(t)>>
  BY <1>1, AppendIsConcat
<1>4. QED
  BY <1>1, <1>2, <1>3, ConcatAssociative

LEMMA AppendMoves ==
  ASSUME NEW S, NEW s \in Seq(S), NEW t \in Seq(S), NEW e \in S
  PROVE  s \o Append(t, e) = Append(s \o t, e)
<1>1. <<e>> \in Seq(S) /\ s \o t \in Seq(S)
  BY ConcatProperties
<1>2. Append(t, e) = t \o <<e>> /\ Append(s \o t, e) = (s \o t) \o <<e>>
  BY <1>1, AppendIsConcat
<1>3. QED
  BY <1>1, <1>2, ConcatAssociative

-----------------------------------------------------------------------------
(* What the broker gets.  Once the connection is gone it stays gone, and   *)
(* while a loop runs the topic is that of its reader.                      *)

Tag == [topic : {0} \cup NodeIds, tag : Nat]

MessageInv ==
  /\ readers \in Seq(Reader)
  /\ outbox \in Seq(Tag) /\ taken \in Seq(Tag) /\ seen \in Seq(Tag)
  /\ pc = "connect" => outbox = <<>> /\ taken = <<>> /\ seen = <<>>
  /\ pc = "loop" => ix \in DOMAIN readers /\ topic = Rid(readers[ix])
  /\ BrokerGets

LEMMA NothingConnects ==
  ASSUME DeviceInv, DeviceInv', [Next]_vars, ~Connect
  PROVE  Connected' => Connected
<1> SUFFICES ASSUME NEW f \in DOMAIN owner', owner'[f] = Broker PROVE owner[f] = Broker /\ f \in DOMAIN owner
  BY DEF Connected
<1>1. f \in 0..MaxFD /\ DOMAIN owner = 0..MaxFD /\ DOMAIN owner' = 0..MaxFD
      /\ owner \in [0..MaxFD -> {Unused, Program, Broker} \cup NodeIds]
  BY DEF DeviceInv, DevicesTyped
<1> SUFFICES owner'[f] = owner[f] \/ owner'[f] # Broker
  BY <1>1
<1>2. CASE OpenDevice
  <2>1. array[ix] # Broker
    <3>1. array \in Seq({0} \cup NodeIds) /\ ix \in Nat \ {0} /\ ix <= Len(array)
      BY <1>2 DEF OpenDevice, DeviceInv, DevicesTyped
    <3>2. array[ix] \in {0} \cup NodeIds
      BY <3>1
    <3>3. QED
      BY <3>2, OwnersDiffer DEF Broker
  <2>2. PICK st : Opens(array[ix], st)
    BY <1>2 DEF OpenDevice, Open, Opens, Node
  <2>3. owner'[f] = owner[f] \/ owner'[f] = array[ix]
    BY <1>1, <2>2
    DEF Opens, USBDevice_Open, SerialDevice_Open, OpenLine, OpenBus, Lowest, UnusedFDs
  <2>4. QED
    BY <2>1, <2>3
<1>3. ASSUME NEW i, NEW fds, CloseFDs(i, fds) PROVE owner'[f] = owner[f] \/ owner'[f] # Broker
  BY <1>1, <1>3 DEF CloseFDs, Unused, Broker
<1>4. CASE NoReader
  BY <1>3, <1>4 DEF NoReader, Close, devvars
<1>5. CASE FreeDevices
  BY <1>3, <1>5 DEF FreeDevices, FreeSlot, Free, devvars
<1>6. CASE Disconnect \/ ConnectionLost
  BY <1>1, <1>6 DEF Disconnect, ConnectionLost, Unused, Broker
<1>7. CASE DiscoverNext /\ ~OpenDevice /\ ~NoReader
  BY <1>7 DEF DiscoverNext, SetOptions, WriteFails, WriteProbe, Arrive, ReadHead, ReadRest,
    Reopen, MakesReader, devvars
<1>8. CASE FindDevices \/ ReadersFound \/ SelectTags \/ LoopsDone \/ FreeReaders
           \/ TagFound \/ LoopEnds \/ BrokerTakes \/ UNCHANGED vars
  BY <1>8 DEF FindDevices, DiscoverDevices, ReadersFound, SelectTags, LoopsDone, FreeReaders,
    TagFound, LoopEnds, BrokerTakes, vars, discvars, devvars
<1>9. QED
  BY <1>2, <1>4, <1>5, <1>6, <1>7, <1>8 DEF Next, Host, Discover

(* What a step leaves of an order that is right. *)
LEMMA OrderStays ==
  ASSUME MessageInv, UNCHANGED <<outbox, taken, seen>>, Connected' => Connected
  PROVE  BrokerGets'
<1>1. CASE Connected
  BY <1>1, ConcatPrefix DEF MessageInv, BrokerGets
<1>2. CASE ~Connected
  BY <1>2 DEF MessageInv, BrokerGets
<1>3. QED
  BY <1>1, <1>2

LEMMA ReadersStay ==
  ASSUME DeviceInv, MessageInv, Discover
  PROVE  readers' \in Seq(Reader) /\ pc' \notin {"connect", "loop"}
<1>1. CASE MakesReader
  <2>1. array[ix] \in NodeIds
    BY <1>1 DEF MakesReader, DeviceInv, DevicesTyped, PlaceInv, Probing
  <2>2. [node |-> array[ix], version |-> ver] \in Reader
    BY <1>1, <2>1 DEF MakesReader, Reader
  <2>3. QED
    BY <1>1, <2>2, AppendProperties DEF MakesReader, NextDevice, MessageInv, Node
<1>2. CASE ~MakesReader
  BY <1>2 DEF Discover, DiscoverNext, OpenDevice, SetOptions, WriteFails, WriteProbe, Arrive,
    ReadHead, ReadRest, Reopen, NoReader, NextDevice, MessageInv
<1>3. QED
  BY <1>1, <1>2

LEMMA NextKeepsMessages ==
  ASSUME DeviceInv, DeviceInv', MessageInv, [Next]_vars
  PROVE  MessageInv'
<1> USE DEF MessageInv
<1>1. ix \in Nat \ {0}
  BY DEF DeviceInv, DevicesTyped
<1>2. CASE Connect
  <2>1. UNCHANGED <<outbox, taken, seen, readers>> /\ outbox = <<>> /\ taken = <<>> /\ seen = <<>>
        /\ pc' \notin {"connect", "loop"}
    BY <1>2 DEF Connect, busvars, probevars, Jump
  <2>2. BrokerGets'
    <3>1. <<>> \o <<>> = <<>> /\ <<>> = SubSeq(<<>>, 1, 0) /\ Len(<<>>) = 0
      BY SubSeqEmpty
    <3>2. QED
      BY <2>1, <3>1 DEF BrokerGets
  <2>3. QED
    BY <2>1, <2>2
<1>3. CASE TagFound
  <2> DEFINE e == [topic |-> topic, tag |-> Len(seen) + 1]
  <2>1. /\ seen' = Append(seen, e) /\ outbox' = IF Connected THEN Append(outbox, e) ELSE outbox
        /\ e \in Tag /\ UNCHANGED <<taken, readers, pc, ix, topic>> /\ Connected' = Connected
    <3>1. readers[ix] \in Reader /\ topic = readers[ix].node /\ topic \in NodeIds
      <4>1. readers \in Seq(Reader) /\ ix \in DOMAIN readers /\ topic = Rid(readers[ix])
            /\ readers[ix].version # -1
        BY <1>3 DEF TagFound
      <4>2. readers[ix] \in Reader
        BY <4>1
      <4>3. QED
        BY <4>1, <4>2 DEF Rid, Reader
    <3>2. Len(seen) \in Nat
      BY LenProperties
    <3>3. QED
      BY <1>3, <3>1, <3>2 DEF TagFound, Tag, Connected, probevars, devvars
  <2>2. outbox' \in Seq(Tag) /\ seen' \in Seq(Tag)
    BY <2>1, AppendProperties
  <2>3. BrokerGets'
    <3>1. CASE Connected
      BY SMTT(30), <2>1, <3>1, AppendMoves DEF BrokerGets
    <3>2. CASE ~Connected
      <4>1. Len(taken) \in 0..Len(seen) /\ Len(seen') = Len(seen) + 1 /\ Len(seen) \in Nat
        BY <2>1, <3>2, LenProperties, AppendProperties DEF BrokerGets
      <4>2. SubSeq(seen', 1, Len(taken)) = SubSeq(seen, 1, Len(taken))
        BY <2>1, <4>1, PrefixOfAppend
      <4>3. QED
        BY <2>1, <3>2, <4>1, <4>2 DEF BrokerGets
    <3>3. QED
      BY <3>1, <3>2
  <2>4. QED
    BY <1>3, <2>1, <2>2, <2>3 DEF TagFound
<1>4. CASE BrokerTakes
  <2>1. /\ taken' = Append(taken, Head(outbox)) /\ outbox' = Tail(outbox) /\ outbox # <<>>
        /\ UNCHANGED <<seen, readers, pc, ix, topic>> /\ Connected /\ Connected'
    BY <1>4 DEF BrokerTakes, discvars, devvars, probevars, Connected
  <2>2. taken' \in Seq(Tag) /\ outbox' \in Seq(Tag)
    BY <2>1, HeadTailProperties, AppendProperties
  <2>3. taken' \o outbox' = seen'
    BY <2>1, HeadMoves DEF BrokerGets
  <2>4. QED
    BY <2>1, <2>2, <2>3 DEF BrokerGets
<1>5. CASE ConnectionLost
  <2>1. /\ UNCHANGED <<taken, seen, readers, pc, ix, topic>> /\ outbox' = <<>>
        /\ Connected /\ ~Connected'
    BY <1>5 DEF ConnectionLost, Connected, probevars, Unused, Broker
  <2>2. Len(taken) <= Len(seen) /\ taken = SubSeq(seen, 1, Len(taken))
    BY <2>1, ConcatPrefix DEF BrokerGets
  <2>3. QED
    BY <2>1, <2>2, EmptySeq DEF BrokerGets
<1>6. CASE SelectTags
  <2>1. UNCHANGED <<outbox, taken, seen, readers, ix>> /\ pc' = "loop"
        /\ ix \in DOMAIN readers /\ topic' = Rid(readers[ix])
    BY <1>1, <1>6, LenProperties DEF SelectTags, TopicOf, probevars
  <2>2. BrokerGets'
    BY <1>6, <2>1, NothingConnects, OrderStays DEF SelectTags, Connect
  <2>3. QED
    BY <2>1, <2>2 DEF Rid
<1>7. ASSUME ~Connect, UNCHANGED <<outbox, taken, seen>>, readers' \in Seq(Reader),
             pc' \notin {"connect", "loop"}
      PROVE  MessageInv'
  BY <1>7, NothingConnects, OrderStays
<1>8. CASE FindDevices \/ ReadersFound \/ LoopsDone \/ FreeDevices \/ FreeReaders \/ Disconnect
           \/ LoopEnds
  <2>1. pc # "connect" /\ pc' \notin {"connect", "loop"} /\ UNCHANGED <<outbox, taken, seen>>
    BY <1>8 DEF FindDevices, ReadersFound, LoopsDone, FreeDevices, FreeReaders, Disconnect,
      LoopEnds, Jump, busvars
  <2>2. readers' = readers \/ readers' = <<>>
    BY <1>8 DEF FindDevices, ReadersFound, LoopsDone, FreeDevices, FreeReaders, Disconnect,
      LoopEnds, probevars
  <2>3. QED
    BY <1>7, <2>1, <2>2, EmptySeq DEF Connect
<1>9. CASE Discover
  <2>1. pc # "connect" /\ UNCHANGED <<outbox, taken, seen>>
    BY <1>9 DEF Discover, DiscoverNext, OpenDevice, SetOptions, WriteFails, WriteProbe, Arrive,
      ReadHead, ReadRest, Reopen, MakesReader, NoReader, busvars
  <2>2. QED
    BY <1>7, <1>9, <2>1, ReadersStay DEF Connect
<1>10. CASE UNCHANGED vars
  BY <1>10 DEF vars, discvars, devvars, probevars, busvars, BrokerGets, Connected, Rid
<1>11. QED
  BY <1>2, <1>3, <1>4, <1>5, <1>6, <1>8, <1>9, <1>10 DEF Next, Host

LEMMA InitMessages == Init => MessageInv
<1>1. <<>> \o <<>> = <<>> /\ <<>> = SubSeq(<<>>, 1, 0) /\ Len(<<>>) = 0
  BY SubSeqEmpty
<1>2. QED
  BY <1>1, EmptySeq DEF Init, DiscoveryInit, MessageInv, BrokerGets

(* The broker takes the tags in the order the readers saw them, each at    *)
(* most once and under the topic of its reader (main.cpp:49, 64), and none *)
(* is missing while the connection stands, however many readers and tags.  *)
THEOREM BrokerGetsTags == Spec => []BrokerGets
<1>1. Init => MessageInv
  BY InitMessages
<1>2. DeviceInv /\ DeviceInv' /\ MessageInv /\ [Next]_vars => MessageInv'
  BY NextKeepsMessages
<1>3. MessageInv => BrokerGets
  BY DEF MessageInv
<1>4. QED
  BY <1>1, <1>2, <1>3, DevicesAgree, PTL DEF Spec

-----------------------------------------------------------------------------
(* Types.  How far the program gets in an array or in the readers is what  *)
(* keeps ix in its range: there is at most one slot per node, and at most  *)
(* one reader per slot that was gone over.                                 *)

Finding == Probing \cup {"open"}

Counts ==
  /\ Len(array) <= Len(Nodes) /\ Len(readers) <= Len(array)
  /\ pc \in Finding => Len(readers) < ix /\ ix <= Len(array) + 1
  /\ pc \in Probing => ix <= Len(array)
  /\ pc = "loop" => ix <= Len(readers)
  /\ pc = "select" => ix <= Len(readers) + 1
  /\ pc = "free" => ix <= Len(array) + 1
  /\ pc \in {"connect", "devices", "disconnect", "exit"} => ix = 1
  /\ pc \in {"connect", "devices"} => array = <<>> /\ readers = <<>>

ProbeTyped ==
  /\ sits \in [NodeIds -> Sitter]
  /\ baud \in 1..Bauds /\ tries \in 1..2
  /\ ver \in {-1, 0, 2, 3} /\ more \in 0..60
  /\ line \in Octets /\ coming \in Octets
  /\ trouble \subseteq NodeIds

MisuseTyped == \A m \in misuse : m.what \in {"touch", "close"} /\ m.node \in NodeIds

TagsTyped == topic \in {0} \cup NodeIds /\ {outbox, taken, seen} \subseteq Seq(Message)

BridgeTyped == ProbeTyped /\ MisuseTyped /\ TagsTyped /\ Counts

-----------------------------------------------------------------------------
(* What discovery finds.  While nothing goes wrong with a node the probe   *)
(* reads a whole answer of what sits there, and its verdict is right.      *)

Expected(kind) ==
  CASE kind = "v2" -> 2 [] kind = "v3" -> 3 [] kind = "boot" -> -1 [] OTHER -> 0

Sound(i) == VersionOf(sits[i].kind) # {}

(* What is left of an answer once its first three octets were read: v is   *)
(* the version they stand for, n how many octets the probe still wants.    *)
Remains(kind, v, n, s) ==
  \/ kind = "v2" /\ v = 2 /\ Len(s) = n
  \/ kind = "v3" /\ v = 3 /\ Len(s) = n /\ s[1] \in {128, 144}
  \/ kind = "echo" /\ v = 3 /\ s = <<>>

ProbeRight ==
  /\ ~sits[Node].looping
  /\ pc \in {"settings", "write"} => line = <<>> /\ coming = <<>>
  /\ pc = "head" => \E reply \in Replies(Node) :
       (line = <<>> /\ coming = reply) \/ (line = reply /\ coming = <<>>)
  /\ pc = "rest" => /\ coming = <<>> /\ Hears(Node, baud)
                    /\ more > 0 /\ Remains(sits[Node].kind, ver, more, line)
  /\ pc = "create" => /\ line = <<>> /\ coming = <<>>
                      /\ ver = IF Hears(Node, baud) THEN Expected(sits[Node].kind) ELSE 0
  /\ Nodes[Node] = "tty" /\ Sound(Node) => baud <= sits[Node].baud

(* The device of a reader stays open. *)
Held(i) ==
  /\ Nodes[i] # "bus"
  /\ Nodes[i] = "usb" => device[i].readFD = 1
  /\ Nodes[i] = "tty" => device[i].readFD > 0

Found(i) == \E k \in DOMAIN readers : readers[k].node = i

(* Discovery has gone over the slot of the device. *)
Behind(i) == \E l \in DOMAIN array : array[l] = i /\ (pc \in Finding => l < ix)

Settled(i) == i \in trouble \/ ~Sound(i) \/ Found(i)

VersionsRight ==
  \A k \in DOMAIN readers :
    LET r == readers[k] IN r.node \notin trouble => r.version \in VersionOf(sits[r.node].kind)

FoundInv ==
  /\ VersionsRight
  /\ pc \in Probing => Held(Node) /\ (Node \notin trouble => ProbeRight)
  /\ pc \in Finding \cup {"select", "loop"} => \A i \in NodeIds :
       /\ Found(i) => Held(i) /\ Behind(i)
       /\ Behind(i) => Settled(i)

-----------------------------------------------------------------------------
(* Octets *)

LEMMA OctetsIn ==
  ASSUME NEW s \in Octets, NEW m \in Nat \ {0}, NEW n \in Int, n <= Len(s)
  PROVE  Len(s) \in Nat /\ \A i \in m..n : s[i] \in 0..255
<1>1. Len(s) \in Nat /\ s \in [1..Len(s) -> 0..255]
  BY ZenonT(40), LenProperties DEF Octets
<1>2. \A i \in m..n : i \in 1..Len(s)
  BY <1>1
<1>3. QED
  BY <1>1, <1>2

LEMMA PiecesOfOctets ==
  ASSUME NEW s \in Octets, NEW m \in 1..Len(s) + 1, NEW n \in 0..Len(s)
  PROVE  SubSeq(s, m, n) \in Octets
<1>1. Len(s) \in Nat
  BY LenProperties DEF Octets
<1>2. \A i \in m..n : s[i] \in 0..255
  <2>1. m \in Nat \ {0} /\ n \in Int /\ n <= Len(s)
    BY <1>1
  <2>2. QED
    BY <2>1, OctetsIn
<1>3. QED
  BY <1>1, <1>2, SubSeqProperties DEF Octets

LEMMA GotOctets ==
  ASSUME line \in Octets, NEW n \in Nat
  PROVE  /\ Got(n) \in Octets /\ Len(Got(n)) \in 0..Len(line)
         /\ SubSeq(line, Len(Got(n)) + 1, Len(line)) \in Octets
<1>1. Len(line) \in Nat
  BY LenProperties DEF Octets
<1>2. CASE Len(line) < n
  <2>1. Got(n) = line
    BY <1>2 DEF Got
  <2>2. QED
    BY <1>1, <2>1, PiecesOfOctets
<1>3. CASE ~(Len(line) < n)
  <2>1. Got(n) = SubSeq(line, 1, n) /\ n \in 0..Len(line)
    BY <1>1, <1>3 DEF Got
  <2>2. Got(n) \in Octets
    BY <1>1, <2>1, PiecesOfOctets
  <2>3. Len(Got(n)) = n
    <3>1. \A i \in 1..n : line[i] \in 0..255
      <4>1. 1 \in Nat \ {0} /\ n \in Int /\ n <= Len(line)
        BY <1>1, <2>1
      <4>2. QED
        BY <4>1, OctetsIn
    <3>2. Len(SubSeq(line, 1, n)) = IF 1 <= n THEN n - 1 + 1 ELSE 0
      <4>1. 1 \in Int /\ n \in Int
        OBVIOUS
      <4>2. QED
        BY <3>1, <4>1, SubSeqProperties
    <3>3. n - 1 + 1 = n /\ (1 <= n \/ n = 0)
      OBVIOUS
    <3>4. QED
      BY <2>1, <3>2, <3>3
  <2>4. n \in 0..Len(line) /\ n + 1 \in 1..Len(line) + 1 /\ Len(line) \in 0..Len(line)
    BY <1>1, <2>1
  <2>5. QED
    BY <2>2, <2>3, <2>4, PiecesOfOctets
<1>4. QED
  BY <1>2, <1>3

LEMMA VerdictTyped ==
  ASSUME NEW b \in Octets
  PROVE  Verdict(b).ver \in {-1, 0, 2, 3} /\ Verdict(b).more \in 0..60
  BY DEF Verdict

LEMMA AnswersTyped ==
  ASSUME NEW kind
  PROVE  Answers(kind) \subseteq Octets
<1>1. CASE kind = "v2"
  <2>1. <<2, 1, 130>> \in Octets /\ <<2, 1, 129>> \in Octets
    BY DEF Octets
  <2>2. <<2, 4, 136, 0, 0, 0>> \in Octets /\ <<2, 3, 136, 0, 0>> \in Octets
    BY DEF Octets
  <2>3. QED
    BY <1>1, <2>1, <2>2 DEF Answers
<1>2. CASE kind = "v3"
  <2>1. <<2, 0, 4, 128, 0, 0, 255>> \in Octets /\ <<2, 0, 4, 144, 0, 0, 255>> \in Octets
    BY DEF Octets
  <2>2. QED
    BY <1>2, <2>1 DEF Answers
<1>3. CASE kind = "boot"
  <2>1. <<0, 255>> \in Octets /\ <<0, 3, 0>> \in Octets
    BY DEF Octets
  <2>2. QED
    BY <1>3, <2>1 DEF Answers
<1>4. CASE kind = "echo"
  <2>1. <<2, 0, 1>> \in Octets
    BY DEF Octets
  <2>2. QED
    BY <1>4, <2>1 DEF Answers
<1>5. CASE kind \notin {"v2", "v3", "boot", "echo"}
  <2>1. <<>> \in Octets
    BY EmptySeq DEF Octets
  <2>2. QED
    BY <1>5, <2>1 DEF Answers
<1>6. QED
  BY <1>1, <1>2, <1>3, <1>4, <1>5

LEMMA FramesTyped == TagFrame \in Octets /\ LoopOff \in Octets /\ <<>> \in Octets
  BY EmptySeq DEF TagFrame, LoopOff, Octets

(* The first three octets of an answer, or all of a shorter one.           *)
Front(s) == IF Len(s) < 3 THEN s ELSE SubSeq(s, 1, 3)
Rest(s)  == SubSeq(s, Len(Front(s)) + 1, Len(s))

Judges(kind, s, b, r) ==
  /\ Verdict(b).more = 0 => Verdict(b).ver = Expected(kind) /\ r = <<>>
  /\ Verdict(b).more > 0 => Remains(kind, Verdict(b).ver, Verdict(b).more, r)

LEMMA Split3 ==
  ASSUME NEW s \in Octets, Len(s) >= 3
  PROVE  /\ Front(s) = <<s[1], s[2], s[3]>>
         /\ Rest(s) \in Octets /\ Len(Rest(s)) = Len(s) - 3
         /\ \A i \in 1..Len(s) - 3 : Rest(s)[i] = s[i + 3]
<1>1. s \in Seq(0..255) /\ Len(s) \in Nat
  BY LenProperties DEF Octets
<1>2. Front(s) = SubSeq(s, 1, 3)
  BY DEF Front
<1>3. /\ Front(s) \in Seq(0..255) /\ Len(Front(s)) = 3
      /\ \A i \in 1..3 : Front(s)[i] = s[i]
  <2>1. \A i \in 1..3 : s[i] \in 0..255
    <3>1. 1 \in Nat \ {0} /\ 3 \in Int /\ 3 <= Len(s)
      BY <1>1
    <3>2. QED
      BY <3>1, OctetsIn
  <2>2. QED
    BY <1>2, <2>1, SubSeqProperties
<1>4. Front(s) = <<s[1], s[2], s[3]>>
  BY <1>3
<1>5. Rest(s) = SubSeq(s, 4, Len(s))
  BY <1>3 DEF Rest
<1>6. \A i \in 4..Len(s) : s[i] \in 0..255
  <2>1. 4 \in Nat \ {0} /\ Len(s) \in Int /\ Len(s) <= Len(s)
    BY <1>1
  <2>2. QED
    BY <2>1, OctetsIn
<1>7. QED
  BY <1>1, <1>4, <1>5, <1>6, SubSeqProperties DEF Octets

LEMMA Short ==
  ASSUME NEW s \in Octets, Len(s) < 3
  PROVE  Front(s) = s /\ Rest(s) = <<>>
<1>1. Front(s) = s /\ Len(s) \in Nat
  BY LenProperties DEF Front, Octets
<1>2. QED
  BY <1>1, SubSeqEmpty DEF Rest

(* What the probe makes of each answer is right. *)
LEMMA VerdictRight ==
  ASSUME NEW kind \in Kinds, NEW s \in Answers(kind)
  PROVE  Judges(kind, s, Front(s), Rest(s))
<1>0. s \in Octets
  BY AnswersTyped
<1>1. ASSUME NEW t \in Octets, Len(t) = 3 PROVE Front(t) = t /\ Rest(t) = <<>>
  <2>1. Front(t) = <<t[1], t[2], t[3]>> /\ Rest(t) \in Octets /\ Len(Rest(t)) = 0
    <3>1. Len(t) >= 3 /\ Len(t) - 3 = 0
      BY <1>1
    <3>2. QED
      BY <3>1, Split3
  <2>2. Front(t) = t
    <3>1. Front(t) = SubSeq(t, 1, Len(t))
      BY <1>1 DEF Front
    <3>2. QED
      BY <3>1, SubSeqFull DEF Octets
  <2>3. QED
    BY <2>1, <2>2, EmptySeq DEF Octets
<1>2. CASE kind = "v2" /\ s \in {<<2, 1, 130>>, <<2, 1, 129>>}
  <2>1. Len(s) = 3
    BY <1>2
  <2>2. Front(s) = s /\ Rest(s) = <<>>
    BY <1>0, <1>1, <2>1
  <2>3. Verdict(s).ver = 2 /\ Verdict(s).more = 0
    BY <1>2 DEF Verdict, Bootloader
  <2>4. QED
    BY <1>2, <2>2, <2>3 DEF Judges, Expected
<1>3. CASE kind = "v2" /\ s = <<2, 4, 136, 0, 0, 0>>
  <2>1. Front(s) = <<2, 4, 136>> /\ Len(Rest(s)) = 3
    <3>1. Len(s) = 6 /\ s[1] = 2 /\ s[2] = 4 /\ s[3] = 136
      BY <1>3
    <3>2. Len(s) >= 3 /\ Len(s) - 3 = 3
      BY <3>1
    <3>3. /\ Front(s) = <<s[1], s[2], s[3]>> /\ Len(Rest(s)) = Len(s) - 3
          /\ \A i \in 1..Len(s) - 3 : Rest(s)[i] = s[i + 3]
      BY <1>0, <3>2, Split3
    <3>4. QED
      BY <3>1, <3>2, <3>3
  <2>2. Verdict(<<2, 4, 136>>).ver = 2 /\ Verdict(<<2, 4, 136>>).more = 3
    BY DEF Verdict, Bootloader
  <2>3. QED
    <3>1. kind = "v2"
      BY <1>3
    <3>2. QED
      BY <2>1, <2>2, <3>1 DEF Judges, Remains
<1>4. CASE kind = "v2" /\ s = <<2, 3, 136, 0, 0>>
  <2>1. Front(s) = <<2, 3, 136>> /\ Len(Rest(s)) = 2
    <3>1. Len(s) = 5 /\ s[1] = 2 /\ s[2] = 3 /\ s[3] = 136
      BY <1>4
    <3>2. Len(s) >= 3 /\ Len(s) - 3 = 2
      BY <3>1
    <3>3. /\ Front(s) = <<s[1], s[2], s[3]>> /\ Len(Rest(s)) = Len(s) - 3
          /\ \A i \in 1..Len(s) - 3 : Rest(s)[i] = s[i + 3]
      BY <1>0, <3>2, Split3
    <3>4. QED
      BY <3>1, <3>2, <3>3
  <2>2. Verdict(<<2, 3, 136>>).ver = 2 /\ Verdict(<<2, 3, 136>>).more = 2
    BY DEF Verdict, Bootloader
  <2>3. QED
    <3>1. kind = "v2"
      BY <1>4
    <3>2. QED
      BY <2>1, <2>2, <3>1 DEF Judges, Remains
<1>5. CASE kind = "v3" /\ s \in {<<2, 0, 4, 128, 0, 0, 255>>, <<2, 0, 4, 144, 0, 0, 255>>}
  <2>1. Front(s) = <<2, 0, 4>> /\ Len(Rest(s)) = 4 /\ Rest(s)[1] \in {128, 144}
    <3>1. Len(s) = 7 /\ s[1] = 2 /\ s[2] = 0 /\ s[3] = 4 /\ s[4] \in {128, 144}
      BY <1>5
    <3>2. Len(s) >= 3 /\ Len(s) - 3 = 4 /\ 1 \in 1..4 /\ 1 + 3 = 4
      BY <3>1
    <3>3. /\ Front(s) = <<s[1], s[2], s[3]>> /\ Len(Rest(s)) = Len(s) - 3
          /\ \A i \in 1..Len(s) - 3 : Rest(s)[i] = s[i + 3]
      BY <1>0, <3>2, Split3
    <3>4. QED
      BY <3>1, <3>2, <3>3
  <2>2. Verdict(<<2, 0, 4>>).ver = 3 /\ Verdict(<<2, 0, 4>>).more = 4
    BY DEF Verdict, Bootloader
  <2>3. QED
    BY <1>5, <2>1, <2>2 DEF Judges, Remains
<1>6. CASE kind = "boot" /\ s = <<0, 255>>
  <2>1. Front(s) = s /\ Rest(s) = <<>>
    <3>1. Len(s) < 3
      BY <1>6
    <3>2. QED
      BY <1>0, <3>1, Short
  <2>2. Verdict(s).ver = -1 /\ Verdict(s).more = 0
    BY <1>6 DEF Verdict, Bootloader
  <2>3. QED
    BY <1>6, <2>1, <2>2 DEF Judges, Expected
<1>7. CASE kind = "boot" /\ s = <<0, 3, 0>>
  <2>1. Front(s) = s /\ Rest(s) = <<>>
    BY <1>0, <1>1, <1>7
  <2>2. Verdict(s).ver = -1 /\ Verdict(s).more = 0
    BY <1>7 DEF Verdict, Bootloader
  <2>3. QED
    BY <1>7, <2>1, <2>2 DEF Judges, Expected
<1>8. CASE kind = "echo" /\ s = <<2, 0, 1>>
  <2>1. Front(s) = s /\ Rest(s) = <<>>
    BY <1>0, <1>1, <1>8
  <2>2. Verdict(s).ver = 3 /\ Verdict(s).more = 1
    BY <1>8 DEF Verdict, Bootloader
  <2>3. QED
    BY <1>8, <2>1, <2>2 DEF Judges, Remains
<1>9. CASE kind = "silent" /\ s = <<>>
  <2>1. Front(s) = s /\ Rest(s) = <<>>
    BY <1>0, <1>9, Short
  <2>2. Verdict(s).ver = 0 /\ Verdict(s).more = 0
    BY <1>9 DEF Verdict, Bootloader
  <2>3. QED
    BY <1>9, <2>1, <2>2 DEF Judges, Expected
<1>10. QED
  BY <1>2, <1>3, <1>4, <1>5, <1>6, <1>7, <1>8, <1>9 DEF Answers, Kinds

LEMMA NothingSaid == Front(<<>>) = <<>> /\ Rest(<<>>) = <<>> /\ Verdict(<<>>) = [ver |-> 0, more |-> 0]
<1>1. <<>> \in Octets /\ Len(<<>>) = 0
  BY EmptySeq DEF Octets
<1>2. QED
  BY <1>1, Short DEF Verdict, Bootloader

-----------------------------------------------------------------------------
(* Where the probe is, and what its steps leave in place *)

LEMMA ConcatOctets ==
  ASSUME NEW s \in Octets, NEW t \in Octets
  PROVE  s \o t \in Octets
  BY ConcatProperties DEF Octets

LEMMA NodeHere ==
  ASSUME DeviceInv, pc \in Probing \/ (pc = "open" /\ ix <= Len(array))
  PROVE  Node \in NodeIds /\ Node # 0 /\ ix \in DOMAIN array /\ ix \in 1..Len(array)
         /\ device[Node].state = "made"
<1>1. array \in Seq({0} \cup NodeIds) /\ ix \in Nat \ {0} /\ Len(array) \in Nat
      /\ DOMAIN array = 1..Len(array)
  BY LenProperties DEF DeviceInv, DevicesTyped
<1>2. ix \in DOMAIN array
  BY <1>1 DEF DeviceInv, PlaceInv
<1>3. array[ix] # 0
  BY <1>2 DEF DeviceInv, PlaceInv
<1>4. QED
  BY <1>1, <1>2, <1>3 DEF DeviceInv, SlotInv, Node

(* A command that is heard ends the loop of what sits there, no more. *)
LEMMA LoopEnded ==
  ASSUME sits \in [NodeIds -> Sitter], NEW i \in NodeIds, LoopStops(i)
  PROVE  /\ sits' \in [NodeIds -> Sitter]
         /\ \A j \in NodeIds : sits'[j].kind = sits[j].kind /\ sits'[j].baud = sits[j].baud
         /\ \A j \in NodeIds : j # i => sits'[j] = sits[j]
         /\ sits'[i].looping => sits[i].looping
<1> DEFINE b == sits[i].looping /\ ~Hears(i, baud)
<1>1. b \in BOOLEAN
  OBVIOUS
<1>2. sits' = [sits EXCEPT ![i] = [sits[i] EXCEPT !.looping = b]]
  BY DEF LoopStops
<1>3. b => sits[i].looping
  OBVIOUS
<1> HIDE DEF b
<1>4. sits[i] \in Sitter
  OBVIOUS
<1>5. [sits[i] EXCEPT !.looping = b] \in Sitter
  BY <1>1, <1>4 DEF Sitter
<1>6. /\ sits'[i] = [sits[i] EXCEPT !.looping = b]
      /\ \A j \in NodeIds : j # i => sits'[j] = sits[j]
      /\ sits' \in [NodeIds -> Sitter]
  BY <1>2, <1>5
<1>7. /\ [sits[i] EXCEPT !.looping = b].kind = sits[i].kind
      /\ [sits[i] EXCEPT !.looping = b].baud = sits[i].baud
  BY <1>4 DEF Sitter
<1>8. [sits[i] EXCEPT !.looping = b].looping = b
  BY <1>4 DEF Sitter
<1>9. \A j \in NodeIds : sits'[j].kind = sits[j].kind /\ sits'[j].baud = sits[j].baud
  BY <1>6, <1>7
<1>10. sits'[i].looping => sits[i].looping
  BY <1>3, <1>6, <1>8
<1>11. QED
  BY <1>6, <1>9, <1>10

LEMMA RepliesTyped ==
  ASSUME NEW i
  PROVE  Replies(i) \subseteq Octets
  BY AnswersTyped, FramesTyped DEF Replies


LEMMA TroubleGrows ==
  ASSUME Node \in NodeIds, trouble \subseteq NodeIds, NEW b, TroubleIf(b)
  PROVE  trouble' \subseteq NodeIds /\ trouble \subseteq trouble' /\ trouble' \subseteq trouble \cup {Node}
  BY DEF TroubleIf

LEMMA ReadTyped ==
  ASSUME ProbeTyped, Node \in NodeIds, NEW n \in Nat, Read(n)
  PROVE  line' \in Octets /\ trouble' \subseteq NodeIds
<1>1. line' \in Octets
  BY GotOctets DEF Read, ProbeTyped
<1>2. trouble' \subseteq NodeIds
  BY TroubleGrows DEF Read, ProbeTyped
<1>3. QED
  BY <1>1, <1>2

(* Every step leaves the variables of the probe in their ranges. *)
LEMMA ProbeStaysTyped ==
  ASSUME DeviceInv, ProbeTyped, [Next]_vars
  PROVE  ProbeTyped'
<1> USE DEF ProbeTyped
<1>1. Bauds \in Nat \ {0} /\ 1 \in 1..Bauds
  BY DiscoveryAssumption
<1>2. pc \in Probing \/ (pc = "open" /\ ix <= Len(array)) => Node \in NodeIds
  BY NodeHere
<1>3. CASE OpenDevice
  <2>1. Node \in NodeIds
    BY <1>2, <1>3 DEF OpenDevice
  <2>2. trouble' \subseteq NodeIds
    BY <1>3, <2>1, TroubleGrows DEF OpenDevice
  <2>3. line' \in Octets /\ coming' \in Octets
    BY <1>3, FramesTyped DEF OpenDevice
  <2>4. QED
    BY <1>1, <1>3, <2>2, <2>3 DEF OpenDevice
<1>4. CASE SetOptions
  BY <1>4, FramesTyped DEF SetOptions
<1>5. CASE WriteFails
  BY <1>2, <1>5, TroubleGrows DEF WriteFails, Probing
<1>6. CASE WriteProbe
  <2>1. Node \in NodeIds
    BY <1>2, <1>6 DEF WriteProbe, Probing
  <2>2. sits' \in [NodeIds -> Sitter]
    BY <1>6, <2>1, LoopEnded DEF WriteProbe
  <2>3. coming' \in Octets
    <3>1. coming' = coming \/ \E reply \in Replies(Node) : coming' = coming \o reply
      BY <1>6 DEF WriteProbe
    <3>2. QED
      BY <3>1, RepliesTyped, ConcatOctets
  <2>4. trouble' \subseteq NodeIds
    BY <1>6, <2>1, TroubleGrows DEF WriteProbe
  <2>5. QED
    BY <1>6, <2>2, <2>3, <2>4 DEF WriteProbe
<1>7. CASE Arrive
  <2>1. PICK n \in 1..Len(coming) :
          /\ line' = line \o SubSeq(coming, 1, n)
          /\ coming' = SubSeq(coming, n + 1, Len(coming))
          /\ TroubleIf(n < Len(coming))
    BY <1>7 DEF Arrive
  <2>2. Len(coming) \in Nat
    BY LenProperties DEF Octets
  <2>3. 1 \in 1..Len(coming) + 1 /\ n \in 0..Len(coming) /\ n + 1 \in 1..Len(coming) + 1
        /\ Len(coming) \in 0..Len(coming)
    BY <2>2
  <2>4. SubSeq(coming, 1, n) \in Octets /\ SubSeq(coming, n + 1, Len(coming)) \in Octets
    BY <2>3, PiecesOfOctets
  <2>5. line' \in Octets /\ coming' \in Octets
    BY <2>1, <2>4, ConcatOctets
  <2>6. trouble' \subseteq NodeIds
    BY <1>2, <1>7, <2>1, TroubleGrows DEF Arrive, Probing
  <2>7. QED
    BY <1>7, <2>5, <2>6 DEF Arrive
<1>8. CASE ReadHead
  <2>1. line' \in Octets /\ trouble' \subseteq NodeIds
    BY <1>2, <1>8, ReadTyped DEF ReadHead, Probing
  <2>2. ver' \in {-1, 0, 2, 3} /\ more' \in 0..60
    BY <1>8, GotOctets, VerdictTyped DEF ReadHead
  <2>3. QED
    BY <1>8, <2>1, <2>2 DEF ReadHead
<1>9. CASE ReadRest
  <2>1. line' \in Octets /\ trouble' \subseteq NodeIds
    BY <1>2, <1>9, ReadTyped DEF ReadRest, Probing
  <2>2. ver' \in {-1, 0, 2, 3} /\ more' \in 0..60
    BY <1>9 DEF ReadRest
  <2>3. QED
    BY <1>9, <2>1, <2>2 DEF ReadRest
<1>10. CASE Reopen
  BY <1>10, FramesTyped DEF Reopen
<1>11. CASE MakesReader
  BY <1>11 DEF MakesReader
<1>12. CASE NoReader
  <2>1. trouble' \subseteq NodeIds
    BY <1>2, <1>12, TroubleGrows DEF NoReader, Probing
  <2>2. line' \in Octets /\ coming' \in Octets
    BY <1>12, FramesTyped DEF NoReader
  <2>3. baud' \in 1..Bauds
    BY <1>1, <1>12 DEF NoReader, LastBaud
  <2>4. QED
    BY <1>12, <2>1, <2>2, <2>3 DEF NoReader
<1>13. CASE ~Discover
  <2>1. UNCHANGED <<sits, baud, tries, ver, more, line, coming, trouble>>
    BY <1>13 DEF Next, Host, Connect, FindDevices, ReadersFound, SelectTags, LoopsDone,
      FreeDevices, FreeReaders, Disconnect, TagFound, LoopEnds, BrokerTakes, ConnectionLost,
      vars, discvars, probevars
  <2>2. QED
    BY <2>1
<1>14. QED
  BY <1>3, <1>4, <1>5, <1>6, <1>7, <1>8, <1>9, <1>10, <1>11, <1>12, <1>13
  DEF Discover, DiscoverNext

LEMMA MisuseStaysTyped ==
  ASSUME DeviceInv, MisuseTyped, [Next]_vars
  PROVE  MisuseTyped'
<1> USE DEF MisuseTyped
<1>1. ASSUME NEW i \in NodeIds, misuse' \subseteq misuse \cup Touched(i)
      PROVE  MisuseTyped'
  BY <1>1 DEF Touched, Misuse
<1>2. ASSUME NEW i \in NodeIds, NEW fds, CloseFDs(i, fds)
      PROVE  MisuseTyped'
  BY <1>2 DEF CloseFDs, Touched, Misuse
<1>3. CASE OpenDevice
  <2>1. Node \in NodeIds /\ misuse' = misuse \cup Touched(Node)
    BY <1>3, NodeHere DEF OpenDevice, Open
  <2>2. QED
    BY <1>1, <2>1
<1>4. CASE NoReader
  <2>1. Node \in NodeIds
    BY <1>4, NodeHere DEF NoReader, Probing
  <2>2. misuse' = misuse \/ CloseFDs(Node, FDsOf(Node))
    BY <1>4 DEF NoReader, Close, devvars
  <2>3. QED
    BY <1>2, <2>1, <2>2
<1>5. CASE FreeDevices
  <2>1. misuse' = misuse \/ ix \in DOMAIN array
    BY <1>5, LenProperties DEF FreeDevices, devvars, DeviceInv, DevicesTyped
  <2>2. CASE ix \in DOMAIN array
    <3>1. array[ix] = 0 \/ array[ix] \in NodeIds
      BY <2>2 DEF DeviceInv, DevicesTyped
    <3>2. \/ misuse' = misuse
          \/ array[ix] # 0 /\ misuse' = misuse \cup Touched(array[ix])
          \/ array[ix] # 0 /\ CloseFDs(array[ix], FDsOf(array[ix]))
      BY <1>5 DEF FreeDevices, FreeSlot, Free, devvars
    <3>3. QED
      BY <1>1, <1>2, <3>1, <3>2
  <2>3. QED
    BY <2>1, <2>2
<1>6. CASE ~OpenDevice /\ ~NoReader /\ ~FreeDevices
  <2>1. misuse' = misuse
    BY <1>6 DEF Next, Host, Discover, DiscoverNext, Connect, FindDevices, DiscoverDevices,
      ReadersFound, SetOptions, WriteFails, WriteProbe, Arrive, ReadHead, ReadRest, Reopen,
      MakesReader, SelectTags, LoopsDone, FreeReaders, Disconnect, TagFound, LoopEnds,
      BrokerTakes, ConnectionLost, vars, discvars, devvars
  <2>2. QED
    BY <2>1
<1>7. QED
  BY <1>3, <1>4, <1>5, <1>6

LEMMA TagsStayTyped ==
  ASSUME DeviceInv, MessageInv, TagsTyped, [Next]_vars
  PROVE  TagsTyped'
<1> USE DEF TagsTyped
<1>1. CASE SelectTags
  <2>1. ix \in DOMAIN readers
    <3>1. ix \in Nat \ {0} /\ Len(readers) \in Nat /\ DOMAIN readers = 1..Len(readers)
      BY LenProperties DEF DeviceInv, DevicesTyped, MessageInv
    <3>2. QED
      BY <1>1, <3>1 DEF SelectTags
  <2>2. readers[ix] \in Reader
    BY <2>1 DEF MessageInv
  <2>3. topic' \in {0} \cup NodeIds
    BY <1>1, <2>2 DEF SelectTags, TopicOf, Rid, Reader
  <2>4. QED
    BY <1>1, <2>3 DEF SelectTags
<1>2. CASE TagFound
  <2>1. ix \in DOMAIN readers /\ readers[ix] \in Reader
    BY <1>2 DEF TagFound, MessageInv
  <2>2. Len(seen) + 1 \in 1..MaxTags
    BY <1>2, BridgeAssumption, LenProperties DEF TagFound
  <2>3. /\ [topic |-> readers[ix].node, tag |-> Len(seen) + 1] \in Message
        /\ [topic |-> topic, tag |-> Len(seen) + 1] \in Message
    BY <2>1, <2>2 DEF Message, Reader
  <2>4. seen' \in Seq(Message) /\ outbox' \in Seq(Message)
    BY <1>2, <2>3, AppendProperties DEF TagFound
  <2>5. QED
    BY <1>2, <2>4 DEF TagFound
<1>3. CASE BrokerTakes
  <2>1. Head(outbox) \in Message /\ Tail(outbox) \in Seq(Message)
    BY <1>3, HeadTailProperties DEF BrokerTakes
  <2>2. taken' \in Seq(Message)
    BY <1>3, <2>1, AppendProperties DEF BrokerTakes
  <2>3. QED
    BY <1>3, <2>1, <2>2 DEF BrokerTakes
<1>4. CASE ConnectionLost
  BY <1>4, EmptySeq DEF ConnectionLost
<1>5. CASE ~SelectTags /\ ~TagFound /\ ~BrokerTakes /\ ~ConnectionLost
  <2>1. UNCHANGED <<topic, outbox, taken, seen>>
    BY <1>5 DEF Next, Host, Discover, Connect, FindDevices, ReadersFound, LoopsDone,
      FreeDevices, FreeReaders, Disconnect, LoopEnds, vars, busvars
  <2>2. QED
    BY <2>1
<1>6. QED
  BY <1>1, <1>2, <1>3, <1>4, <1>5

(* How far the program is. *)
LEMMA CountsStay ==
  ASSUME DeviceInv, MessageInv, Counts, [Next]_vars
  PROVE  Counts'
<1> USE DEF Counts
<1>1. /\ ix \in Nat \ {0} /\ Len(array) \in Nat /\ Len(readers) \in Nat /\ Len(Nodes) \in Nat
      /\ pc \in Places /\ DOMAIN array = 1..Len(array)
  BY LenProperties, DevicesAssumption DEF DeviceInv, DevicesTyped, MessageInv
<1>2. CASE Connect
  BY <1>1, <1>2 DEF Connect, Jump, probevars, Finding, Probing
<1>3. CASE FindDevices
  <2>1. pc = "devices" /\ pc' = (IF array' = <<>> THEN "free" ELSE "open") /\ ix' = 1
        /\ readers' = <<>>
    BY <1>3 DEF FindDevices, Jump, probevars
  <2>2. PICK n \in 0..Len(Nodes) : \E found \in [1..n -> NodeIds] : array' = found
    BY <1>3 DEF FindDevices, DiscoverDevices
  <2>3. array' \in Seq(NodeIds) /\ Len(array') = n /\ n \in Nat
    BY <1>1, <2>2
  <2>4. Len(readers') = 0
    BY <2>1, EmptySeq
  <2>5. QED
    BY <1>1, <2>1, <2>2, <2>3, <2>4 DEF Finding, Probing
<1>4. CASE ReadersFound
  BY <1>1, <1>4 DEF ReadersFound, Jump, devvars, probevars, Finding, Probing
<1>5. CASE OpenDevice
  <2>1. /\ pc = "open" /\ ix <= Len(array) /\ array' = array /\ readers' = readers
        /\ (pc' \in {"settings", "write"} /\ ix' = ix) \/ (pc' = "open" /\ ix' = ix + 1)
    BY <1>5 DEF OpenDevice, Open, NextDevice
  <2>2. QED
    BY <1>1, <2>1 DEF Finding, Probing
<1>6. CASE SetOptions \/ WriteFails \/ WriteProbe \/ Arrive \/ ReadHead \/ ReadRest \/ Reopen
  <2>1. pc \in Probing /\ pc' \in Probing /\ UNCHANGED <<array, ix, readers>>
    BY <1>6 DEF SetOptions, WriteFails, WriteProbe, Arrive, ReadHead, ReadRest, Reopen, Probing,
      devvars
  <2>2. QED
    BY <1>1, <2>1 DEF Finding, Probing
<1>7. CASE MakesReader
  <2>1. pc = "create" /\ pc' = "open" /\ ix' = ix + 1 /\ array' = array
        /\ Len(readers') = Len(readers) + 1
    <3>1. readers' = Append(readers, [node |-> Node, version |-> ver])
      BY <1>7 DEF MakesReader
    <3>2. Len(readers') = Len(readers) + 1
      <4>1. [node |-> Node, version |-> ver] \in Reader
        BY <1>7, NodeHere DEF MakesReader, Reader, Probing
      <4>2. QED
        BY <3>1, <4>1, AppendProperties DEF MessageInv
    <3>3. QED
      BY <1>7, <3>2 DEF MakesReader, NextDevice, devvars
  <2>2. QED
    BY <1>1, <2>1 DEF Finding, Probing
<1>8. CASE NoReader
  <2>1. /\ pc = "create" /\ array' = array /\ readers' = readers
        /\ (pc' = "settings" /\ ix' = ix) \/ (pc' = "open" /\ ix' = ix + 1)
    BY <1>8 DEF NoReader, NextDevice, Close, devvars
  <2>2. QED
    BY <1>1, <2>1 DEF Finding, Probing
<1>9. CASE SelectTags
  BY <1>1, <1>9 DEF SelectTags, devvars, probevars, Finding, Probing
<1>10. CASE LoopEnds
  BY <1>1, <1>10 DEF LoopEnds, devvars, probevars, Finding, Probing
<1>11. CASE LoopsDone
  BY <1>1, <1>11 DEF LoopsDone, Jump, devvars, probevars, Finding, Probing
<1>12. CASE FreeDevices
  <2>1. /\ pc = "free" /\ pc' = "free" /\ readers' = readers
        /\ (ix <= Len(array) /\ ix' = ix + 1) \/ ix' = 1
    BY <1>12 DEF FreeDevices, probevars
  <2>2. Len(array') = Len(array)
    BY <1>1, <1>12 DEF FreeDevices, FreeSlot, EmptySlot, devvars, DeviceInv, DevicesTyped
  <2>3. QED
    BY <1>1, <2>1, <2>2 DEF Finding, Probing
<1>13. CASE FreeReaders
  <2>1. pc = "free" /\ pc' = "disconnect" /\ ix' = 1 /\ array' = array /\ Len(readers') = 0
    BY <1>13, EmptySeq DEF FreeReaders, Jump, devvars
  <2>2. QED
    BY <1>1, <2>1 DEF Finding, Probing
<1>14. CASE Disconnect
  BY <1>1, <1>14 DEF Disconnect, Jump, probevars, Finding, Probing
<1>15. CASE TagFound \/ BrokerTakes \/ ConnectionLost \/ UNCHANGED vars
  <2>1. UNCHANGED <<array, pc, ix, readers>>
    BY <1>15 DEF TagFound, BrokerTakes, ConnectionLost, vars, discvars, devvars, probevars
  <2>2. QED
    BY <1>1, <2>1
<1>16. QED
  BY <1>2, <1>3, <1>4, <1>5, <1>6, <1>7, <1>8, <1>9, <1>10, <1>11, <1>12, <1>13, <1>14, <1>15
  DEF Next, Host, Discover, DiscoverNext

(* Devices, messages, and the probe with them. *)
BridgeInv == DeviceInv /\ MessageInv /\ BridgeTyped

LEMMA BridgeInvHolds == Spec => []BridgeInv
<1>1. Init => MessageInv
  BY InitMessages
<1>2. Init => BridgeTyped
  <2> SUFFICES ASSUME Init PROVE BridgeTyped
    OBVIOUS
  <2> USE DEF Init, DiscoveryInit, DevicesInit
  <2>1. ProbeTyped
    BY DiscoveryAssumption, FramesTyped DEF ProbeTyped
  <2>2. MisuseTyped
    BY DEF MisuseTyped
  <2>3. TagsTyped
    BY EmptySeq DEF TagsTyped
  <2>4. Counts
    <3>1. Len(array) = 0 /\ Len(readers) = 0 /\ Len(Nodes) \in Nat
      BY EmptySeq, LenProperties, DevicesAssumption
    <3>2. QED
      BY <3>1 DEF Counts, Finding, Probing
  <2>5. QED
    BY <2>1, <2>2, <2>3, <2>4 DEF BridgeTyped
<1>3. DeviceInv /\ DeviceInv' /\ MessageInv /\ BridgeTyped /\ [Next]_vars => MessageInv' /\ BridgeTyped'
  BY NextKeepsMessages, ProbeStaysTyped, MisuseStaysTyped, TagsStayTyped, CountsStay
  DEF BridgeTyped
<1>4. DeviceInv /\ MessageInv /\ BridgeTyped <=> BridgeInv
  BY DEF BridgeInv
<1>5. QED
  BY <1>1, <1>2, <1>3, <1>4, DevicesAgree, PTL DEF Spec

(* Every variable holds what the program can put there: the program stays  *)
(* inside its arrays, at most one reader for every device it found, and    *)
(* octets stay octets, whatever is plugged in.                             *)
THEOREM TypeCorrect == Spec => []TypeOK
<1>1. ASSUME BridgeInv PROVE TypeOK
  <2> USE <1>1 DEF BridgeInv, BridgeTyped
  <2>1. DevicesTypeOK
    BY DEF DevicesTypeOK, DeviceInv, DevicesTyped, MisuseTyped
  <2>2. DiscoveryTypeOK
    BY <2>1 DEF DiscoveryTypeOK, ProbeTyped, MessageInv
  <2>3. ix \in 1..Len(Nodes) + 1
    <3>1. /\ ix \in Nat \ {0} /\ Len(array) \in Nat /\ Len(readers) \in Nat /\ Len(Nodes) \in Nat
          /\ pc \in Places
      BY LenProperties, DevicesAssumption DEF DeviceInv, DevicesTyped, MessageInv
    <3>2. QED
      BY <3>1 DEF Counts, Places, Finding, Probing
  <2>4. factory \in 1..Len(Factories) + 1 /\ pc \in Places
    BY DEF DeviceInv, DevicesTyped, Factories
  <2>5. QED
    BY <2>2, <2>3, <2>4 DEF TypeOK, TagsTyped, Places, Probing
<1>2. QED
  BY <1>1, BridgeInvHolds, PTL

-----------------------------------------------------------------------------
(* What was found stays found *)

KindsStay == \A j \in NodeIds : sits'[j].kind = sits[j].kind

LEMMA ReaderAt ==
  ASSUME MessageInv, NEW k \in DOMAIN readers
  PROVE  readers[k] \in Reader /\ readers[k].node \in NodeIds
<1>1. readers[k] \in Reader
  BY DEF MessageInv
<1>2. QED
  BY <1>1 DEF Reader

LEMMA VersionsStay ==
  ASSUME MessageInv, VersionsRight, readers' = readers, trouble \subseteq trouble', KindsStay
  PROVE  VersionsRight'
  BY ReaderAt DEF VersionsRight, KindsStay

LEMMA SettledStays ==
  ASSUME readers' = readers, trouble \subseteq trouble', KindsStay, NEW i \in NodeIds, Settled(i)
  PROVE  Settled(i)'
  BY DEF Settled, Sound, Found, KindsStay

(* While one device is probed, what is behind it stays there. *)
LEMMA ProbingKeepsFound ==
  ASSUME BridgeInv, FoundInv, pc \in Probing, pc' \in Probing,
         UNCHANGED <<devvars, ix, readers>>, trouble \subseteq trouble', KindsStay,
         Node \notin trouble' /\ ProbeRight => ProbeRight'
  PROVE  FoundInv'
<1> USE DEF devvars
<1>1. VersionsRight'
  BY VersionsStay DEF FoundInv, BridgeInv
<1>2. Held(Node)' /\ (Node' \notin trouble' => ProbeRight')
  BY DEF FoundInv, Held, Node
<1>3. ASSUME NEW i \in NodeIds
      PROVE  (Found(i)' => Held(i)' /\ Behind(i)') /\ (Behind(i)' => Settled(i)')
  <2>1. Found(i)' = Found(i) /\ Held(i)' = Held(i) /\ Behind(i)' = Behind(i)
    BY DEF Found, Held, Behind, Finding
  <2>2. (Found(i) => Held(i) /\ Behind(i)) /\ (Behind(i) => Settled(i))
    BY DEF FoundInv, Finding
  <2>3. QED
    BY <2>1, <2>2, SettledStays
<1>4. QED
  BY <1>1, <1>2, <1>3 DEF FoundInv

(* A step that goes on from one device to the next must settle it. *)
LEMMA NextKeepsFound ==
  ASSUME BridgeInv, FoundInv, pc \in Finding, ix \in DOMAIN array, pc' = "open", ix' = ix + 1,
         array' = array, trouble \subseteq trouble', KindsStay, VersionsRight',
         \A j \in NodeIds : j # array[ix] => device'[j] = device[j],
         \A j \in NodeIds : j # array[ix] => Found(j)' = Found(j),
         \A j \in NodeIds : j = array[ix] => Settled(j)' /\ (Found(j)' => Held(j)')
  PROVE  FoundInv'
<1>1. /\ array \in Seq({0} \cup NodeIds) /\ ix \in Nat /\ DOMAIN array \subseteq Nat
      /\ \A l \in DOMAIN array : array[l] # 0
      /\ \A l \in DOMAIN array : array[l] = array[ix] => l = ix
  BY DEF BridgeInv, DeviceInv, DevicesTyped, SlotInv, PlaceInv, Finding
<1>2. ASSUME NEW i \in NodeIds
      PROVE  (Found(i)' => Held(i)' /\ Behind(i)') /\ (Behind(i)' => Settled(i)')
  <2>1. Behind(i) => Behind(i)' /\ i # array[ix]
    <3> SUFFICES ASSUME Behind(i) PROVE Behind(i)' /\ i # array[ix]
      OBVIOUS
    <3>1. PICK l \in DOMAIN array : array[l] = i /\ l < ix
      BY DEF Behind
    <3>2. l < ix + 1 /\ l # ix
      BY <1>1, <3>1
    <3>3. QED
      BY <1>1, <3>1, <3>2 DEF Behind
  <2>2. Behind(i)' => Behind(i) \/ i = array[ix]
    <3> SUFFICES ASSUME Behind(i)', i # array[ix] PROVE Behind(i)
      OBVIOUS
    <3>1. PICK l \in DOMAIN array : array[l] = i /\ l < ix + 1
      BY DEF Behind, Finding
    <3>2. l < ix
      BY <1>1, <3>1
    <3>3. QED
      BY <3>1, <3>2 DEF Behind
  <2>3. i = array[ix] => Behind(i)'
    BY <1>1 DEF Behind
  <2>4. (Found(i) => Held(i) /\ Behind(i)) /\ (Behind(i) => Settled(i))
    BY DEF FoundInv
  <2>5. CASE i = array[ix]
    BY <2>3, <2>5
  <2>6. CASE i # array[ix]
    <3>1. Found(i)' = Found(i) /\ (Held(i) => Held(i)')
      BY <2>6 DEF Held
    <3>2. Settled(i) => Settled(i)'
      BY <3>1 DEF Settled, Sound, KindsStay
    <3>3. QED
      BY <2>1, <2>2, <2>4, <2>6, <3>1, <3>2
  <2>7. QED
    BY <2>5, <2>6
<1>3. QED
  BY <1>2 DEF FoundInv, Probing

-----------------------------------------------------------------------------
(* The steps of the probe while nothing goes wrong with its device *)

LEMMA JoinEmpty == ASSUME NEW s \in Octets PROVE <<>> \o s = s
  BY ConcatEmptySeq DEF Octets

LEMMA WholePiece ==
  ASSUME NEW s \in Octets
  PROVE  SubSeq(s, 1, Len(s)) = s /\ SubSeq(s, Len(s) + 1, Len(s)) = <<>>
<1>1. Len(s) \in Nat
  BY LenProperties DEF Octets
<1>2. QED
  BY <1>1, SubSeqFull, SubSeqEmpty DEF Octets

LEMMA WriteRight ==
  ASSUME BridgeInv, WriteProbe, ProbeRight, Node \notin trouble'
  PROVE  ProbeRight'
<1>1. /\ pc = "write" /\ pc' = "head" /\ UNCHANGED <<devvars, ix, baud, line>>
      /\ line = <<>> /\ coming = <<>> /\ ~sits[Node].looping
  BY DEF WriteProbe, ProbeRight
<1>2. Node \in NodeIds /\ sits \in [NodeIds -> Sitter]
  BY <1>1, NodeHere DEF BridgeInv, BridgeTyped, ProbeTyped, Probing
<1>3. ~sits'[Node].looping /\ sits'[Node].kind = sits[Node].kind /\ sits'[Node].baud = sits[Node].baud
  BY <1>1, <1>2, LoopEnded DEF WriteProbe
<1>4. Node' = Node
  BY <1>1 DEF Node, devvars
<1>5. PICK reply \in Replies(Node) : coming' = coming \o reply
  BY DEF WriteProbe, TroubleIf
<1>6. coming' = reply
  <2>1. reply \in Octets
    BY RepliesTyped
  <2>2. QED
    BY <1>1, <1>5, <2>1, JoinEmpty
<1>7. Replies(Node)' = Replies(Node)
  BY <1>1, <1>3, <1>4 DEF Replies, Hears
<1>8. Sound(Node)' = Sound(Node)
  BY <1>3, <1>4 DEF Sound
<1>9. QED
  BY <1>1, <1>3, <1>4, <1>6, <1>7, <1>8 DEF ProbeRight

LEMMA ArriveRight ==
  ASSUME BridgeInv, Arrive, ProbeRight, Node \notin trouble'
  PROVE  ProbeRight'
<1>1. /\ pc = "head" /\ coming # <<>> /\ UNCHANGED <<devvars, pc, ix, sits, baud>>
  BY DEF Arrive, ProbeRight
<1>2. PICK n \in 1..Len(coming) :
        /\ line' = line \o SubSeq(coming, 1, n)
        /\ coming' = SubSeq(coming, n + 1, Len(coming))
        /\ TroubleIf(n < Len(coming))
  BY DEF Arrive
<1>3. coming \in Octets /\ Len(coming) \in Nat
  BY LenProperties DEF BridgeInv, BridgeTyped, ProbeTyped, Octets
<1>4. n = Len(coming)
  BY <1>2, <1>3 DEF TroubleIf
<1>5. line = <<>> /\ coming \in Replies(Node)
  BY <1>1 DEF ProbeRight
<1>6. line' = coming /\ coming' = <<>>
  BY <1>2, <1>3, <1>4, <1>5, WholePiece, JoinEmpty
<1>7. Node' = Node
  BY <1>1 DEF Node, devvars
<1>8. Replies(Node)' = Replies(Node) /\ Sound(Node)' = Sound(Node)
  BY <1>1, <1>7 DEF Replies, Hears, Sound
<1>9. QED
  BY <1>1, <1>5, <1>6, <1>7, <1>8 DEF ProbeRight

LEMMA HeadRight ==
  ASSUME BridgeInv, ReadHead, ProbeRight, Node \notin trouble'
  PROVE  ProbeRight'
<1>1. /\ pc = "head" /\ UNCHANGED <<devvars, ix, sits, baud, coming>>
      /\ ver' = Verdict(Got(3)).ver /\ more' = Verdict(Got(3)).more
      /\ pc' = (IF more' > 0 THEN "rest" ELSE "create")
      /\ ~sits[Node].looping
  BY DEF ReadHead, ProbeRight
<1>2. line' = SubSeq(line, Len(Got(3)) + 1, Len(line)) /\ ~(~Satisfied(3) /\ coming # <<>>)
  BY DEF ReadHead, Read, TroubleIf
<1>3. PICK reply \in Replies(Node) :
        (line = <<>> /\ coming = reply) \/ (line = reply /\ coming = <<>>)
  BY <1>1 DEF ProbeRight
<1>4. line = <<>> => ~Satisfied(3)
  BY EmptySeq DEF Satisfied
<1>5. line = reply /\ coming = <<>>
  BY <1>2, <1>3, <1>4
<1>6. Got(3) = Front(reply) /\ line' = Rest(reply)
  BY <1>2, <1>5 DEF Got, Front, Rest
<1>7. Node \in NodeIds /\ sits \in [NodeIds -> Sitter]
  BY <1>1, NodeHere DEF BridgeInv, BridgeTyped, ProbeTyped, Probing
<1>8. sits[Node].kind \in Kinds
  BY <1>7 DEF Sitter
<1>9. more' \in Nat
  <2>1. Got(3) \in Octets
    BY GotOctets DEF BridgeInv, BridgeTyped, ProbeTyped
  <2>2. QED
    BY <1>1, <2>1, VerdictTyped
<1>10. CASE Hears(Node, baud)
  <2>1. reply \in Answers(sits[Node].kind)
    BY <1>1, <1>10 DEF Replies
  <2>2. Judges(sits[Node].kind, reply, Got(3), line')
    BY <1>6, <1>8, <2>1, VerdictRight
  <2>3. CASE more' = 0
    <3>1. pc' = "create" /\ ver' = Expected(sits[Node].kind) /\ line' = <<>>
      BY <1>1, <2>2, <2>3 DEF Judges
    <3>2. QED
      BY <1>1, <1>5, <1>10, <3>1 DEF ProbeRight, Node, Hears, Sound, devvars
  <2>4. CASE more' > 0
    <3>1. pc' = "rest" /\ Remains(sits[Node].kind, ver', more', line')
      BY <1>1, <2>2, <2>4 DEF Judges
    <3>2. QED
      BY <1>1, <1>5, <1>10, <2>4, <3>1 DEF ProbeRight, Node, Hears, Sound, devvars
  <2>5. QED
    BY <1>9, <2>3, <2>4
<1>11. CASE ~Hears(Node, baud)
  <2>1. reply = <<>>
    BY <1>11 DEF Replies
  <2>2. ver' = 0 /\ more' = 0 /\ line' = <<>>
    BY <1>1, <1>6, <2>1, NothingSaid
  <2>3. pc' = "create"
    BY <1>1, <2>2
  <2>4. QED
    BY <1>1, <1>5, <1>11, <2>2, <2>3 DEF ProbeRight, Node, Hears, Sound, devvars
<1>12. QED
  BY <1>10, <1>11

LEMMA RestRight ==
  ASSUME BridgeInv, ReadRest, ProbeRight, Node \notin trouble'
  PROVE  ProbeRight'
<1>1. /\ pc = "rest" /\ pc' = "create" /\ UNCHANGED <<devvars, ix, sits, baud, coming>>
      /\ ~sits[Node].looping /\ coming = <<>> /\ Hears(Node, baud) /\ more > 0
      /\ Remains(sits[Node].kind, ver, more, line)
  BY DEF ReadRest, ProbeRight
<1>2. /\ line' = SubSeq(line, Len(Got(more)) + 1, Len(line))
      /\ ver' = IF ver = 3 /\ (Len(Got(more)) # more \/ Got(more)[1] \notin {128, 144})
                  THEN 0 ELSE ver
  BY DEF ReadRest, Read
<1>3. line \in Octets /\ Len(line) \in Nat /\ more \in Nat
  BY LenProperties DEF BridgeInv, BridgeTyped, ProbeTyped, Octets
<1>4. Len(line) <= more => Got(more) = line
  <2>1. CASE Len(line) < more
    BY <2>1 DEF Got
  <2>2. CASE Len(line) = more
    BY <1>3, <2>2, WholePiece DEF Got
  <2>3. QED
    BY <1>3, <2>1, <2>2
<1>5. Len(line) <= more
  BY <1>1, <1>3, EmptySeq DEF Remains
<1>6. Got(more) = line /\ line' = <<>>
  BY <1>2, <1>3, <1>4, <1>5, WholePiece
<1>7. ver' = Expected(sits[Node].kind)
  <2>1. CASE sits[Node].kind = "v2" /\ ver = 2
    BY <1>2, <2>1 DEF Expected
  <2>2. CASE sits[Node].kind = "v3" /\ ver = 3 /\ Len(line) = more /\ line[1] \in {128, 144}
    BY <1>2, <1>6, <2>2 DEF Expected
  <2>3. CASE sits[Node].kind = "echo" /\ ver = 3 /\ line = <<>>
    <3>1. Len(line) = 0
      BY <2>3, EmptySeq
    <3>2. Len(Got(more)) # more
      BY <1>1, <1>3, <1>6, <3>1
    <3>3. QED
      BY <1>2, <2>3, <3>2 DEF Expected
  <2>4. QED
    BY <1>1, <2>1, <2>2, <2>3 DEF Remains
<1>8. QED
  BY <1>1, <1>6, <1>7 DEF ProbeRight, Node, Hears, Sound, devvars

(* A probe that comes to nothing, and no call of GetReader failed: there   *)
(* was nothing to hear.                                                    *)
LEMMA NothingHeard ==
  ASSUME BridgeInv, NoReader, ProbeRight, Node \notin trouble', Sound(Node)
  PROVE  ~Hears(Node, baud)
<1>1. /\ pc = "create" /\ ver # -1 /\ ~(ver # 0 /\ Speaks(ver))
      /\ ver = IF Hears(Node, baud) THEN Expected(sits[Node].kind) ELSE 0
  BY DEF NoReader, TroubleIf, ProbeRight
<1>2. sits[Node].kind \in {"v2", "v3", "boot"}
  BY DEF Sound, VersionOf
<1>3. QED
  BY <1>1, <1>2 DEF Expected, Speaks

LEMMA BaudRight ==
  ASSUME BridgeInv, NoReader, ProbeRight, Node \notin trouble', Sound(Node)
  PROVE  IsSerial /\ ~LastBaud /\ baud + 1 <= sits[Node].baud
<1>1. pc = "create"
  BY DEF NoReader
<1>2. Node \in NodeIds /\ sits \in [NodeIds -> Sitter] /\ baud \in 1..Bauds
  BY <1>1, NodeHere DEF BridgeInv, BridgeTyped, ProbeTyped, Probing
<1>3. sits[Node].baud \in 1..Bauds /\ Bauds \in Nat
  BY <1>2, DiscoveryAssumption DEF Sitter
<1>4. Nodes[Node] # "usb" /\ sits[Node].baud # baud
  BY NothingHeard DEF Hears
<1>5. Nodes[Node] = "tty"
  BY <1>1, <1>2, <1>4, DevicesAssumption DEF BridgeInv, DeviceInv, PlaceInv, Probing, NodeIds, Node
<1>6. baud <= sits[Node].baud
  BY <1>5 DEF ProbeRight
<1>7. QED
  BY <1>2, <1>3, <1>4, <1>6 DEF IsSerial, LastBaud

-----------------------------------------------------------------------------
(* Discovery, one step after the other *)

LEMMA OpeningKeepsFound ==
  ASSUME BridgeInv, FoundInv, OpenDevice
  PROVE  FoundInv'
<1> DEFINE i == array[ix]
<1>1. /\ pc = "open" /\ ix \in DOMAIN array /\ i \in NodeIds /\ Fresh(i)
      /\ readers' = readers /\ sits' = sits /\ array' = array /\ KindsStay
  <2>1. pc = "open" /\ ix <= Len(array) /\ readers' = readers /\ sits' = sits /\ array' = array
    BY DEF OpenDevice, Open
  <2>2. ix \in DOMAIN array /\ i \in NodeIds /\ ix \in Nat
    BY <2>1, NodeHere DEF BridgeInv, DeviceInv, DevicesTyped, Node
  <2>3. Fresh(i)
    BY <2>1, <2>2 DEF BridgeInv, DeviceInv, PlaceInv
  <2>4. QED
    BY <2>1, <2>2, <2>3 DEF KindsStay
<1>2. PICK st : /\ Open(i, st)
                /\ TroubleIf(st # "SUCCESS" \/ sits[i].looping)
                /\ IF st = "SUCCESS" THEN pc' = (IF IsSerial THEN "settings" ELSE "write") /\ UNCHANGED ix
                                     ELSE NextDevice
  BY DEF OpenDevice, Node
<1>3. Opens(i, st) /\ OpenedRight(i, st)
  <2>1. Opens(i, st)
    BY <1>2 DEF Open, Opens
  <2>2. owner[0] # Unused
    BY <1>1 DEF BridgeInv, DeviceInv, FDInv
  <2>3. QED
    BY <1>1, <2>1, <2>2, OpenResult DEF BridgeInv, DeviceInv
<1>4. /\ trouble \subseteq trouble'
      /\ i \notin trouble' => st = "SUCCESS" /\ ~sits[i].looping
  BY <1>2 DEF TroubleIf, Node
<1>5. \A j \in NodeIds : j # i => device'[j] = device[j]
  BY <1>3 DEF OpenedRight
<1>6. VersionsRight'
  BY <1>1, <1>4, VersionsStay DEF FoundInv, BridgeInv
<1>7. CASE st # "SUCCESS"
  <2>1. pc' = "open" /\ ix' = ix + 1 /\ i \in trouble'
    BY <1>2, <1>4, <1>7 DEF NextDevice
  <2>2. \A j \in NodeIds : Found(j)' = Found(j)
    BY <1>1 DEF Found
  <2>3. ~Found(i)
    <3>1. array \in Seq({0} \cup NodeIds) /\ ix \in Nat /\ DOMAIN array \subseteq Nat
          /\ \A l \in DOMAIN array : array[l] = i => l = ix
      BY <1>1, OwnersDiffer DEF BridgeInv, DeviceInv, DevicesTyped, SlotInv, Unused
    <3>2. ~Behind(i)
      BY <1>1, <3>1 DEF Behind, Finding
    <3>3. QED
      BY <1>1, <3>2 DEF FoundInv, Finding
  <2>4. \A j \in NodeIds : j = i => Settled(j)' /\ (Found(j)' => Held(j)')
    BY <2>1, <2>2, <2>3 DEF Settled
  <2>5. QED
    BY <1>1, <1>4, <1>5, <1>6, <2>1, <2>2, <2>4, NextKeepsFound DEF Finding
<1>8. CASE st = "SUCCESS"
  <2>1. pc' = (IF IsSerial THEN "settings" ELSE "write") /\ ix' = ix
    BY <1>2, <1>8
  <2>2. \A j \in NodeIds : j = i => Held(j)'
    <3>1. Nodes[i] # "bus" /\ (Nodes[i] = "tty" => device'[i].readFD > 0)
      BY <1>3, <1>8 DEF OpenedRight
    <3>2. Nodes[i] = "usb" => device'[i].readFD = 1
      <4> SUFFICES ASSUME Nodes[i] = "usb" PROVE device'[i].readFD = 1
        OBVIOUS
      <4>1. SetFDs(i, 1, 1)
        BY <1>3 DEF Opens, USBDevice_Open
      <4>2. DevicesTyped /\ 1 \in -1..MaxFD
        BY DevicesAssumption DEF BridgeInv, DeviceInv
      <4>3. QED
        BY <1>1, <4>1, <4>2, SetFDsResult
    <3>3. QED
      BY <1>1, <3>1, <3>2 DEF Held
  <2>3. i \notin trouble' => ProbeRight'
    <3> SUFFICES ASSUME i \notin trouble' PROVE ProbeRight'
      OBVIOUS
    <3>1. /\ ~sits'[Node'].looping /\ Node' = i /\ line' = <<>> /\ coming' = <<>> /\ baud' = 1
          /\ pc' \in {"settings", "write"}
      BY <1>1, <1>4, <2>1 DEF OpenDevice, Node
    <3>2. baud' <= sits'[i].baud
      <4>1. sits[i].baud \in 1..Bauds
        BY <1>1 DEF BridgeInv, BridgeTyped, ProbeTyped, Sitter
      <4>2. QED
        BY <1>1, <3>1, <4>1
    <3>3. QED
      BY <3>1, <3>2 DEF ProbeRight
  <2>4. ASSUME NEW j \in NodeIds
        PROVE  (Found(j)' => Held(j)' /\ Behind(j)') /\ (Behind(j)' => Settled(j)')
    <3>1. Found(j)' = Found(j) /\ Behind(j)' = Behind(j)
      BY <1>1, <2>1 DEF Found, Behind, Finding, Probing
    <3>2. (Found(j) => Held(j) /\ Behind(j)) /\ (Behind(j) => Settled(j))
      BY <1>1 DEF FoundInv, Finding
    <3>3. Settled(j) => Settled(j)'
      BY <1>1, <1>4, SettledStays
    <3>4. Held(j) => Held(j)'
      BY <1>5, <2>2 DEF Held
    <3>5. QED
      BY <3>1, <3>2, <3>3, <3>4
  <2>5. Held(Node)' /\ (Node' \notin trouble' => ProbeRight')
    <3>1. Node' = i
      BY <1>1, <2>1 DEF Node
    <3>2. Held(Node)'
      BY <1>1, <2>2, <3>1 DEF Held
    <3>3. QED
      BY <2>3, <3>1, <3>2
  <2>6. QED
    BY <1>6, <2>4, <2>5 DEF FoundInv
<1>9. QED
  BY <1>7, <1>8

LEMMA MakingKeepsFound ==
  ASSUME BridgeInv, FoundInv, MakesReader
  PROVE  FoundInv'
<1> DEFINE r == [node |-> array[ix], version |-> ver]
<1>1. /\ pc = "create" /\ pc' = "open" /\ ix' = ix + 1 /\ array' = array /\ device' = device
      /\ readers' = Append(readers, r) /\ sits' = sits /\ trouble' = trouble /\ KindsStay
  BY DEF MakesReader, NextDevice, devvars, Node, KindsStay
<1>2. ix \in DOMAIN array /\ array[ix] \in NodeIds
  BY <1>1, NodeHere DEF BridgeInv, Probing, Node
<1>3. ver = -1 \/ (ver \in {2, 3} /\ Speaks(ver))
  BY DEF MakesReader
<1>4. r \in Reader
  BY <1>2, <1>3 DEF Reader
<1>5. /\ Len(readers) \in Nat /\ Len(readers') = Len(readers) + 1
      /\ DOMAIN readers = 1..Len(readers) /\ DOMAIN readers' = 1..Len(readers')
      /\ \A k \in 1..Len(readers) : readers'[k] = readers[k]
      /\ readers'[Len(readers) + 1] = r
  <2>1. readers \in Seq(Reader)
    BY DEF BridgeInv, MessageInv
  <2>2. QED
    BY <1>1, <1>4, <2>1, LenProperties, AppendProperties
<1>6. \A k \in DOMAIN readers' : (k \in DOMAIN readers /\ readers'[k] = readers[k]) \/ readers'[k] = r
  BY <1>5
<1>7. array[ix] \notin trouble => ver \in VersionOf(sits[array[ix]].kind)
  <2>1. CASE ver = -1
    <3> SUFFICES ASSUME array[ix] \notin trouble PROVE ver \in VersionOf(sits[array[ix]].kind)
      OBVIOUS
    <3>1. ver = IF Hears(Node, baud) THEN Expected(sits[Node].kind) ELSE 0
      BY <1>1 DEF FoundInv, ProbeRight, Probing, Node
    <3>2. sits[Node].kind = "boot"
      BY <2>1, <3>1 DEF Expected
    <3>3. QED
      BY <2>1, <3>2 DEF VersionOf, Node
  <2>2. CASE ver \in {2, 3} /\ Speaks(ver)
    BY <2>2 DEF Speaks, VersionOf, Node
  <2>3. QED
    BY <1>3, <2>1, <2>2
<1>8. VersionsRight'
  <2> SUFFICES ASSUME NEW k \in DOMAIN readers', readers'[k].node \notin trouble
               PROVE  readers'[k].version \in VersionOf(sits[readers'[k].node].kind)
    BY <1>1 DEF VersionsRight
  <2>1. CASE k \in DOMAIN readers /\ readers'[k] = readers[k]
    BY <2>1 DEF FoundInv, VersionsRight
  <2>2. CASE readers'[k] = r
    BY <1>7, <2>2
  <2>3. QED
    BY <1>6, <2>1, <2>2
<1>9. \A j \in NodeIds : Found(j)' = (Found(j) \/ j = array[ix])
  <2> SUFFICES ASSUME NEW j \in NodeIds PROVE Found(j)' = (Found(j) \/ j = array[ix])
    OBVIOUS
  <2>1. Found(j)' => Found(j) \/ j = array[ix]
    BY <1>6 DEF Found
  <2>2. Found(j) => Found(j)'
    <3> SUFFICES ASSUME NEW k \in DOMAIN readers, readers[k].node = j PROVE Found(j)'
      BY DEF Found
    <3>1. k \in DOMAIN readers' /\ readers'[k] = readers[k]
      BY <1>5
    <3>2. QED
      BY <3>1 DEF Found
  <2>3. j = array[ix] => Found(j)'
    <3>1. Len(readers) + 1 \in DOMAIN readers'
      BY <1>5
    <3>2. QED
      BY <1>5, <3>1 DEF Found
  <2>4. QED
    BY <2>1, <2>2, <2>3 DEF Found
<1>10. \A j \in NodeIds : j = array[ix] => Settled(j)' /\ (Found(j)' => Held(j)')
  <2>1. Held(Node)
    BY <1>1 DEF FoundInv, Probing
  <2>2. \A j \in NodeIds : j = array[ix] => Held(j)'
    BY <1>1, <2>1 DEF Held, Node
  <2>3. QED
    BY <1>9, <2>2 DEF Settled
<1>11. /\ \A j \in NodeIds : j # array[ix] => device'[j] = device[j]
       /\ \A j \in NodeIds : j # array[ix] => Found(j)' = Found(j)
       /\ trouble \subseteq trouble' /\ pc \in Finding
  BY <1>1, <1>9 DEF Finding, Probing, Found
<1>12. QED
  BY <1>1, <1>2, <1>8, <1>10, <1>11, NextKeepsFound

LEMMA NoReaderKeepsFound ==
  ASSUME BridgeInv, FoundInv, NoReader
  PROVE  FoundInv'
<1>1. /\ pc = "create" /\ readers' = readers /\ sits' = sits /\ trouble \subseteq trouble'
      /\ KindsStay /\ pc \in Finding
  BY DEF NoReader, TroubleIf, KindsStay, Finding, Probing
<1>2. ix \in DOMAIN array /\ array[ix] \in NodeIds
  BY <1>1, NodeHere DEF BridgeInv, Probing, Node
<1>3. CASE IsSerial /\ ~LastBaud
  <2>1. pc' = "settings" /\ baud' = baud + 1 /\ UNCHANGED <<devvars, ix>>
    BY <1>3 DEF NoReader
  <2>2. ASSUME Node \notin trouble', ProbeRight
        PROVE  ProbeRight'
    <3>1. line' = <<>> /\ coming' = <<>> /\ ~sits[Node].looping
      BY <1>1, <2>2 DEF NoReader, ProbeRight
    <3>2. Node' = Node
      BY <2>1 DEF Node, devvars
    <3>3. Sound(Node) => baud' <= sits[Node].baud
      BY <2>1, <2>2, BaudRight
    <3>4. QED
      BY <1>1, <2>1, <3>1, <3>2, <3>3 DEF ProbeRight, Sound
  <2>3. QED
    BY <1>1, <2>1, <2>2, ProbingKeepsFound DEF Probing
<1>4. CASE ~(IsSerial /\ ~LastBaud)
  <2>1. Close(Node) /\ pc' = "open" /\ ix' = ix + 1
    BY <1>4 DEF NoReader, NextDevice
  <2>2. array' = array /\ \A j \in NodeIds : j # array[ix] => device'[j] = device[j]
    BY <2>1 DEF Close, Node, BridgeInv, DeviceInv, DevicesTyped
  <2>3. Settled(Node) \/ Node \in trouble'
    <3> SUFFICES ASSUME Node \notin trouble', Sound(Node) PROVE FALSE
      BY DEF Settled
    <3>1. ProbeRight
      BY <1>1 DEF FoundInv, Probing
    <3>2. QED
      BY <1>4, <3>1, BaudRight
  <2>4. ~Found(array[ix])
    <3>1. array \in Seq({0} \cup NodeIds) /\ ix \in Nat /\ DOMAIN array \subseteq Nat
          /\ \A l \in DOMAIN array : array[l] = array[ix] => l = ix
      BY <1>2, OwnersDiffer DEF BridgeInv, DeviceInv, DevicesTyped, SlotInv, Unused
    <3>2. ~Behind(array[ix])
      BY <1>1, <3>1 DEF Behind
    <3>3. QED
      BY <1>1, <1>2, <3>2 DEF FoundInv
  <2>5. \A j \in NodeIds : Found(j)' = Found(j)
    BY <1>1 DEF Found
  <2>6. VersionsRight'
    BY <1>1, VersionsStay DEF FoundInv, BridgeInv
  <2>7. \A j \in NodeIds : j = array[ix] => Settled(j)' /\ (Found(j)' => Held(j)')
    BY <1>1, <2>3, <2>4, <2>5 DEF Settled, Sound, Node
  <2>8. QED
    BY <1>1, <1>2, <2>1, <2>2, <2>5, <2>6, <2>7, NextKeepsFound
<1>5. QED
  BY <1>3, <1>4

LEMMA ProbeStepKeepsFound ==
  ASSUME BridgeInv, FoundInv,
         SetOptions \/ WriteFails \/ WriteProbe \/ Arrive \/ ReadHead \/ ReadRest \/ Reopen
  PROVE  FoundInv'
<1>1. /\ pc \in Probing /\ pc' \in Probing /\ UNCHANGED <<devvars, ix, readers>>
      /\ trouble \subseteq trouble'
  BY DEF SetOptions, WriteFails, WriteProbe, Arrive, ReadHead, ReadRest, Reopen, Read, TroubleIf,
    Probing
<1>2. Node \in NodeIds /\ sits \in [NodeIds -> Sitter]
  BY <1>1, NodeHere DEF BridgeInv, BridgeTyped, ProbeTyped
<1>3. KindsStay
  <2>1. CASE WriteProbe
    BY <1>2, <2>1, LoopEnded DEF WriteProbe, KindsStay
  <2>2. CASE ~WriteProbe
    BY <2>2 DEF SetOptions, WriteFails, Arrive, ReadHead, ReadRest, Reopen, KindsStay
  <2>3. QED
    BY <2>1, <2>2
<1>4. ASSUME Node \notin trouble', ProbeRight
      PROVE  ProbeRight'
  <2>1. CASE SetOptions
    <3>1. /\ pc = "settings" /\ pc' = "write" /\ line' = <<>>
          /\ UNCHANGED <<devvars, ix, sits, baud, coming>>
      BY <2>1 DEF SetOptions
    <3>2. QED
      BY <1>4, <3>1 DEF ProbeRight, Node, Sound, devvars
  <2>2. CASE WriteFails
    BY <1>4, <2>2 DEF WriteFails, TroubleIf
  <2>3. CASE WriteProbe
    BY <1>4, <2>3, WriteRight
  <2>4. CASE Arrive
    BY <1>4, <2>4, ArriveRight
  <2>5. CASE ReadHead
    BY <1>4, <2>5, HeadRight
  <2>6. CASE ReadRest
    BY <1>4, <2>6, RestRight
  <2>7. CASE Reopen
    <3>1. /\ pc = "create" /\ pc' = "write" /\ coming' \in {coming, <<>>}
          /\ UNCHANGED <<devvars, ix, sits, baud, line>>
      BY <2>7 DEF Reopen
    <3>2. QED
      BY <1>4, <3>1 DEF ProbeRight, Node, Sound, devvars
  <2>8. QED
    BY <2>1, <2>2, <2>3, <2>4, <2>5, <2>6, <2>7
<1>5. QED
  BY <1>1, <1>3, <1>4, ProbingKeepsFound

LEMMA NextKeepsReaders ==
  ASSUME BridgeInv, FoundInv, [Next]_vars
  PROVE  FoundInv'
<1>1. CASE Discover
  BY <1>1, OpeningKeepsFound, MakingKeepsFound, NoReaderKeepsFound, ProbeStepKeepsFound
  DEF Discover, DiscoverNext
<1>2. CASE UNCHANGED <<device, array, pc, ix, probevars>>
  BY SMTT(30), <1>2 DEF FoundInv, VersionsRight, Held, ProbeRight, Node, Replies, Hears, Sound, Found,
    Behind, Settled, probevars
<1>3. ASSUME readers' = readers \/ readers' = <<>>, sits' = sits, trouble' = trouble
      PROVE  VersionsRight'
  BY <1>3 DEF FoundInv, VersionsRight
<1>4. CASE BrokerTakes \/ ConnectionLost \/ TagFound \/ UNCHANGED vars
  BY <1>2, <1>4 DEF BrokerTakes, ConnectionLost, TagFound, vars, discvars, devvars
<1>5. CASE Connect \/ LoopsDone \/ FreeDevices \/ FreeReaders \/ Disconnect
  <2>1. /\ readers' = readers \/ readers' = <<>>
        /\ sits' = sits /\ trouble' = trouble
        /\ pc' \notin Finding \cup {"select", "loop"}
    BY <1>5 DEF Connect, LoopsDone, FreeDevices, FreeReaders, Disconnect, Jump, probevars,
      Finding, Probing
  <2>2. QED
    BY <1>3, <2>1 DEF FoundInv, Finding
<1>6. CASE FindDevices
  <2>1. /\ readers' = <<>> /\ sits' = sits /\ trouble' = trouble /\ pc' \in {"open", "free"}
        /\ ix' = 1 /\ array' \in Seq(NodeIds)
    <3>1. array' \in Seq(NodeIds)
      BY <1>6, LenProperties, DevicesAssumption DEF FindDevices, DiscoverDevices
    <3>2. QED
      BY <1>6, <3>1 DEF FindDevices, Jump, probevars, BridgeInv, BridgeTyped, Counts
  <2>2. \A i \in NodeIds : ~Found(i)' /\ (pc' = "open" => ~Behind(i)')
    <3>1. DOMAIN array' \subseteq Nat \ {0}
      BY <2>1
    <3>2. QED
      BY <2>1, <3>1 DEF Found, Behind, Finding
  <2>3. QED
    BY <1>3, <2>1, <2>2 DEF FoundInv, Finding, Probing
<1>7. CASE ReadersFound \/ SelectTags \/ LoopEnds
  <2>1. /\ UNCHANGED <<device, array, readers, sits, trouble>> /\ pc' \in {"select", "loop"}
        /\ pc \in {"select", "loop"} \/ (pc = "open" /\ ix > Len(array))
    BY <1>7 DEF ReadersFound, SelectTags, LoopEnds, Jump, devvars, probevars
  <2>2. ASSUME NEW i \in NodeIds
        PROVE  (Found(i)' => Held(i)' /\ Behind(i)') /\ (Behind(i)' => Settled(i)')
    <3>1. Found(i)' = Found(i) /\ Held(i)' = Held(i) /\ Settled(i)' = Settled(i)
      BY <2>1 DEF Found, Held, Settled, Sound
    <3>2. Behind(i)' = Behind(i)
      <4>1. pc = "open" => \A l \in DOMAIN array : l < ix
        BY <2>1, LenProperties DEF BridgeInv, DeviceInv, DevicesTyped
      <4>2. QED
        BY <2>1, <4>1 DEF Behind, Finding, Probing
    <3>3. QED
      BY <2>1, <3>1, <3>2 DEF FoundInv, Finding
  <2>3. QED
    BY <1>3, <2>1, <2>2 DEF FoundInv, Probing
<1>8. QED
  BY <1>1, <1>4, <1>5, <1>6, <1>7 DEF Next, Host

(* The guess of GetReaderVersion (SkyeTekReaderFactory.c:75-168) is right: *)
(* a reader that is found has the version of what sits there and keeps its *)
(* device open on descriptors of its own, and no reader whose device was   *)
(* found is missed, unless something went wrong with it.                   *)
THEOREM ReadersAreRight == Spec => []DiscoveryRight
<1>1. Init => FoundInv
  BY DEF Init, DiscoveryInit, FoundInv, VersionsRight, Finding, Probing
<1>2. BridgeInv /\ FoundInv /\ [Next]_vars => FoundInv'
  BY NextKeepsReaders
<1>3. ASSUME BridgeInv, FoundInv PROVE DiscoveryRight
  <2>1. ASSUME NEW k \in DOMAIN readers, pc \in {"select", "loop"}
        PROVE  device[readers[k].node].readFD \in
                 {1} \cup {f \in DOMAIN owner : owner[f] = readers[k].node}
    <3> DEFINE i == readers[k].node
    <3>1. i \in NodeIds
      BY <1>3, ReaderAt DEF BridgeInv
    <3>2. Held(i)
      BY <1>3, <2>1, <3>1 DEF FoundInv, Found
    <3>3. Nodes[i] \in {"usb", "tty"}
      BY <3>1, <3>2, DevicesAssumption DEF Held, NodeIds
    <3>4. CASE Nodes[i] = "usb"
      BY <3>2, <3>4 DEF Held
    <3>5. CASE Nodes[i] = "tty"
      <4>1. device[i].readFD > 0 /\ device[i].readFD \in 0..MaxFD /\ DOMAIN owner = 0..MaxFD
        BY <1>3, <3>1, <3>2, <3>5, DevicesAssumption
        DEF Held, BridgeInv, DeviceInv, DevicesTyped, Device
      <4>2. owner[device[i].readFD] = i
        BY <1>3, <2>1, <3>1, <3>5, <4>1 DEF BridgeInv, DeviceInv, FDInv, LineInv, Over
      <4>3. QED
        BY <4>1, <4>2
    <3>6. QED
      BY <3>3, <3>4, <3>5
  <2>2. ASSUME pc = "select", NEW i \in NodeIds,
               device[i].state = "made" /\ i \notin trouble /\ VersionOf(sits[i].kind) # {}
        PROVE  \E k \in DOMAIN readers : readers[k].node = i
    <3>1. Behind(i)
      BY <1>3, <2>2 DEF BridgeInv, DeviceInv, SlotInv, Behind, Finding, Probing
    <3>2. QED
      BY <1>3, <2>2, <3>1 DEF FoundInv, Settled, Sound, Found
  <2>3. QED
    BY <1>3, <2>1, <2>2 DEF DiscoveryRight, FoundInv, VersionsRight
<1>4. QED
  BY <1>1, <1>2, <1>3, BridgeInvHolds, PTL DEF Spec
=============================================================================
