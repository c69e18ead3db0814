------------------------------- MODULE Devices -------------------------------
(***************************************************************************)
(* The life of devices: discovery by the factories (Device/DeviceFactory.c *)
(* with USBDeviceFactory.c and SerialDeviceFactory.c), Open, Close and     *)
(* Free (USBDevice.c, SerialDevice.c), and the descriptors of the process  *)
(* they open and close, in the Linux build.                                *)
(*                                                                         *)
(* The array of devices that DiscoverDevices returns has a slot per device *)
(* that was found; a slot is the number of a node, or 0 once it is NULL.   *)
(***************************************************************************)
EXTENDS Integers, Sequences

CONSTANTS
  Nodes, \* what is plugged in, in the order of the factories: "usb", a serial
         \* line "tty", or "bus", an spi or i2c node of the serial module
  MaxFD  \* bound: the highest descriptor of the process

(* One USB reader: every device would open the same one (USBDevice.c:401). *)
ASSUME DevicesAssumption ==
  /\ Nodes \in Seq({"usb", "tty", "bus"})
  /\ \A i \in DOMAIN Nodes : Nodes[i] = "usb" => i = 1
  /\ MaxFD \in Nat \ {0}

VARIABLES
  owner,  \* who has each descriptor
  device, \* the device of each node
  array,  \* the devices of the application
  misuse  \* history: descriptors of others closed, freed devices used

devvars == <<owner, device, array, misuse>>

Unused  == 0   \* owners, besides the nodes
Program == -1
Broker  == -2

NodeIds == DOMAIN Nodes

(* The two descriptor fields hold 0 after Close and -1 after a failed      *)
(* open(); a USB device keeps 1 in both, which is not a descriptor of its. *)
Device == [state : {"none", "made", "freed"}, readFD : -1..MaxFD, writeFD : -1..MaxFD]

Misuse(what, i, fd) == [what |-> what, node |-> i, fd |-> fd]

DevicesInit ==
  /\ owner \in {[f \in 0..MaxFD |-> IF f \in taken THEN Program ELSE Unused] :
                  taken \in {0..2, 1..2}}   \* standard input may be closed
  /\ device = [i \in NodeIds |-> [state |-> "none", readFD |-> 0, writeFD |-> 0]]
  /\ array = <<>>
  /\ misuse = {}

-----------------------------------------------------------------------------
(* Descriptors *)

UnusedFDs == {f \in 0..MaxFD : owner[f] = Unused}

(* open() takes the lowest descriptor, and fails when there is none. *)
Lowest(fds) == {f \in fds : \A g \in fds : f <= g}

Touched(i) == IF device[i].state = "made" THEN {} ELSE {Misuse("touch", i, 0)}

(* close() of some numbers on behalf of a device. *)
CloseFDs(i, fds) ==
  LET open == {f \in fds \cap 0..MaxFD : owner[f] # Unused}
  IN  /\ owner' = [f \in 0..MaxFD |-> IF f \in open THEN Unused ELSE owner[f]]
      /\ misuse' = misuse \cup Touched(i)
                     \cup {Misuse("close", i, f) : f \in {g \in open : owner[g] # i}}

-----------------------------------------------------------------------------
(* Open: whether it fails is the system's choice. *)

IsOpen(i) == device[i].readFD # 0 /\ device[i].writeFD # 0

SetFDs(i, r, w) == device' = [device EXCEPT ![i].readFD = r, ![i].writeFD = w]

OpenLine(i, st) ==
  \/ st = "READER_IO_ERROR" /\ SetFDs(i, device[i].readFD, -1) /\ UNCHANGED owner
  \/ /\ st = "SUCCESS"
     /\ \E fd \in Lowest(UnusedFDs) : SetFDs(i, fd, fd) /\ owner' = [owner EXCEPT ![fd] = i]

(* The branch of the two-descriptor nodes falls through to the error; when *)
(* the second open() fails, the number of the first one stays behind.      *)
OpenBus(i, st) ==
  \/ st = "READER_IO_ERROR" /\ SetFDs(i, device[i].readFD, -1) /\ UNCHANGED owner
  \/ \E w \in Lowest(UnusedFDs) :
       \/ st = "READER_IO_ERROR" /\ SetFDs(i, -1, w) /\ UNCHANGED owner
       \/ /\ st = "INVALID_PARAMETER"
          /\ \E r \in Lowest(UnusedFDs \ {w}) :
               SetFDs(i, r, w) /\ owner' = [owner EXCEPT ![w] = i, ![r] = i]

SerialDevice_Open(i, st) ==
  \/ IsOpen(i) /\ st = "SUCCESS" /\ UNCHANGED <<owner, device>>
  \/ ~IsOpen(i) /\ st = "INVALID_PARAMETER" /\ UNCHANGED <<owner, device>>  \* stat fails
  \/ ~IsOpen(i) /\ Nodes[i] = "tty" /\ OpenLine(i, st)
  \/ ~IsOpen(i) /\ Nodes[i] = "bus" /\ OpenBus(i, st)

(* The reader stays plugged in. *)
USBDevice_Open(i, st) == st = "SUCCESS" /\ SetFDs(i, 1, 1) /\ UNCHANGED owner

Open(i, st) ==
  /\ misuse' = misuse \cup Touched(i)
  /\ UNCHANGED array
  /\ IF Nodes[i] = "usb" THEN USBDevice_Open(i, st) ELSE SerialDevice_Open(i, st)

-----------------------------------------------------------------------------
(* Close and Free.  A device that was closed, or never opened, has both    *)
(* fields 0, and Close closes descriptor 0.                                *)

FDsOf(i) == IF Nodes[i] = "usb" THEN {} ELSE {device[i].readFD, device[i].writeFD}

KeptOpen(d) == d  \* mutant: Close leaves the numbers in the device

Reset(d) == [d EXCEPT !.readFD = 0, !.writeFD = 0]

Close(i) ==
  /\ CloseFDs(i, FDsOf(i))
  /\ device' = [device EXCEPT ![i] = Reset(device[i])]
  /\ UNCHANGED array

Free(i) ==
  /\ CloseFDs(i, FDsOf(i))
  /\ device' = [device EXCEPT ![i] = [Reset(device[i]) EXCEPT !.state = "freed"]]

-----------------------------------------------------------------------------
(* The factories *)

(* The serial factory opens and closes each node before it makes a device  *)
(* of it, and leaves out those that do not open.                           *)
DiscoverDevices ==
  \E n \in 0..Len(Nodes) : \E found \in [1..n -> NodeIds] :
    /\ \A a, b \in 1..n : a < b => found[a] < found[b]
    /\ array' = found
    /\ device' = [i \in NodeIds |-> IF \E k \in 1..n : found[k] = i
                                   THEN [device[i] EXCEPT !.state = "made"] ELSE device[i]]
    /\ UNCHANGED <<owner, misuse>>

Factories == <<"USB", "Serial">>
FactoryOf(i) == IF Nodes[i] = "usb" THEN "USB" ELSE "Serial"

StaleSlot(k) == array  \* mutant: the slot of a device that was freed is not set to NULL

EmptySlot(k) == [array EXCEPT ![k] = 0]

(* Each factory goes over the whole array and frees the devices that are   *)
(* its own.                                                                *)
FreeSlot(factory, k) ==
  LET i == array[k]
  IN  \/ i = 0 /\ UNCHANGED devvars
      \/ /\ i # 0 /\ FactoryOf(i) # factory
         /\ misuse' = misuse \cup Touched(i)
         /\ UNCHANGED <<owner, device, array>>
      \/ /\ i # 0 /\ FactoryOf(i) = factory
         /\ Free(i)
         /\ array' = EmptySlot(k)

DevicesTypeOK ==
  /\ owner \in [0..MaxFD -> {Unused, Program, Broker} \cup NodeIds]
  /\ device \in [NodeIds -> Device]
  /\ array \in Seq({0} \cup NodeIds)
  /\ \A m \in misuse : m.what \in {"touch", "close"} /\ m.node \in NodeIds
=============================================================================
