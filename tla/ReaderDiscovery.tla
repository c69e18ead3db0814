--------------------------- MODULE ReaderDiscovery ---------------------------
(***************************************************************************)
(* Discovery of the readers (Reader/SkyeTekReaderFactory.c): each device   *)
(* is opened and probed with 02 00 01, a serial one once at each setting,  *)
(* and the version of the protocol is guessed from the octets that come    *)
(* back.  What sits at the other end is not in the repository: it answers  *)
(* the way the code expects it to.                                         *)
(***************************************************************************)
EXTENDS Devices

CONSTANTS
  Bauds,   \* how many settings the serial devices are tried at
  Plugged, \* what may sit at the nodes: functions from the nodes to Sitter
  Faults   \* what may go wrong: a subset of {"write", "split", "late", "lost"}

Kinds == {"v2", "v3", "boot", "echo", "silent"}

Sitter == [kind : Kinds, baud : 1..Bauds, looping : BOOLEAN]

ASSUME DiscoveryAssumption ==
  /\ Bauds \in Nat \ {0}
  /\ Plugged \subseteq [NodeIds -> Sitter]
  /\ Faults \subseteq {"write", "split", "late", "lost"}

VARIABLES
  sits,    \* what sits at each node
  pc,      \* where the program is
  ix,      \* the slot of an array the program is at
  baud,    \* the setting of the serial device that is probed
  tries,   \* how often the device has been probed
  ver,     \* the version the probe finds: 2, 3, -1 in bootload mode, 0 no reader
  more,    \* how many octets the probe still wants
  line,    \* octets that can be read now
  coming,  \* octets that are on their way
  readers, \* the readers of the application: node and version
  trouble  \* history: nodes where something went wrong, now or in an earlier run

probevars == <<sits, baud, tries, ver, more, line, coming, readers, trouble>>
discvars  == <<devvars, pc, ix, probevars>>

Reader == [node : NodeIds, version : {-1, 2, 3}]

DiscoveryInit ==
  /\ DevicesInit
  /\ sits \in Plugged
  /\ pc = "connect"
  /\ ix = 1 /\ baud = 1 /\ tries = 1 /\ ver = 0 /\ more = 0
  /\ line = <<>> /\ coming = <<>> /\ readers = <<>>
  /\ trouble = {}

Node     == array[ix]
IsSerial == Nodes[Node] # "usb"

TroubleIf(b) == trouble' = IF b THEN trouble \cup {Node} ELSE trouble

-----------------------------------------------------------------------------
(* The other end: octets as the probe tells them apart. *)

TagFrame == <<2, 0, 4, 1, 1, 0, 0>>
LoopOff  == <<2, 0, 4, 129, 193, 0, 0>>

Answers(kind) ==
  CASE kind = "v2"   -> {<<2, 1, 130>>, <<2, 1, 129>>, <<2, 4, 136, 0, 0, 0>>, <<2, 3, 136, 0, 0>>}
    [] kind = "v3"   -> {<<2, 0, 4, 128, 0, 0, 255>>, <<2, 0, 4, 144, 0, 0, 255>>}
    [] kind = "boot" -> {<<0, 255>>, <<0, 3, 0>>}
    [] kind = "echo" -> {<<2, 0, 1>>}
    [] OTHER         -> {<<>>}

Hears(i, b) == Nodes[i] = "usb" \/ sits[i].kind = "echo" \/ sits[i].baud = b

(* A command ends the loop an earlier run of the program left behind. *)
Replies(i) ==
  IF ~Hears(i, baud) THEN {<<>>}
  ELSE IF sits[i].looping THEN {LoopOff} ELSE Answers(sits[i].kind)

LoopStops(i) == sits' = [sits EXCEPT ![i].looping = @ /\ ~Hears(i, baud)]

-----------------------------------------------------------------------------
(* Devices *)

NextDevice == pc' = "open" /\ ix' = ix + 1

(* GetReaderVersion is not asked about a device whose descriptor is 0: the *)
(* connection to the broker was made first, so no device gets that one.    *)
OpenDevice ==
  /\ pc = "open" /\ ix <= Len(array)
  /\ \E st \in {"SUCCESS", "READER_IO_ERROR", "INVALID_PARAMETER"} :
       /\ Open(Node, st)
       /\ TroubleIf(st # "SUCCESS" \/ sits[Node].looping)
       /\ IF st = "SUCCESS" THEN pc' = (IF IsSerial THEN "settings" ELSE "write") /\ UNCHANGED ix
                            ELSE NextDevice
  /\ baud' = 1 /\ tries' = 1
  /\ line' = <<>>
  /\ coming' = IF sits[Node].looping THEN TagFrame ELSE <<>>
  /\ UNCHANGED <<sits, ver, more, readers>>

(* What was received is discarded, what is on its way is not. *)
SetOptions ==
  /\ pc = "settings"
  /\ pc' = "write"
  /\ line' = <<>>
  /\ UNCHANGED <<devvars, ix, sits, baud, tries, ver, more, coming, readers, trouble>>

-----------------------------------------------------------------------------
(* GetReaderVersion *)

WriteFails ==
  /\ pc = "write" /\ "write" \in Faults
  /\ pc' = "create" /\ ver' = 0
  /\ TroubleIf(TRUE)
  /\ UNCHANGED <<devvars, ix, sits, baud, tries, more, line, coming, readers>>

WriteProbe ==
  /\ pc = "write"
  /\ pc' = "head"
  /\ LoopStops(Node)
  /\ \/ \E reply \in Replies(Node) : coming' = coming \o reply /\ UNCHANGED trouble
     \/ "lost" \in Faults /\ TroubleIf(TRUE) /\ UNCHANGED coming
  /\ UNCHANGED <<devvars, ix, baud, tries, ver, more, line, readers>>

(* A packet of a usb device arrives whole. *)
Arrive ==
  /\ pc \in {"head", "rest"} /\ coming # <<>>
  /\ \E n \in 1..Len(coming) :
       /\ n = Len(coming) \/ ("split" \in Faults /\ IsSerial)
       /\ line' = line \o SubSeq(coming, 1, n)
       /\ coming' = SubSeq(coming, n + 1, Len(coming))
       /\ TroubleIf(n < Len(coming))
  /\ UNCHANGED <<devvars, pc, ix, sits, baud, tries, ver, more, readers>>

(* Read gives what a serial device has, and waits for all n octets of a    *)
(* usb device; either gives up when nothing came in time.                  *)
Satisfied(n) == IF IsSerial THEN line # <<>> ELSE Len(line) >= n

Got(n) == IF Len(line) < n THEN line ELSE SubSeq(line, 1, n)

Read(n) ==
  /\ Satisfied(n) \/ coming = <<>> \/ "late" \in Faults
  /\ line' = SubSeq(line, Len(Got(n)) + 1, Len(line))
  /\ TroubleIf(~Satisfied(n) /\ coming # <<>>)

(* mutant: the first octet is not looked at *)
AnyBootloader(b) == (Len(b) = 2 /\ b[2] = 255) \/ (Len(b) = 3 /\ b[2] = 3)

Bootloader(b) == (Len(b) = 2 /\ b[2] = 255) \/ (Len(b) = 3 /\ b[1] = 0 /\ b[2] = 3)

(* What the first octets say: the version, and how many more to read. *)
Verdict(b) ==
  LET is(v, n) == [ver |-> v, more |-> n]
  IN  IF Bootloader(b)                                    THEN is(-1, 0)
      ELSE IF Len(b) # 3                                  THEN is(0, 0)
      ELSE IF b \in {<<2, 1, 130>>, <<2, 1, 129>>}        THEN is(2, 0)
      ELSE IF b = <<2, 4, 136>>                           THEN is(2, 3)
      ELSE IF b = <<2, 3, 136>>                           THEN is(2, 2)
      ELSE IF (b[1] # 2 /\ b[2] # 0) \/ b[3] \notin 1..60 THEN is(0, 0)
      ELSE is(3, b[3])

ReadHead ==
  /\ pc = "head"
  /\ Read(3)
  /\ ver' = Verdict(Got(3)).ver /\ more' = Verdict(Got(3)).more
  /\ pc' = IF more' > 0 THEN "rest" ELSE "create"
  /\ UNCHANGED <<devvars, ix, sits, baud, tries, coming, readers>>

(* A version 3 answer must be complete; of version 2 no more is asked. *)
ReadRest ==
  /\ pc = "rest"
  /\ Read(more)
  /\ ver' = IF ver = 3 /\ (Len(Got(more)) # more \/ Got(more)[1] \notin {128, 144})
              THEN 0 ELSE ver
  /\ more' = 0
  /\ pc' = "create"
  /\ UNCHANGED <<devvars, ix, sits, baud, tries, coming, readers>>

-----------------------------------------------------------------------------
(* CreateReader and the loop of DiscoverReaders *)

AlwaysAgain == Nodes[Node] = "usb" /\ ver = 0  \* mutant: a usb device is reopened until it answers

MayReopen == Nodes[Node] = "usb" /\ ver = 0 /\ tries = 1

(* Flush, Close and Open of a usb device: its descriptors are 1 again, the *)
(* octets it has read are kept, and the reset may drop those on their way. *)
Reopen ==
  /\ pc = "create" /\ MayReopen
  /\ pc' = "write"
  /\ tries' = 2
  /\ coming' \in {coming, <<>>}
  /\ UNCHANGED <<devvars, ix, sits, baud, ver, more, line, readers, trouble>>

(* GetReader asks for five parameters through the engine of that version,  *)
(* which only such a reader at that setting answers; GetBootloadReader     *)
(* asks nothing.                                                           *)
Speaks(v) == Hears(Node, baud) /\ sits[Node].kind = (IF v = 2 THEN "v2" ELSE "v3")

MakesReader ==
  /\ pc = "create"
  /\ ver = -1 \/ (ver \in {2, 3} /\ Speaks(ver))
  /\ readers' = Append(readers, [node |-> Node, version |-> ver])
  /\ NextDevice
  /\ UNCHANGED <<devvars, sits, baud, tries, ver, more, line, coming, trouble>>

TooManyBauds == baud > Bauds  \* mutant: the settings are counted one too far

LastBaud == baud = Bauds

NoReader ==
  /\ pc = "create" /\ ver # -1
  /\ ver = 0 => ~MayReopen
  /\ TroubleIf(ver # 0 /\ Speaks(ver))   \* a call of GetReader failed
  /\ IF ver = 0 THEN UNCHANGED <<line, coming>> ELSE line' = <<>> /\ coming' = <<>>
  /\ IF IsSerial /\ ~LastBaud
     THEN baud' = baud + 1 /\ pc' = "settings" /\ UNCHANGED <<devvars, ix>>
     ELSE Close(Node) /\ NextDevice /\ UNCHANGED baud
  /\ UNCHANGED <<sits, tries, ver, more, readers>>

DiscoverNext ==
  \/ OpenDevice \/ SetOptions
  \/ WriteFails \/ WriteProbe \/ Arrive \/ ReadHead \/ ReadRest
  \/ Reopen \/ MakesReader \/ NoReader

Octets == Seq(0..255)

DiscoveryTypeOK ==
  /\ DevicesTypeOK
  /\ sits \in [NodeIds -> Sitter]
  /\ baud \in 1..Bauds /\ tries \in 1..2
  /\ ver \in {-1, 0, 2, 3} /\ more \in 0..60
  /\ line \in Octets /\ coming \in Octets
  /\ readers \in Seq(Reader)
  /\ trouble \subseteq NodeIds
=============================================================================
