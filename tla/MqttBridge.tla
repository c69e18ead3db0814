------------------------------ MODULE MqttBridge ------------------------------
(***************************************************************************)
(* The program (main.cpp): it connects to the broker, discovers devices    *)
(* and readers, runs the select loop of one reader after the other and     *)
(* publishes every tag, frees the devices and the readers, and ends.  The  *)
(* broker and the client library (MQTTClient) are external; the loop of a  *)
(* reader is what STPv2, STPv3 and TagCalls model, here the tags it finds. *)
(***************************************************************************)
EXTENDS ReaderDiscovery

CONSTANT MaxTags  \* bound: how many tags the readers see

ASSUME BridgeAssumption == MaxTags \in Nat

VARIABLES
  factory, \* the factory that frees devices
  topic,   \* mqttTopic: the reader it names, 0 one in bootload mode
  outbox,  \* messages published and not yet taken by the broker
  taken,   \* what the broker took
  seen     \* history: the tags the readers saw, with the reader

busvars == <<topic, outbox, taken, seen>>
vars    == <<discvars, factory, busvars>>

Message == [topic : {0} \cup NodeIds, tag : 1..MaxTags]

Connected == \E f \in DOMAIN owner : owner[f] = Broker

Init ==
  /\ DiscoveryInit
  /\ factory = 1 /\ topic = 0
  /\ outbox = <<>> /\ taken = <<>> /\ seen = <<>>

Jump(to) == pc' = to /\ ix' = 1

-----------------------------------------------------------------------------
(* The start of the program.  Without a broker it exits. *)

Connect ==
  /\ pc = "connect"
  /\ \/ /\ \E fd \in Lowest(UnusedFDs) : owner' = [owner EXCEPT ![fd] = Broker]
        /\ Jump("devices")
     \/ UNCHANGED owner /\ Jump("exit")
  /\ UNCHANGED <<device, array, misuse, probevars, factory, busvars>>

FindDevices ==
  /\ pc = "devices"
  /\ DiscoverDevices
  /\ Jump(IF array' = <<>> THEN "free" ELSE "open")
  /\ UNCHANGED <<probevars, factory, busvars>>

ReadersFound ==
  /\ pc = "open" /\ ix > Len(array)
  /\ Jump("select")
  /\ UNCHANGED <<devvars, probevars, factory, busvars>>

Discover == DiscoverNext /\ UNCHANGED <<factory, busvars>>

-----------------------------------------------------------------------------
(* CallSelectTags: the topic is that of the reader, then its loop runs.    *)

Rid(r) == IF r.version = -1 THEN 0 ELSE r.node

FirstTopic(r) == IF topic = 0 THEN Rid(r) ELSE topic  \* mutant: the topic is set once

TopicOf(r) == Rid(r)

SelectTags ==
  /\ pc = "select" /\ ix <= Len(readers)
  /\ topic' = TopicOf(readers[ix])
  /\ pc' = "loop"
  /\ UNCHANGED <<devvars, ix, probevars, factory, outbox, taken, seen>>

(* The results of publishMessage and waitForCompletion are not looked at:  *)
(* without a connection the tag is lost, and the loop goes on whether or   *)
(* not the broker took the message in time.                                *)
TagFound ==
  /\ pc = "loop" /\ readers[ix].version # -1 /\ Len(seen) < MaxTags
  /\ seen' = Append(seen, [topic |-> readers[ix].node, tag |-> Len(seen) + 1])
  /\ outbox' = IF Connected
               THEN Append(outbox, [topic |-> topic, tag |-> Len(seen) + 1]) ELSE outbox
  /\ UNCHANGED <<devvars, pc, ix, probevars, factory, topic, taken>>

(* isStop is never set: the loop ends when the engine gives up, or when    *)
(* the tag object of a tag could not be created, which goes unpublished.   *)
LoopEnds ==
  /\ pc = "loop"
  /\ pc' = "select" /\ ix' = ix + 1
  /\ UNCHANGED <<devvars, probevars, factory, busvars>>

BrokerTakes ==
  /\ outbox # <<>> /\ Connected
  /\ taken' = Append(taken, Head(outbox))
  /\ outbox' = Tail(outbox)
  /\ UNCHANGED <<discvars, factory, topic, seen>>

(* Nothing connects again. *)
ConnectionLost ==
  /\ pc = "loop" /\ Connected
  /\ owner' = [f \in DOMAIN owner |-> IF owner[f] = Broker THEN Unused ELSE owner[f]]
  /\ outbox' = <<>>
  /\ UNCHANGED <<device, array, misuse, pc, ix, probevars, factory, topic, taken, seen>>

-----------------------------------------------------------------------------
(* The end of the program *)

LoopsDone ==
  /\ pc = "select" /\ ix > Len(readers)
  /\ Jump("free")
  /\ UNCHANGED <<devvars, probevars, factory, busvars>>

FreeDevices ==
  /\ pc = "free" /\ factory <= Len(Factories)
  /\ IF ix <= Len(array)
     THEN FreeSlot(Factories[factory], ix) /\ ix' = ix + 1 /\ UNCHANGED factory
     ELSE ix' = 1 /\ factory' = factory + 1 /\ UNCHANGED devvars
  /\ UNCHANGED <<pc, probevars, busvars>>

(* FreeReader frees the structure of the reader and nothing it points to. *)
FreeReaders ==
  /\ pc = "free" /\ factory > Len(Factories)
  /\ Jump("disconnect")
  /\ readers' = <<>>
  /\ UNCHANGED <<devvars, sits, baud, tries, ver, more, line, coming, trouble, factory, busvars>>

Disconnect ==
  /\ pc = "disconnect"
  /\ Jump("exit")
  /\ owner' = [f \in DOMAIN owner |-> IF owner[f] = Broker THEN Unused ELSE owner[f]]
  /\ UNCHANGED <<device, array, misuse, probevars, factory, busvars>>

Host ==
  \/ Connect \/ FindDevices \/ Discover \/ ReadersFound
  \/ SelectTags \/ LoopsDone \/ FreeDevices \/ FreeReaders \/ Disconnect

Next == Host \/ TagFound \/ LoopEnds \/ BrokerTakes \/ ConnectionLost

(* Every step of the program and of the line but those inside a loop comes *)
(* to pass; no tag need come, no loop need end.                            *)
Spec == Init /\ [][Next]_vars /\ WF_vars(Host)

-----------------------------------------------------------------------------
(* Properties *)

(* Every variable holds what the program can put there. *)
TypeOK ==
  /\ DiscoveryTypeOK
  /\ pc \in {"connect", "devices", "open", "settings", "write", "head", "rest", "create",
             "select", "loop", "free", "disconnect", "exit"}
  /\ ix \in 1..Len(Nodes) + 1 /\ factory \in 1..Len(Factories) + 1
  /\ topic \in {0} \cup NodeIds
  /\ {outbox, taken, seen} \subseteq Seq(Message)

(* Close and Free of a device (SerialDevice.c:600, 739) close descriptors  *)
(* that device opened, and no one else's: the exceptions are descriptor 0, *)
(* which a device closes that is not open, and the number a failed Open of *)
(* an spi or i2c node left behind (SerialDevice.c:390).                    *)
ClosesOwn ==
  \A m \in misuse :
    m.what = "close" => m.fd = 0 \/ (Nodes[m.node] = "bus" /\ m.node \in trouble)

(* The two factories that go over one array (DeviceFactory.c:87) free each *)
(* device once and look at none that is freed; when the program disconnects*)
(* all that was discovered is freed and every descriptor given back, also  *)
(* those of a device whose Open failed half way.                           *)
NeverTouched == \A m \in misuse : m.what # "touch"

AllGivenBack ==
  pc = "disconnect" =>
    /\ \A i \in NodeIds : device[i].state # "made"
    /\ \A f \in DOMAIN owner : owner[f] \notin NodeIds

FreedOnce == NeverTouched /\ AllGivenBack

VersionOf(kind) ==
  CASE kind = "v2" -> {2} [] kind = "v3" -> {3} [] kind = "boot" -> {-1} [] OTHER -> {}

(* The guess of GetReaderVersion (SkyeTekReaderFactory.c:75-168) is right: *)
(* a reader that is found has the version of what sits there, its device   *)
(* stays open on descriptors of its own, and when a loop starts every      *)
(* reader whose device was found, and with which nothing went wrong, is    *)
(* among the readers found.                                                *)
DiscoveryRight ==
  /\ \A k \in DOMAIN readers :
       LET r == readers[k]
       IN  /\ r.node \notin trouble => r.version \in VersionOf(sits[r.node].kind)
           /\ pc \in {"select", "loop"} => device[r.node].readFD \in {1} \cup
                {f \in DOMAIN owner : owner[f] = r.node}
  /\ pc = "select" =>
       \A i \in NodeIds :
         device[i].state = "made" /\ i \notin trouble /\ VersionOf(sits[i].kind) # {}
           => \E k \in DOMAIN readers : readers[k].node = i

(* The broker takes the tags in the order the readers saw them, each at    *)
(* most once, under the topic of the reader that saw it (main.cpp:49, 64), *)
(* and while the connection stands none of them is missing.                *)
BrokerGets ==
  IF Connected THEN taken \o outbox = seen
               ELSE Len(taken) <= Len(seen) /\ taken = SubSeq(seen, 1, Len(taken))

(* Whatever sits on the ports, and whatever goes wrong with it, discovery  *)
(* comes to an end (SkyeTekReaderFactory.c:443-449, 496-536): the program  *)
(* exits, or it stays in the select loop of a reader for good.             *)
BridgeEnds == <>(pc = "exit") \/ <>[](pc = "loop")
=============================================================================
