# Verification of skyetek-mqtt

skyetek-mqtt is a bridge from SkyeTek RFID readers to an MQTT broker: it finds
the readers on the USB and serial ports of the host, runs a select loop on one
after the other and publishes the ID of every tag the reader reports.  `src/main.cpp`
is the bridge itself; `src/SkyeTekAPI` is the C library it stands on.  This
directory holds TLA+ models of that code, the TLC configurations that check them
and proofs checked by TLAPS.

The models follow the Linux build (`LINUX`, `HAVE_PTHREAD`, `HAVE_LIBUSB`, see
`src/CMakeLists.txt`).  `PROJECT.json` lists, per definition, the source lines it
stands for, and per hazard the line where it bites and the properties that
cover it.

## 1. The system

```
 main.cpp ── MQTT broker                      one thread, one select loop at a time
    │
 SkyeTekAPI.c                                 parameter checks, dispatch
    │
 Reader/  SkyeTekReader, SkyeTekReaderFactory discovery, system parameters, tag objects
    │                     Tag/                tag commands, through the reader's protocol
 Protocol/  STPv3, STPv2, CRC, asn1, utils    request/response engine
    │
 Device/  USBDevice, SerialDevice, SPIDevice  byte streams, and their factories
```

Every layer calls the next through a table of functions kept in the `internal`
field of a device, reader, protocol or tag.  Calls are synchronous; the only
callbacks are the select-loop callback (protocol → reader → application) and the
progress callback of the firmware upload.  The only locks are the two mutexes of
the USB device.

| Component | State it keeps | Operations | What is hard | What makes it correct |
|---|---|---|---|---|
| **Protocol engine STPv3** (`Protocol/STPv3.c`) | none between calls: what remains of a call is on the line and in the reader | build and write a request, read and match responses, the Send family, SelectTags/StopSelectLoop, GetTags(WithMask), StoreKey, ScanPayments | frames carry no sequence number and are matched by code; time limits, retries after LOOP_OFF, a loop mode that outlives an error | one call's answer is never another call's, commands are not carried out twice, success means carried out, calls return, nothing is left on the line |
| **Firmware upload** (same file) | the file position, counters of retries | `sendBLCommand`, `STPV3_UploadFirmware` | whole commands are repeated, acknowledgements are matched by code, the upload may be cancelled half way | the blocks arrive complete and in order |
| **USB device** (`Device/USBDevice.c`) | send and receive buffer with read/write pointers, two mutexes | Write, Read, Flush, Open, Close, Free, SetAdditionalTimeout | threads; a flush without the lock; a write inside a read; transfers cut at 63 bytes; failing transfers | bytes are neither lost, repeated nor reordered; a request leaves before its answer is awaited; no call blocks for ever |
| **Serial device** (`Device/SerialDevice.c`) | two file descriptors, port settings | Open, Close, SetOptions, Read (poll), Write | partial failure of Open, descriptors 0 and -1, short reads | a descriptor in use is open and belongs to the device |
| **Device factories** (`Device/*Factory.c`) | the arrays they hand out | Discover, Create, Free | ownership of devices and arrays | each device is freed once, and not before its readers stop using it |
| **Reader factory** (`Reader/SkyeTekReaderFactory.c`) | – | probe for the protocol version over devices and baud rates, GetReader, Discover, Free | an answer of up to 60 bytes has to be told apart from leftovers; a reader in bootloader mode | a device is left open exactly when a reader was found on it |
| **Reader** (`Reader/SkyeTekReader.c`) | the reader's ID and options | tag selection, system parameters, tag arrays | the callback that cannot create a tag object | the callback's answer reaches the protocol |
| **MQTT bridge** (`main.cpp`) | `isStop`, the client, the topic | connect, discover, one select loop per reader in turn, publish per tag | publication waits up to 5 s inside the select callback | a tag logged as delivered was delivered; every reader is served |
| **Protocol engine STPv2** (`Protocol/STPv2.c`) | none | as STPv3 | as STPv3; stopping a loop reads one response only | as STPv3 |
| **API dispatch** (`SkyeTekAPI.c`) | the debugger hook | ~100 functions: parameter checks and one call | – | parameters are checked before use; a call reaches the command it stands for |
| **Tags** (`Tag/*.c`) | tag ID, DESFire session key | read/write/lock, keys, DESFire files | authentication state over several commands | the card reads what the caller asked for, the caller reads what the card said |
| **CRC, ASN.1, utilities** | none | pure functions | boundaries | they compute their definitions |
| **SPI device, Aardvark driver** | – | Windows only | – | – |

How the components interact, where it matters for the models:

* The protocol engine calls `Write`, `Flush` and `Read` of the device: on USB a
  request leaves the host when the buffer is full or at the `Flush` inside the
  next `Read` (`USBDevice.c:548`).
* `SelectTags` calls the reader's callback with a tag, or with nothing after two
  seconds of silence; the callback creates a tag object and calls the
  application; `0` from either stops the loop through `StopSelectLoop`, which
  sends a second request while the reader still sends frames.
* `DiscoverReaders` opens devices and leaves those open on which it found a
  reader; the devices are owned by the application, which frees them.

The hard behaviours are the interleavings of host, line and reader (frames that
are late, lost or damaged, and a host that recognises them by their code alone),
the reader's loop mode that survives a failed call, the threads of the USB
device, and partial failures in discovery and in the firmware upload.

## 2. The modules

| Module | Stands for | Status |
|---|---|---|
| `STPv3` | the protocol engine with line and reader | done |
| `ReaderService`, `STPv3Refinement` | what the engine promises, and the mapping | done |
| `MCSTPv3` | constant values for TLC | done |
| `STPv3_proofs`, `STPv3Calls_proofs` | theorems about `STPv3`: types and answers; what a call does and leaves behind, and that `STPv3` implements `ReaderService` | done |
| `USBDevice`, `MCUSBDevice`, `USBDevice_proofs` | the buffered USB device between threads, and theorems | done |
| `FirmwareUpload`, `FirmwareUpload_proofs` | bootloader commands and the upload, and theorems | done |
| `Asn1`, `TagCodec`, `TagCodec_proofs` | the encoder and decoder of the tag data, and functions as what they write and read; theorem about the encoder | done |
| `TagGrammar` | what a card understands and answers (external) | done |
| `DesfireTag`, `GenericTag` | the functions of the tag modules | done |
| `Dispatch` | from a call of the API to the command of the protocol | done |
| `STPv2` | the version 2 engine with line and reader | done |
| `TagCalls`, `MCTagCalls` | an application over all of these | done |
| `Devices` | factories, Open, Close, Free and the descriptors | done |
| `ReaderDiscovery` | the version probe and the discovery of readers | done |
| `MqttBridge`, `MCMqttBridge` | `main.cpp`, over `ReaderDiscovery` and `Devices` | done |
| `MqttBridge_proofs` | theorems about the program and its devices | done |
| `STPv2_proofs`, `TagCalls_proofs` | facts about the version 2 engine, and the theorems about the calls | done |
| `WriteRequest` | byte counting of WriteRequest and of the body of a response, with devices that return -1 | planned (1) |
| `CRC` | crc_16 against polynomial division, bounded inputs | planned (2) |

`TagCalls` extends `Dispatch` (which extends `DesfireTag` and `GenericTag`, and
these `TagCodec` and `Asn1`), `TagGrammar` and `STPv2`; `MqttBridge` extends
`ReaderDiscovery`, which extends `Devices`.

### STPv3

One host thread makes API calls one after the other.  The variables of the host
are its place in the code (`pc`), the call (`api`), the request last built
(`req`), the counter of `ReadResponse` (`count`), the response at hand (`resp`)
and the result (`ret`).  The line is two sequences: `wire` carries requests to
the reader, `line` frames back.  `mode` is the reader's: idle, in a select loop,
or in an inventory.  `executed` and `accepted` are histories for the properties;
no host action reads them, nor the request that a frame carries along.

| Action | Code |
|---|---|
| `Call` | an application enters one of the API functions; the ~50 command wrappers differ only in the Send function they use and are grouped by it (`ApiCall`) |
| `WriteRequest` | `STPV3_BuildRequest` and `STPV3_WriteRequest`; the result is success whether or not the bytes went out, because an unsigned variable is compared with 0 (line 315) |
| `ReadFrame`, `ReadTimeout` | `STPV3_ReadResponse` around `STPV3_ReadResponseImpl`: `Parse` gives status and code for each kind of frame, `RestOfLine` what stays on the line, `Matches` and `Respond` decide whether the response is returned or skipped |
| `HandleSend` | the tail shared by `SendCommand`, `SendGetCommand` and their variants |
| `HandleSelect`, `Callback`, `HandleStop` | `STPV3_SelectTags`, the callback through `SkyeTekReader_SelectTagsCallback`, `STPV3_StopSelectLoop` |
| `HandleGetTags` | `STPV3_GetTags`, `STPV3_GetTagsWithMask` |
| `ReaderEndLoop`, `ReaderExecute`, `ReaderSelect`, `ReaderFind`, `ReaderInventoryDone` | external: the reader as the host code expects it |

A frame is `ok`, `badcrc` (damaged behind its header: the code is read before
the CRC is verified, so `Parse` allows any code that a damaged field can hold, up
to what the host tells apart; a damaged length within the frame is noticed when it
exceeds what was read, lines 523-527, a protocol error, or else by the CRC),
`split` (a Read's time limit passes in the middle: the tail stays behind) or `junk`
(bytes that do not begin with a header; three of them are consumed per read, so junk
may stay or swallow the next header, and when fewer than three are left the read
ends with its time limit, lines 450-454).  A damaged header makes the whole frame
`junk`.

### ReaderService

What a caller may rely on: one call at a time; a command is carried out at most
once per call, only while the call lasts, and exactly once if the call reports
success; no success is promised for a write that `SendSetTagCommand` or `SendCommand`
sends (`WriteAFI`, `WriteDSFID`, `ChangeKey` and others), because these take the
`INVENTORY_DONE` of a refused write for success where `SendAddrSetTagCommand` does not
(`Unchecked`; `STPv3.c:856`, `1279` and `1496`); the reader searches for tags only
while a select call lasts.
`STPv3Refinement` maps the engine to it; the property `ImplementsService` holds
where the line keeps the engine's assumptions (runs `stp_clean`, `stp_corrupt`).
It does not hold on any line: after an error a loop keeps running, and an answer
that comes after its time limit is taken by the next call of the same command.

### USBDevice

`th` holds for each thread its place in the code and the locals of `Write`,
`internalFlush` and `Read`; `sendBuf`/`sendPtr` and `recvBuf` are the buffers,
`outPipe`/`inPipe` the two directions of the USB pipe, in numbered bytes.  Each
access to a shared variable that another thread may change in between is an
action: in `Write` the space left is computed (`StartCopy`), the bytes are copied
(`WriteCopy`) and the pointer is advanced (`WriteAdvance`), each of them reading
`sendBufferWritePtr` anew or using the value read before (a data race: both are
possible).  `internalFlush` copies, transfers and resets in three steps and is
called with the mutex (`Flush`), inside `Write`'s critical section, and without
it from `Read`.  A failed `usb_interrupt_read` writes three zero bytes and calls
`USBDevice_Flush` without its argument, in the model either the device or NULL.

`raced` remembers that the unprotected flush of a `Read` overlapped another
thread's use of the buffer.  From then on the order of the output is nobody's
promise, and `OutputInOrder` and `NothingHeldBack` say nothing; the bounds of the
buffer and the input stream are checked all the same.

### FirmwareUpload

The program of an upload is a sequence of numbered commands: three to prepare the
bootloader, one per data block, one per default parameter, the reset.  An answer
carries the command's code only, which all blocks share.

| Action | Code |
|---|---|
| `Begin` | the checks of the file and the reading of its header, with the first four calls of the callback |
| `Load` | the data of the next command are read from the file |
| `SendCommand` | `sendBLCommand` from its label `sendcommand`: write, flush |
| `ReadTimeout`, `ReadAnswer` | from its label `readresponse`: `ShortHeader` repeats the read of the two header bytes and in the end returns their number, `Retry` repeats the command, `Accepted` and `Failed` are what the callers make of the result |
| `Callback` | the callback after a command, and what follows in the program (`NextCommand`: without data the blocks and their setup are skipped) |
| `Execute`, `Reject` | external: the bootloader carries out and acknowledges a whole command, and rejects a damaged one |

`done`, `last`, `sends` and `inStep` are histories: the commands that the reader
carried out, the last of them, how often the command in progress was written, and
whether all answers so far came in one piece, in time and with a right length.  The
host reads as many octets as the second octet of the header says before it verifies
the CRC (`STPv3.c:787-791`).  An answer damaged behind its length (`badcrc`) is
therefore taken off the line as a whole; one whose length is damaged (fault `length`),
or that a time limit cut in two (`split`), becomes `junk`: octets whose first two are
taken for a header, again and again up to `MaxJunk` times (`Misread`: the read ends in
the junk or anywhere in the answers behind it).  A length of zero passes the CRC, which
is 0 for no octets, and the code that is compared is then the one an earlier answer
left in the buffer (`held`, `MisreadEmpty`; line 801).

### Asn1, TagCodec, TagGrammar, DesfireTag, GenericTag

A function of a tag module encodes its arguments, calls the protocol once and
decodes the answer.  In `TagCodec` it is a record: the command, the condition under
which the arguments are refused, the size of the buffer, the steps that write and
the steps that read.  A step is one call of `asn1.c`, which `Asn1` models on a
context of octets and a position with its failures: an element that does not fit,
a tag that is not the expected one, and the octets a failing call has consumed.
`DesfireTag` and `GenericTag` give the record of every function for a call `c`.
The numbers of a call are unsigned in the API (`SkyeTekAPI.h:554`), so the `int64`
they are written from holds them unchanged.  A number that was read is cast to the
type of the caller's variable (`DesfireTag.c:893-897`, `1425`): `Unsigned` takes it
modulo 2^8, 2^16 or 2^32, the last as two halves because TLC's integers have 32 bits.
A card that says -1 is reported as 2^32 - 1.

`TagGrammar` is the other end, written from the comments that give the grammar of
each command and not from the code below them: the elements a card expects for a
call, and the elements of a reply with given values.

### Dispatch and TagCalls

`Dispatch` says for a call which checks of `SkyeTekAPI.c` it has to pass, which
implementation `TagFactory.c` chose for the tag, whether that implementation has
the function, and which wrapper of the protocol it ends in, with what that one
sends (address, data, the tag's ID or its session).  `TagCalls` runs calls: `Begin`
and `Refuse` for the checks, `Prepare` up to the protocol, `Exchange` and
`CardAnswers` for version 3 (the outcomes that `STPv3` allows, in one step), the
steps of `STPv2` for version 2, `Return_` for the reading half.

### STPv2

Built like `STPv3`, with the same kinds of frames.  What differs is in the code:
codes of one octet whose bit 7 marks a failure, an inventory that ends with
`SELECT_TAG_FAIL`, a request sent again after a negative answer only, and
`StopSelectLoop`, which sends its request and reads one response (`STPv2.c:1199`),
so that tags that were on the line and the answer to the stop are met by the next
call.

### Devices

`owner` gives the owner of every descriptor of the process: the program, the
connection to the broker, a device, or no one.  `device` has the two descriptor
fields of each device as the code leaves them: 0 after `Close`, -1 after a failed
`open()`, the number of a closed descriptor after a half-failed one, 1 for USB.
`Close` closes whatever number it finds, and `misuse` remembers when it was
someone else's, or when a freed device was looked at.

### ReaderDiscovery

What sits at a node is a reader of version 2 or 3, one in bootload mode, a device
that echoes, or nothing, at one of the settings; a reader may still be in the
select loop of an earlier run of the program.  `line` and `coming` are the octets
that can be read and those that are on their way, so that a time limit or a short
read falls between any two of them.

| Action | Code |
|---|---|
| `OpenDevice`, `SetOptions` | the loop of `SkyetekReaderFactory_DiscoverReaders` over devices and settings; the flush of a serial line discards `line`, not `coming` |
| `WriteProbe`, `WriteFails`, `ReadHead`, `ReadRest` | `GetReaderVersion`; `Verdict` is the chain of its comparisons |
| `Reopen` | the second try of a USB device in `CreateReader`: what was read stays in the buffer |
| `MakesReader`, `NoReader` | `GetReader`, `GetBootloadReader`; the next setting, or `Close` and the next device |
| `Arrive` | external: octets arrive, on a serial line in any portions |

### MqttBridge

`pc` follows `main`: connect, devices, the steps of `ReaderDiscovery`, `select` and
`loop` for one reader after the other, `free`, `disconnect`, `exit`.  The select loop
is reduced to the tags it reports (`TagFound`) and its end (`LoopEnds`); what happens
inside it is the subject of `STPv3` and `STPv2`.  `outbox` holds the messages that
`MQTTClient_publishMessage` accepted; the broker takes them at any time, also after
the 5 s that `waitForCompletion` waits, since its result is ignored.  The connection
may be lost and is not made again.

## 3. The runs

| Run | Question | States | Result |
|---|---|---|---|
| `stp_clean` | is the engine a `ReaderService` on a good line, and is everything quiet between calls? | 13 000 | holds |
| `stp_corrupt` | ... with lost and damaged requests and answers, one frame per request? | 49 000 | holds |
| `stp_lossy` | what survives every fault of the line, with every function? | 1 050 000 | no command runs twice unless a loop was run, data handed out were sent for a command that was carried out, the bound on requests |
| `stp_live` | does every call return, with answers lost, late, cut in two or damaged, their headers included? | 350 000 | yes, if requests are not lost |
| `stp_success_data` | does success of a Get call mean that there is data? | – | no: a finding |
| `stp_stop_lost` | does SelectTags return after its callback returned 0? | – | not if the stop request is lost: a finding |
| `usb_threads` | two threads, every operation, failing reads: what do they keep in order, and is there a deadlock between the mutexes? | 170 000 | bytes stay in order in both directions, requests leave before answers are awaited, every call returns |
| `usb_dropped` | does a byte that Write reported as written reach the reader? | – | not if the transfer fails: a finding |
| `fw_upload` | does an upload keep its order and its tries, leave nothing out and end, whatever happens on the line? | 270 000 | order, tries and end: yes; completeness: until an answer is late, split or of a wrong length |
| `tag_calls` | every function of the API: is the command what the caller asked for, is the result what the card said? Two calls over version 2 on good and bad lines: are commands carried out once, answers kept apart, do calls return? | 150 000 | yes; answers are kept apart unless a loop was stopped or the line failed |
| `bridge` | the program from start to exit: are the right readers found, does everyone close what he opened, what does the broker get? | 690 000 | holds, with the exceptions named in the properties |
| `fw_unwritten` | does the callback mean that a block was written? | – | not after a late answer: a finding |

Each property has a mutant in the module it is about (an operator marked
*mutant*): the form the code would have with a plausible mistake.  With it the
property fails under the same configuration, so each property is able to fail.

**Bounds.**  `MaxCalls` is 2 or 3: a hazard of this protocol is one call tripping
over what an earlier one left, and three calls give "earlier, disturbed, later".
`MaxCount` has the code's value 10.  `LineMax` 2 or 3 frames is enough for a stale
frame in front of the right one and one behind it; a reader that has no room
waits.  One or two command codes suffice: codes are only compared for equality,
a stale answer of the same or of another command are the two cases.
For the USB device `BufSize` is 3 instead of 63 with calls of 2 bytes and a third
call of 3 (the zeros): calls end before, at and behind the end of the buffer, and
one call may need two transfers; three calls of two threads give every pair of
operations that race and a third that meets the result.  For the upload two
blocks and a parameter are the least with which a repeated block can be taken for
another one; `MaxTries` 1 and `MaxReads` 1 (4 and 5 in the code) with three faults let
each counter reach its limit; `MaxJunk` 1 lets the octets behind a wrong length be taken
for a header once; two uploads let the second meet answers to the
first.  `fw_unwritten` has the values of the code.  For `tag_calls` the numbers are those at which an encoding
changes its length (127, 128, 255, 256, 32768, 2^23, 2^31 - 1; above that TLC has no
integers), in replies -1, -128 and -129 too, and the data those that
just fit the buffer of 1024 octets and just do not; one call of version 3, because
the tag modules keep nothing between calls, two of version 2, because the line does.
Its lines are four sets of faults: none, losses, damage, and frames cut by a time
limit.  For `bridge` two settings stand for five (the right one may be the first or
the last), and three nodes for the ports: one of each kind, a USB reader in front of
a serial one so that a second device meets what the first left behind; three tags
let two readers see some and one be in flight when the connection is lost.  All runs
stop when `MaxCalls` or `MaxUploads` is reached or the program exits, hence `CHECK_DEADLOCK FALSE`; that calls, uploads
and the program come to their end is what `stp_live`, `usb_threads`, `fw_upload`,
`tag_calls` and `bridge` check.

**Fairness.**  In `STPv3`: the host thread proceeds (weak fairness of writing,
reading and handling), because every device Read has a time limit; the reader
takes its input and ends an inventory under strong fairness, because both are
disabled again and again while it reports tags into a full line but the firmware
polls its input between tags.  No fairness for the callback's answer, for calls,
or for finding tags.  In `USBDevice`: every thread inside a call proceeds (weak
fairness); a mutex is handed to a waiting thread when it is free.  In
`FirmwareUpload`: the host proceeds, because its Reads have time limits and the
callback returns (weak fairness), and the bootloader takes what arrives (weak
fairness); uploads need not begin.  In `TagCalls`: as in `STPv3`, for version 2.  In
`MqttBridge`: the program proceeds outside of the select loop, where each of its
Reads has a time limit (weak fairness of `Host`); no tag need come, no loop need
end, the broker need not take anything.

## 4. Findings

* **Success without data** (`stp_success_data`).  The status table maps
  `INVENTORY_DONE` to success (`STPv3.h:598`).  `SendGetCommand` and its variants return the
  table's status for each code that is not the command's own, so a left-over
  `INVENTORY_DONE` makes a Get call return success with `*lpData` untouched, while
  `SkyeTekAPI.h:960` documents "Data to receive; buffer is allocated".
* **A select loop that cannot be stopped** (`stp_stop_lost`).  `StopSelectLoop`
  reads until `LOOP_OFF` and does not repeat its request (`STPv3.c:1615-1621`).
  If the request is lost while tags keep arriving, `SelectTags` does not return
  although the callback returned 0; `SkyeTekAPI.h:836` says that the callback's
  return value determines when the call completes.
* **Bytes reported as written but dropped** (`usb_dropped`).  `internalFlush`
  ignores a failed transfer and resets the buffer (`USBDevice.c:249-256`);
  `Device.h:55` says that Write "returns the number of bytes written".
* **A block reported as written that was not** (`fw_unwritten`).  An upload gives up
  when an answer is late (`STPv3.c:780-788`) and leaves that answer on the line.
  The next upload takes it for its own: from then on each command meets the answer
  to the one before, does not recognise its code (`STPv3.c:801`) and is sent twice.
  All `WRITE_DATA` commands have the same code, so the second answer to a block
  acknowledges the next block before the reader got it: the callback is called,
  and if that block is lost the upload goes on without it.  `SkyeTekAPI.h:645`:
  "Called everytime a block is successfully written."  An answer with a damaged
  length can get the line out of step in the same way.

Things met while modelling that contradict no statement of the repository, and are
therefore no findings but exceptions of the properties:

* A serial device that is not open has 0 in both descriptor fields, and `Close`
  closes it (`SerialDevice.c:607`): freeing the devices on which no reader was found
  closes the standard input, or, when the program was started without one, the
  connection to the broker before `MQTTClient_disconnect` (exception in `ClosesOwn`).
* A reader left in its select loop by an earlier run answers the probe with frames of
  the loop and is not found on a serial port: the next try is made at another
  setting.  `isStop` is never set, so this is how every run that is killed ends.
* A tag is logged as delivered whatever `waitForCompletion` returned (`main.cpp:51-55`),
  and once the connection is lost every tag is.
* A write that the reader refuses with `INVENTORY_DONE` is a success for all Send functions
  but `SendAddrSetTagCommand` (`STPv3.c:1496`): `WriteAFI` and `WriteDSFID` may report
  success for a write that was not done (the kind `unchecked` of `ReaderService`).
* Version 2: a successful response of a foreign code lets `GetTags` free its lists and
  return success, and its caller frees them again (`STPv2.c:1373`, `SkyeTekReader.c:126`);
  it takes a stopped loop or a failing line to get there (exception in `FreedOnce`).
* With two USB readers plugged in, `*lpDevices[(deviceCount - 1)]` writes behind the
  array (`USBDeviceFactory.c:190`), and `Open` would open the first one for both
  devices (`USBDevice.c:401`); `Devices` therefore has at most one.
* `GetApplicationIDs` counts for ever when a later ID is longer than the first
  (`DesfireTag.c:107`: a read that fails leaves the position where `peek` sees the same
  element); the replies of `tag_calls` have IDs of equal length.
* A version 2 frame of more than 255 octets has the wrong length octet (`STPv2.c:186`),
  and version 2 sends the low octet of address and number of blocks (`STPv2.c:1057`).

## 5. The proofs

TLAPS checks every theorem below for all values of the constants that satisfy the
`ASSUME`s of the modules; where a theorem needs more, the condition is part of its
statement.  A run checks each property on a small instance first, and the inductive
invariants were checked with TLC before they were proved.

### STPv3

`STPv3_proofs` and `STPv3Calls_proofs` hold for all sets of commands and calls, limits,
line capacities and sets of faults that satisfy `STPv3Assumption`:

| Theorem | Statement |
|---|---|
| `TypeCorrect` | `Spec => []TypeOK`; in particular the counter of `ReadResponse` never exceeds its limit |
| `AnswersWereExecuted` | `Spec => []AnswerWasExecuted`: a call only hands out answers to requests of its command that the reader carried out |
| `CarriedOutOnce` | `Spec => []AtMostOnce`: until a loop is run, one execution per call, on any line |
| `ResendsAreBounded` | `Spec => []ResendsBounded`: at most three requests per call, on any line |
| `QuietBetweenCalls` | `Tame => (Spec => []QuietWhenIdle)` |
| `TagsAreOwn` | `Tame => (Spec => []OwnTags)` |
| `SuccessBringsData` | `Tame => (Spec => []SuccessHasData)` |
| `DataIsOwn` | `Tame => (Spec => []OwnData)`: the answer a call takes was sent for a request of this very call |
| `EngineIsService` | `Tame => (Spec => ImplementsService)` |

`AnswerWasExecuted` speaks of answers that were taken; its inductive form `AnswerInv`
says the same of those on the line (`LineInv`) and at hand (`RespInv`): a frame with the
code of an answer was sent for a request of that command, which was carried out, and
however `ReadResponseImpl` takes a frame apart, no code but the frame's own comes out of
it with success (`ParseShape`).

`AtMostOnce` rests on `OnceInv`: a request is sent again only after a `LOOP_OFF`, and
until a loop is run there is none on the line, at hand or in the reader; so the
requests of commands, on the wire and carried out, are of different calls, and a
call that is about to write has none.  For `ResendsBounded` the invariant is a budget
(`WriteBudget`): requests written, loop requests on the wire, `LOOP_OFF` frames on the
line and at hand, the loop in the reader, and what the call may still write, together
at most three per call; each step moves a unit from one of these to the next or
drops it.  The other theorems hold for a line that is `Tame`: it may lose or damage
requests and answers, but only if each request has one answer, that is if no call uses
a loop or an inventory; with loops or inventories it has no faults, and `SelectTags` is
called with the automatic tag type, so that the request that stops it is one the
reader takes.  These are the conditions under which the code keeps its promise, and
the configurations of `stp_clean` and `stp_corrupt` meet them; the runs
`stp_success_data` and `stp_stop_lost` show what happens without them.  `CallInv`
describes what of a call can be where: the request at hand is the last one of the call
(`OwnRequest`), at most one frame or request is under way for a command (`SingleInv`),
and for a loop or an inventory all frames are its own and end with the frame that ends
it (`MultiInv`).  The refinement maps every step to one of `ReaderService` or to a
stutter; `EffectInv` (what was carried out for the call in progress) supplies what its
`End` needs.  A write that takes `INVENTORY_DONE` for success (`Unchecked`) is of a kind
of its own there: it is carried out at most once and only while its call lasts, but its
success does not mean that it was.

### USBDevice

`USBDevice_proofs`, for any number of threads and calls, any size of the buffer and any
lengths:

| Theorem | Statement |
|---|---|
| `TypeCorrect` | `Spec => []TypeOK`; the write pointer stays in the buffer |
| `ReadInOrder` | `Spec => []InputInOrder` |
| `WriteInOrder` | `"write" \notin Faults` gives `Spec => []OutputInOrder` |
| `RequestLeaves` | `"write" \notin Faults` gives `Spec => []NothingHeldBack` |

For the types one has to know that a copy in progress fits at the pointer it read
and at the one the buffer has now, to which a Read of another thread may have moved
it (`CopyFits`).  `ReadInv`: the bytes delivered, held by the thread that has the
receive mutex, in the buffer and in the pipe are those the reader produced, in this
order.  `WriteInv` says the same of the output while at most one thread uses the send
buffer: what has left and what this thread has still to send or to add (`Pending`), by
its place in the code, are the bytes written.  The condition on `Faults` is needed:
`usb_dropped` shows that a failed transfer loses bytes.

### FirmwareUpload

`FirmwareUpload_proofs` proves, for any number of blocks, parameters, repetitions,
uploads and faults:

| Theorem | Statement |
|---|---|
| `TypeCorrect` | `Spec => []TypeOK`; both counters of `sendBLCommand` stay within their limits |
| `NeverGoesBack` | `Spec => NeverBack`: the reader never carries out a command from before the last one it carried out |
| `WithoutGaps` | `Spec => []NoGaps` |
| `SuccessIsComplete` | `Spec => []SuccessMeansWritten` |
| `CallbackIsRight` | `Spec => [](inStep => CallbackMeansWritten)` |
| `WritesAreBounded` | `Spec => []SendsBounded`: each command is written at most `MaxTries + 1` times |

`NeverBack` follows from `OrderInv`: what was carried out, what is on the wire and
the command in progress form an ascending sequence; the host appends the command
in progress, the reader takes the first, and `Following` only goes forwards.  For
type correctness alone one has to know that the callback is never called for the
last command (`TypeInv`).  The next three theorems rest on `UploadInv`: until an answer
is late, split or of a wrong length the host has at most one command or answer on its
way, it belongs to the command in progress (`LineInv`), and every command of the program
before it was carried out (`DoneInv`).  So they hold for any number of commands lost or
damaged and of answers lost or damaged behind their length; `NoGaps` and
`SuccessMeansWritten` carry the condition `inStep` themselves.  What brings the line out
of step is never forgotten, so that each step may assume that it was in step so far;
`fw_unwritten` shows that the condition is needed.  `SendsBounded` follows from
`SendsInv`: before a command is written it was written as often as it was repeated, and
then once more, and `totalCount` is 0 again when the next command is loaded.

### The calls

`STPv2_proofs` holds the lemmas about the engine, for any calls of the protocol that the
functions of `STPv2.c` make (`GoodCall`); `TagCalls_proofs` shows that the calls of the
API are of that kind and draws the theorems, for any jobs, limits and lines;
`TagCodec_proofs` is about the encoder:

| Theorem | Statement |
|---|---|
| `EncodeMeans` | for any steps and a buffer of any size below 2^16: a reader of the grammar takes the octets written apart into just what the steps said, or the size is negative |
| `TypeCorrect` | `Spec => []TypeOK`, for both versions |
| `V2CarriedOutOnce` | `Spec => []V2AtMostOnce` |
| `V2AnswersAreOwn` | `Spec => []V2OwnAnswers` |
| `V2SuccessWasDone` | `Spec => []V2SuccessIsDone` |
| `ListsFreedOnce` | `Spec => []FreedOnce` |

`OnceInv` is as for version 3, without ids: the requests of commands on the wire and
carried out are of different calls until a loop is started.  The other three rest
on `SteadyInv`, which holds until the line fails or a loop is stopped: at most the
present call has something under way, and of its frames only the last one ends it.
`EffectInv` adds that a call that has passed its request was carried out, `GotInv` that
once `GetTags` has tags it only reads answers to `SELECT_TAG`, so that no other success
makes it free the lists it hands out.  `CallsInv` ties the stages of a call (`stage`, `sent`,
`answer`) to the place of the engine.

`TypeCorrect` has to know for version 3 what the decoder can return: every function of
the tag modules, and so every call of the API, reads with steps whose status is one of
a few (`WellMade`, function by function), which holds along the whole of `Reading`.
`EncodeMeans` is an induction over the steps of a function.  `Faithful` says of the
octets written so far that, whatever follows them, `Elements` (written from the grammar,
not from the encoder) takes off just what the steps told; for one step this needs what
`Base256`, `LengthOctets` and `IntegerOctets` write for every number.  The prover has no
rule of induction; it is had from sets: the numbers for which a claim fails would have a
least member (`WFMin` and `NatLessThanWellFounded`), and a recursive function over octet
strings is well defined because the length gets smaller.

### MqttBridge

`MqttBridge_proofs` proves, for any nodes and whatever sits there, any number of
descriptors, settings and tags, and any faults:

| Theorem | Statement |
|---|---|
| `DevicesAgree` | `Spec => []DeviceInv` |
| `DevicesCloseTheirOwn` | `Spec => []ClosesOwn` |
| `DevicesFreedOnce` | `Spec => []FreedOnce` |
| `BrokerGetsTags` | `Spec => []BrokerGets` |
| `TypeCorrect` | `Spec => []TypeOK` |
| `ReadersAreRight` | `Spec => []DiscoveryRight` |

Neither `ClosesOwn` nor `FreedOnce` is inductive: that a step closes the right
descriptor depends on where its number was before.  `DeviceInv` says that a
descriptor of a device is in its fields (`OwnedInv`) and that the fields of a serial
line hold a descriptor of its own or nothing (`LineInv`), which needs that
descriptor 0 is in use from the moment the broker is connected, so that `open()`
never returns it (`FDInv`); that the slots of the array and the devices that are
made match one to one, and that each factory leaves no device of its own in the
slots behind it (`SlotInv`, `Passed`); and which devices were not opened yet
(`PlaceInv`).  There is a lemma for each kind of step; `OpenResult` and `CloseResult`
say what Open and Close do to the descriptors.  `BrokerGets` rests on two facts:
while a loop runs the topic is that of its reader (`MessageInv`), and no step but
`Connect` makes a connection (`NothingConnects`); the lemmas on sequences say how a
message moves from the outbox to what was taken.  The assumptions are
`DevicesAssumption`, `DiscoveryAssumption` and `BridgeAssumption`.

`TypeCorrect` needs how far the program is in its arrays (`Counts`: at most one slot for
each node, at most one reader for each slot gone over), and that what is read of octets
are octets.  `DiscoveryRight` speaks of the readers that were found, and is not inductive:
it says nothing of the probe that will find the next one.  `FoundInv` does: a device whose
slot discovery has gone over is settled (something went wrong with it, no reader sits
there, or there is a reader for it), the devices of the readers are open
(`Held`), and while nothing goes wrong with the device at hand the probe has before it an
answer of what sits there, or what is left of one (`ProbeRight`).  `VerdictRight` goes
through the answers: the first three octets of each give the right version, or the
rest of it does.  A serial device is given up at its last setting only, so one of the
settings before was that of the reader (`BaudRight`).  Both theorems use
`DeviceInv` and `MessageInv`, and TLC checked `Counts` and `FoundInv` with the constants
of the run `bridge`.

### Only model-checked

* All liveness (`CallReturns`, `StopReturns`, `CallsReturn`, `UploadEnds`,
  `V2CallsReturn`, `BridgeEnds`): fairness and `ENABLED` are out of the prover's reach.
* `CardUnderstands` and `CallerGetsReply` of `TagCalls`: `EncodeMeans` is the part of the
  first that holds for every function; that the steps of each function are those of
  its grammar, and that the steps of its reading half fit the replies, is checked by the
  run, function by function.
* The four properties of the runs that expect a violation.

Proving has corrected the model twice.  `V2Select` passed the loop flag of any job to
the engine; `STPV2_SelectTag` and `STPV2_GetTags` do not set it, and `SteadyInv` is not
inductive if they do.  The assumption on `Jobs` did not say that every job is a
function of the API.  What a property leaves open is named where it is stated: at most
once only until a loop was run (`looped`), order on USB only until two threads raced
(`raced`), completeness of an upload only while `inStep`; for the hazards concerned
`PROJECT.json` says which part no property covers.

## 6. What is not modelled

* In `STPv3` and `STPv2` the bytes of a message: RID, flags other than inventory and
  loop.  Addresses, data and the naming of the tag are part of `Dispatch`.
* The ASCII mode of both protocols, the SPI device and everything else that only
  the Windows build contains.
* `ScanPayments` and `ParsePaymentTrack1` (text of a payment card for display), and the
  functions of `STPv2.c` that no wrapper calls (three of them hold loops over an
  unsigned counter that never end, lines 853, 919 and 1123).
* The CRC: a frame is intact or damaged.
* The arithmetic of `WriteRequest` (an unsigned variable that holds -1) and of the
  body of a response: one step in `STPv3`; planned as a module of its own.
* `SkyeTek_CreateDevice` and `SkyeTek_CreateReader`, which the program does not call, the
  additional timeout of a device, and the fields of a reader that `GetReader` fills in
  (in `ReaderDiscovery` it succeeds or fails in one step).
* In libusb: a reader unplugged during discovery, whose handle is NULL in `usb_close`
  and `usb_reset`.
* In the firmware upload the percentage the callback gets, a block cut short by
  the end of the file, and a device Read that returns -1.
* Memory: allocation failures and blocks that are never freed.  Who frees what is
  modelled for devices, readers and the lists of version 2's `GetTags`.
* A crash through the uninitialised argument of `USBDevice_Flush()`
  (`USBDevice.c:301`): the model continues with the device or with NULL.
