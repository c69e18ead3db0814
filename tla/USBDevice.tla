----------------------------- MODULE USBDevice -----------------------------
(***************************************************************************)
(* The libusb device (src/SkyeTekAPI/Device/USBDevice.c, the Linux build): *)
(* two byte buffers between the callers and 64-byte interrupt transfers,   *)
(* each with a mutex.  Write and Flush hold the send mutex; Read flushes   *)
(* the send buffer without it, and while it holds the receive mutex it may *)
(* itself call Write.                                                      *)
(*                                                                         *)
(* Bytes are numbered in the order in which they are produced, on either   *)
(* side; 0 is the byte that the device layer sends of its own accord.      *)
(***************************************************************************)
EXTENDS Naturals, Sequences

CONSTANTS
  Threads,   \* the threads that use the device
  NoThread,  \* the owner of a free mutex
  Ops,       \* the operations they call, among "Write", "Read" and "Flush"
  BufSize,   \* bytes of a buffer (63 in the code)
  Lengths,   \* bound: the lengths of Write and Read calls
  MaxCalls,  \* bound: number of calls of a behaviour
  MaxInput,  \* bound: number of bytes the reader sends
  Faults     \* "write", "read": interrupt transfers that may fail

ASSUME USBDeviceAssumption ==
  /\ NoThread \notin Threads
  /\ Ops \subseteq {"Write", "Read", "Flush"}
  /\ BufSize \in Nat \ {0}
  /\ Lengths \subseteq Nat
  /\ MaxCalls \in Nat
  /\ MaxInput \in Nat
  /\ Faults \subseteq {"write", "read"}

VARIABLES
  th,        \* per thread: where it is, and its local variables
  ncalls,    \* how many calls were made
  sendMutex, recvMutex,
  sendBuf,   \* the cells of sendBuffer
  sendPtr,   \* sendBufferWritePtr, as the number of bytes in sendBuf
  recvBuf,   \* the bytes between receiveBufferReadPtr and ...WritePtr
  outPipe,   \* history: the bytes the reader got
  inPipe,    \* bytes the reader sent that were not read yet
  written,   \* history: how many bytes Write took from its callers
  produced,  \* history: how many bytes the reader sent
  delivered, \* history: the bytes Read handed out
  raced      \* history: a Read flushed the buffer while another thread used it

sendVars == <<sendMutex, sendBuf, sendPtr, outPipe, written>>
recvVars == <<recvMutex, recvBuf, inPipe, produced, delivered>>
vars     == <<th, ncalls, sendVars, recvVars, raced>>

Locations == {"idle", "lock", "size", "copy", "advance", "flushlock", "flush", "send",
              "reset", "readlock", "take", "fill", "zeroflush", "readend"}

(* left, size, ptr, zero: of Write, zero when Read calls it; locked, next, *)
(* pkt: of internalFlush and where it returns to; want, got: of Read;      *)
(* mine: history, the number of the last byte that it wrote.               *)
Local == [pc : Locations, left : Nat, size : Nat, ptr : Nat, zero : BOOLEAN,
          locked : BOOLEAN, next : Locations, pkt : Seq(Nat), want : Nat, got : Seq(Nat), mine : Nat]

Lesser(a, b) == IF a < b THEN a ELSE b
At(t, l)     == th[t].pc = l
Goes(t, r)   == th' = [th EXCEPT ![t] = r]  \* r: what t's local variables become
Begin(t, op) ==
  /\ At(t, "idle")
  /\ op \in Ops
  /\ ncalls < MaxCalls
  /\ ncalls' = ncalls + 1

-----------------------------------------------------------------------------
(* Write *)

NotLocked     == TRUE  \* mutant: the mutex is not taken
SendMutexFree == sendMutex = NoThread

StartWrite(t) ==
  /\ Begin(t, "Write")
  /\ \E n \in Lengths :
       Goes(t, [th[t] EXCEPT !.pc = "lock", !.left = n, !.zero = FALSE])
  /\ UNCHANGED <<sendVars, recvVars>>

WriteLock(t) ==
  /\ At(t, "lock")
  /\ SendMutexFree
  /\ sendMutex' = t
  /\ Goes(t, [th[t] EXCEPT !.pc = "size"])
  /\ UNCHANGED <<ncalls, sendBuf, sendPtr, outPipe, written, recvVars>>

Unbounded(n) == n  \* mutant: the whole length is copied at once

(* How much of n bytes still fits. *)
WriteSize(n) == Lesser(n, BufSize - sendPtr)

StartCopy(t) ==
  /\ At(t, "size")
  /\ th[t].left > 0
  /\ Goes(t, [th[t] EXCEPT !.pc = "copy", !.ptr = sendPtr,
                              !.size = WriteSize(th[t].left)])
  /\ UNCHANGED <<ncalls, sendVars, recvVars>>

(* sendBufferWritePtr is read again for the copy and once more to advance  *)
(* it, or kept in a register: it may have been reset in between by a Read. *)
WriteCopy(t) ==
  /\ At(t, "copy")
  /\ \E base \in {th[t].ptr, sendPtr} :
       /\ sendBuf' = [i \in 1..BufSize |->
                        IF i \in base + 1 .. base + th[t].size
                        THEN IF th[t].zero THEN 0 ELSE written + (i - base)
                        ELSE sendBuf[i]]
       /\ Goes(t, [th[t] EXCEPT !.pc = "advance", !.ptr = base])
  /\ written' = IF th[t].zero THEN written ELSE written + th[t].size
  /\ UNCHANGED <<ncalls, sendMutex, sendPtr, outPipe, recvVars>>

FlushLocked == "flushlock"  \* mutant: Write calls USBDevice_Flush, which locks
FlushHere   == "flush"

WriteAdvance(t) ==
  /\ At(t, "advance")
  /\ \E p \in {th[t].ptr + th[t].size, sendPtr + th[t].size} :
       /\ sendPtr' = p
       /\ Goes(t, [th[t] EXCEPT !.left = @ - th[t].size,
                                !.pc = IF p = BufSize THEN FlushHere ELSE "size",
                                !.locked = FALSE, !.next = "size"])
  /\ UNCHANGED <<ncalls, sendMutex, sendBuf, outPipe, written, recvVars>>

WriteEnd(t) ==
  /\ At(t, "size")
  /\ th[t].left = 0
  /\ sendMutex' = NoThread
  /\ Goes(t, IF th[t].zero THEN [th[t] EXCEPT !.pc = "zeroflush"]
                            ELSE [th[t] EXCEPT !.pc = "idle", !.mine = written])
  /\ UNCHANGED <<ncalls, sendBuf, sendPtr, outPipe, written, recvVars>>

-----------------------------------------------------------------------------
(* Flush *)

StartFlush(t) ==
  /\ Begin(t, "Flush")
  /\ Goes(t, [th[t] EXCEPT !.pc = "flushlock", !.next = "idle"])
  /\ UNCHANGED <<sendVars, recvVars>>

FlushLock(t) ==
  /\ At(t, "flushlock")
  /\ SendMutexFree
  /\ sendMutex' = t
  /\ Goes(t, [th[t] EXCEPT !.pc = "flush", !.locked = TRUE])
  /\ UNCHANGED <<ncalls, sendBuf, sendPtr, outPipe, written, recvVars>>

FlushReturn(t) ==
  /\ sendMutex' = IF th[t].locked THEN NoThread ELSE sendMutex
  /\ Goes(t, [th[t] EXCEPT !.pc = th[t].next])

(* The buffer becomes a transfer; an empty one does not. *)
FlushCopy(t) ==
  /\ At(t, "flush")
  /\ IF sendPtr = 0
     THEN FlushReturn(t)
     ELSE /\ Goes(t, [th[t] EXCEPT !.pc = "send", !.pkt = SubSeq(sendBuf, 1, sendPtr)])
          /\ UNCHANGED sendMutex
  /\ UNCHANGED <<ncalls, sendBuf, sendPtr, outPipe, written, recvVars>>

(* usb_interrupt_write; its failure is ignored. *)
UsbWrite(t) ==
  /\ At(t, "send")
  /\ \/ outPipe' = outPipe \o th[t].pkt
     \/ "write" \in Faults /\ UNCHANGED outPipe
  /\ Goes(t, [th[t] EXCEPT !.pc = "reset"])
  /\ UNCHANGED <<ncalls, sendMutex, sendBuf, sendPtr, written, recvVars>>

ResetPtr == 0

FlushReset(t) ==
  /\ At(t, "reset")
  /\ sendPtr' = ResetPtr
  /\ FlushReturn(t)
  /\ UNCHANGED <<ncalls, sendBuf, outPipe, written, recvVars>>

-----------------------------------------------------------------------------
(* Read *)

ReadDirectly == "readlock"  \* mutant: Read does not flush first
ReadFlushes  == "flush"

StartRead(t) ==
  /\ Begin(t, "Read")
  /\ \E n \in Lengths :
       Goes(t, [th[t] EXCEPT !.pc = ReadFlushes, !.locked = FALSE,
                                !.next = "readlock", !.want = n, !.got = <<>>])
  /\ UNCHANGED <<sendVars, recvVars>>

ReceiveUnlocked  == TRUE  \* mutant: the mutex is not taken
ReceiveMutexFree == recvMutex = NoThread

ReadLock(t) ==
  /\ At(t, "readlock")
  /\ ReceiveMutexFree
  /\ recvMutex' = t
  /\ Goes(t, [th[t] EXCEPT !.pc = "take"])
  /\ UNCHANGED <<ncalls, sendVars, recvBuf, inPipe, produced, delivered>>

RestDropped(size) == <<>>  \* mutant: the rest of a transfer is discarded
RestKept(size)    == SubSeq(recvBuf, size + 1, Len(recvBuf))

ReadTake(t) ==
  LET size == Lesser(th[t].want, Len(recvBuf))
  IN  /\ At(t, "take")
      /\ Goes(t, [th[t] EXCEPT !.got = @ \o SubSeq(recvBuf, 1, size),
                               !.want = @ - size,
                               !.pc = IF size = th[t].want THEN "readend" ELSE "fill"])
      /\ recvBuf' = RestKept(size)
      /\ UNCHANGED <<ncalls, sendVars, recvMutex, inPipe, produced, delivered>>

(* usb_interrupt_read, of a transfer of any length; when it fails or times *)
(* out, three zero bytes are written, and Read ends with what it has.      *)
Fill(t) ==
  /\ At(t, "fill")
  /\ \/ \E n \in 1..Lesser(Len(inPipe), BufSize) :
          /\ recvBuf' = SubSeq(inPipe, 1, n)
          /\ inPipe' = SubSeq(inPipe, n + 1, Len(inPipe))
          /\ Goes(t, [th[t] EXCEPT !.pc = "take"])
     \/ /\ inPipe = <<>> \/ "read" \in Faults
        /\ recvBuf' = <<>>
        /\ Goes(t, [th[t] EXCEPT !.pc = "lock", !.left = 3, !.zero = TRUE])
        /\ UNCHANGED inPipe
  /\ UNCHANGED <<ncalls, sendVars, recvMutex, produced, delivered>>

(* USBDevice_Flush is called without its argument: it flushes when the     *)
(* register still holds the device, and returns when it holds NULL.        *)
ZeroFlush(t) ==
  /\ At(t, "zeroflush")
  /\ \/ Goes(t, [th[t] EXCEPT !.pc = "flushlock", !.next = "readend"])
     \/ Goes(t, [th[t] EXCEPT !.pc = "readend"])
  /\ UNCHANGED <<ncalls, sendVars, recvVars>>

ReadEnd(t) ==
  /\ At(t, "readend")
  /\ recvMutex' = NoThread
  /\ delivered' = delivered \o th[t].got
  /\ Goes(t, [th[t] EXCEPT !.pc = "idle"])
  /\ UNCHANGED <<ncalls, sendVars, recvBuf, inPipe, produced>>

-----------------------------------------------------------------------------
(* The reader (external) sends a byte. *)
ReaderSends ==
  /\ produced < MaxInput
  /\ produced' = produced + 1
  /\ inPipe' = Append(inPipe, produced + 1)
  /\ UNCHANGED <<th, ncalls, sendVars, recvMutex, recvBuf, delivered>>

Init ==
  /\ th = [t \in Threads |->
             [pc |-> "idle", left |-> 0, size |-> 0, ptr |-> 0, zero |-> FALSE,
              locked |-> FALSE, next |-> "idle", pkt |-> <<>>, want |-> 0, got |-> <<>>, mine |-> 0]]
  /\ ncalls = 0
  /\ sendMutex = NoThread
  /\ recvMutex = NoThread
  /\ sendBuf = [i \in 1..BufSize |-> 0]
  /\ sendPtr = 0
  /\ recvBuf = <<>>
  /\ outPipe = <<>>
  /\ inPipe = <<>>
  /\ written = 0
  /\ produced = 0
  /\ delivered = <<>>
  /\ raced = FALSE

(* Only the flush that Read makes is not protected by the send mutex.      *)
UsesBuffer(t)   == th[t].pc \in {"size", "copy", "advance", "flush", "send", "reset"}
ReadFlushing(t) == th[t].pc \in {"flush", "send", "reset"} /\ th[t].next = "readlock"
Race    == \E t, u \in Threads : t # u /\ ReadFlushing(t) /\ UsesBuffer(u)
Observe == raced' = (raced \/ Race')

(* The steps of a call that was begun. *)
Proceed(t) ==
  /\ \/ WriteLock(t) \/ StartCopy(t) \/ WriteCopy(t) \/ WriteAdvance(t) \/ WriteEnd(t)
     \/ FlushLock(t) \/ FlushCopy(t) \/ UsbWrite(t) \/ FlushReset(t)
     \/ ReadLock(t) \/ ReadTake(t) \/ Fill(t) \/ ZeroFlush(t) \/ ReadEnd(t)
  /\ Observe

Next ==
  \/ \E t \in Threads : (StartWrite(t) \/ StartFlush(t) \/ StartRead(t)) /\ Observe
  \/ \E t \in Threads : Proceed(t)
  \/ ReaderSends /\ UNCHANGED raced

Spec == Init /\ [][Next]_vars

(* Threads run; a thread that waits for a mutex gets it when it is free.   *)
FairSpec == Spec /\ \A t \in Threads : WF_vars(Proceed(t))

-----------------------------------------------------------------------------
(* Properties *)

Numbers(n) == [i \in 1..n |-> i]
Bytes(s)   == {s[i] : i \in DOMAIN s}

(* Apart from zeros, s is 1, ..., n: each byte once and in this order. *)
Carries(s, n) ==
  /\ Bytes(s) \ {0} = 1..n
  /\ \A i, j \in DOMAIN s : i < j /\ s[j] # 0 => s[i] < s[j]

(* Every variable has its type; in particular the write pointer never      *)
(* leaves the buffer, although a Read may reset it under a Write.          *)
TypeOK ==
  /\ th \in [Threads -> Local]
  /\ ncalls \in 0..MaxCalls
  /\ {sendMutex, recvMutex} \subseteq Threads \cup {NoThread}
  /\ sendBuf \in [1..BufSize -> Nat]
  /\ sendPtr \in 0..BufSize
  /\ {recvBuf, outPipe, inPipe, delivered} \subseteq Seq(Nat)
  /\ {written, produced} \subseteq Nat

(* USBDevice.c:507-523: what Write took reaches the reader once and in     *)
(* order, and when no call is in progress, what did not is in the buffer,  *)
(* unless a Read flushed while another thread used the buffer.             *)
OutputInOrder ==
  ~raced => /\ \E n \in 0..written : Carries(outPipe, n)
            /\ (\A t \in Threads : At(t, "idle")) =>
                  Carries(outPipe \o SubSeq(sendBuf, 1, sendPtr), written)

(* USBDevice.c:552-576: Read hands out what the reader sent, all of it and *)
(* in order, across short reads, timeouts and threads.                     *)
InputInOrder ==
  LET held == IF recvMutex = NoThread THEN <<>> ELSE th[recvMutex].got
  IN  delivered \o held \o recvBuf \o inPipe = Numbers(produced)

(* USBDevice.c:548: when a Read waits for the reader, the reader has got   *)
(* all that the thread wrote before; otherwise it waits for the answer to  *)
(* a request that was not sent.                                            *)
NothingHeldBack ==
  ~raced => \A t \in Threads : At(t, "fill") => 1..th[t].mine \subseteq Bytes(outPipe)

(* USBDevice.c:507-575: no call waits for a mutex forever, and Read, which *)
(* writes while it holds the receive mutex, does not either.               *)
CallsReturn ==
  \A t \in Threads : ~At(t, "idle") ~> At(t, "idle")
=============================================================================
