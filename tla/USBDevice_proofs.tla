-------------------------- MODULE USBDevice_proofs --------------------------
(***************************************************************************)
(* What holds of USBDevice for any number of threads, any buffer size and  *)
(* any calls.                                                              *)
(***************************************************************************)
EXTENDS USBDevice, SequenceTheorems, TLAPS

Flushing == {"flush", "send", "reset"}
Writing  == {"size", "copy", "advance"}

(* Where internalFlush returns to says who called it: Write, which holds   *)
(* the mutex already; Flush, which took it; or Read, which did not.        *)
Called(r) ==
  /\ r.pc = "flushlock" => r.next \in {"idle", "readend"}
  /\ r.pc \in Flushing => \/ r.next = "size" /\ ~r.locked
                          \/ r.next \in {"idle", "readend"} /\ r.locked
                          \/ r.next = "readlock" /\ ~r.locked

Sending(r) ==
  \/ r.pc \in Writing
  \/ r.pc \in Flushing /\ r.next # "readlock"

(* What Write is about to copy fits, at the place it saw and at the place  *)
(* p to which a Read may have moved the pointer since.                     *)
Fits(r, p) ==
  r.pc \in {"copy", "advance"} => /\ r.size <= r.left
                                  /\ r.ptr + r.size <= BufSize
                                  /\ p + r.size <= BufSize

FlushCalled == \A t \in Threads : Called(th[t])
SendHeld    == \A t \in Threads : Sending(th[t]) => sendMutex = t
CopyFits    == \A t \in Threads : Fits(th[t], sendPtr)

Typed == TypeOK /\ FlushCalled /\ SendHeld /\ CopyFits

-----------------------------------------------------------------------------
(* Types *)

LEMMA LocalFields ==
  ASSUME NEW r \in Local
  PROVE  /\ r.pc \in Locations /\ r.next \in Locations
         /\ r.left \in Nat /\ r.size \in Nat /\ r.ptr \in Nat /\ r.want \in Nat /\ r.mine \in Nat
         /\ r.zero \in BOOLEAN /\ r.locked \in BOOLEAN
         /\ r.pkt \in Seq(Nat) /\ r.got \in Seq(Nat)
BY DEF Local

LEMMA LocalUpdates ==
  ASSUME NEW r \in Local
  PROVE  /\ \A l \in Locations : [r EXCEPT !.pc = l] \in Local /\ [r EXCEPT !.next = l] \in Local
         /\ \A n \in Nat : /\ [r EXCEPT !.left = n] \in Local /\ [r EXCEPT !.size = n] \in Local
                           /\ [r EXCEPT !.ptr = n] \in Local /\ [r EXCEPT !.want = n] \in Local
                           /\ [r EXCEPT !.mine = n] \in Local
         /\ \A b \in BOOLEAN : [r EXCEPT !.zero = b] \in Local /\ [r EXCEPT !.locked = b] \in Local
         /\ \A s \in Seq(Nat) : [r EXCEPT !.pkt = s] \in Local /\ [r EXCEPT !.got = s] \in Local
<1>1. \A l \in Locations : [r EXCEPT !.pc = l] \in Local BY DEF Local
<1>2. \A l \in Locations : [r EXCEPT !.next = l] \in Local BY DEF Local
<1>3. \A n \in Nat : [r EXCEPT !.left = n] \in Local BY DEF Local
<1>4. \A n \in Nat : [r EXCEPT !.size = n] \in Local BY DEF Local
<1>5. \A n \in Nat : [r EXCEPT !.ptr = n] \in Local BY DEF Local
<1>6. \A n \in Nat : [r EXCEPT !.want = n] \in Local BY DEF Local
<1>7. \A n \in Nat : [r EXCEPT !.mine = n] \in Local BY DEF Local
<1>8. \A b \in BOOLEAN : [r EXCEPT !.zero = b] \in Local /\ [r EXCEPT !.locked = b] \in Local
  BY DEF Local
<1>9. \A s \in Seq(Nat) : [r EXCEPT !.pkt = s] \in Local /\ [r EXCEPT !.got = s] \in Local
  BY DEF Local
<1> QED BY <1>1, <1>2, <1>3, <1>4, <1>5, <1>6, <1>7, <1>8, <1>9

LEMMA Moved ==
  ASSUME th \in [Threads -> Local], NEW t \in Threads, NEW r \in Local, Goes(t, r)
  PROVE  /\ th' \in [Threads -> Local]
         /\ th'[t] = r
         /\ \A u \in Threads : u # t => th'[u] = th[u]
BY DEF Goes

(* A step of one thread, judged by its new local variables. *)
LEMMA ThreadStep ==
  ASSUME Typed, NEW t \in Threads, NEW r \in Local, Goes(t, r),
         Called(r),
         Sending(r) => sendMutex' = t,
         sendMutex' = sendMutex \/ sendMutex = NoThread \/ sendMutex = t,
         Fits(r, sendPtr'),
         \A u \in Threads : u # t /\ Fits(th[u], sendPtr) => Fits(th[u], sendPtr')
  PROVE  th' \in [Threads -> Local] /\ FlushCalled' /\ SendHeld' /\ CopyFits'
<1>1. /\ th' \in [Threads -> Local]
      /\ th'[t] = r
      /\ \A u \in Threads : u # t => th'[u] = th[u]
  BY Moved DEF Typed, TypeOK
<1>2. FlushCalled' BY <1>1 DEF Typed, FlushCalled
<1>3. SendHeld' BY <1>1, USBDeviceAssumption DEF Typed, SendHeld
<1>4. CopyFits' BY <1>1 DEF Typed, CopyFits
<1> QED BY <1>1, <1>2, <1>3, <1>4

LEMMA InitTyped == Init => Typed
BY USBDeviceAssumption, EmptySeq
   DEF Init, Typed, TypeOK, Local, Locations, FlushCalled, Called, SendHeld, Sending, CopyFits,
       Fits, Flushing, Writing

LEMMA StartTyped ==
  ASSUME Typed, NEW t \in Threads, StartWrite(t) \/ StartFlush(t) \/ StartRead(t)
  PROVE  Typed'
<1> th[t] \in Local BY DEF Typed, TypeOK
<1>1. /\ ncalls' \in 0..MaxCalls
      /\ UNCHANGED <<sendMutex, sendBuf, sendPtr, outPipe, written, recvVars>>
  <2>1. ncalls < MaxCalls /\ ncalls' = ncalls + 1 /\ UNCHANGED <<sendVars, recvVars>>
    BY DEF StartWrite, StartFlush, StartRead, Begin
  <2> QED BY <2>1, USBDeviceAssumption DEF Typed, TypeOK, sendVars
<1>2. PICK r \in Local : Goes(t, r) /\ Called(r) /\ ~Sending(r) /\ Fits(r, sendPtr')
  <2>1. CASE StartWrite(t)
    <3>1. PICK n \in Lengths : Goes(t, [th[t] EXCEPT !.pc = "lock", !.left = n, !.zero = FALSE])
      BY <2>1 DEF StartWrite
    <3>2. [th[t] EXCEPT !.pc = "lock", !.left = n, !.zero = FALSE] \in Local
      BY USBDeviceAssumption DEF Local, Locations
    <3> QED BY <3>1, <3>2 DEF Local, Called, Sending, Fits, Flushing, Writing
  <2>2. CASE StartFlush(t)
    <3>1. [th[t] EXCEPT !.pc = "flushlock", !.next = "idle"] \in Local
      BY DEF Local, Locations
    <3> QED BY <2>2, <3>1 DEF StartFlush, Local, Called, Sending, Fits, Flushing, Writing
  <2>3. CASE StartRead(t)
    <3>1. PICK n \in Lengths :
            Goes(t, [th[t] EXCEPT !.pc = ReadFlushes, !.locked = FALSE,
                                  !.next = "readlock", !.want = n, !.got = <<>>])
      BY <2>3 DEF StartRead
    <3>2. [th[t] EXCEPT !.pc = ReadFlushes, !.locked = FALSE,
                        !.next = "readlock", !.want = n, !.got = <<>>] \in Local
      BY USBDeviceAssumption, EmptySeq DEF Local, Locations, ReadFlushes
    <3> QED BY <3>1, <3>2 DEF Local, Called, Sending, Fits, Flushing, Writing, ReadFlushes
  <2> QED BY <2>1, <2>2, <2>3
<1>3. th' \in [Threads -> Local] /\ FlushCalled' /\ SendHeld' /\ CopyFits'
  <2>1. /\ Sending(r) => sendMutex' = t
        /\ sendMutex' = sendMutex
        /\ \A u \in Threads : u # t /\ Fits(th[u], sendPtr) => Fits(th[u], sendPtr')
    BY <1>1, <1>2
  <2> QED BY <1>2, <2>1, ThreadStep
<1> QED BY <1>1, <1>3 DEF Typed, TypeOK, recvVars

LEMMA WriteTyped ==
  ASSUME Typed, NEW t \in Threads,
         WriteLock(t) \/ StartCopy(t) \/ WriteCopy(t) \/ WriteAdvance(t) \/ WriteEnd(t)
  PROVE  Typed'
<1> th[t] \in Local /\ Called(th[t]) /\ Fits(th[t], sendPtr) /\ (Sending(th[t]) => sendMutex = t)
  BY DEF Typed, TypeOK, FlushCalled, CopyFits, SendHeld
<1> sendPtr \in 0..BufSize /\ BufSize \in Nat /\ written \in Nat
  BY USBDeviceAssumption DEF Typed, TypeOK
<1>1. CASE WriteLock(t)
  <2>1. [th[t] EXCEPT !.pc = "size"] \in Local BY DEF Local, Locations
  <2> DEFINE r == [th[t] EXCEPT !.pc = "size"]
  <2>2. Called(r) /\ Fits(r, sendPtr) BY DEF Local, Called, Fits, Flushing
  <2>3. /\ Goes(t, r) /\ sendMutex = NoThread /\ sendMutex' = t
        /\ UNCHANGED <<ncalls, sendBuf, sendPtr, outPipe, written, recvVars>>
    BY <1>1 DEF WriteLock, SendMutexFree
  <2> QED BY <2>1, <2>2, <2>3, ThreadStep DEF Typed, TypeOK, recvVars
<1>2. CASE StartCopy(t)
  <2> DEFINE r == [th[t] EXCEPT !.pc = "copy", !.ptr = sendPtr, !.size = WriteSize(th[t].left)]
  <2>1. WriteSize(th[t].left) \in Nat BY LocalFields DEF WriteSize, Lesser
  <2>0. r \in Local
    <3>1. [th[t] EXCEPT !.pc = "copy"] \in Local BY LocalUpdates DEF Locations
    <3>2. sendPtr \in Nat OBVIOUS
    <3>3. [th[t] EXCEPT !.pc = "copy", !.ptr = sendPtr] \in Local BY <3>1, <3>2, LocalUpdates
    <3> QED BY <2>1, <3>3, LocalUpdates
  <2>2. Called(r) /\ Fits(r, sendPtr) /\ sendMutex = t
    BY SMTT(30), <1>2 DEF Local, Called, Fits, Flushing, WriteSize, Lesser, StartCopy, Sending, At, Writing
  <2>3. Goes(t, r) /\ UNCHANGED <<ncalls, sendVars, recvVars>> BY <1>2 DEF StartCopy
  <2> QED BY <2>0, <2>2, <2>3, ThreadStep DEF Typed, TypeOK, recvVars, sendVars
<1>3. CASE WriteCopy(t)
  <2>1. PICK base \in {th[t].ptr, sendPtr} :
          /\ sendBuf' = [i \in 1..BufSize |->
                           IF i \in base + 1 .. base + th[t].size
                           THEN IF th[t].zero THEN 0 ELSE written + (i - base)
                           ELSE sendBuf[i]]
          /\ Goes(t, [th[t] EXCEPT !.pc = "advance", !.ptr = base])
    BY <1>3 DEF WriteCopy
  <2> DEFINE r == [th[t] EXCEPT !.pc = "advance", !.ptr = base]
  <2>0. base \in Nat BY LocalFields
  <2>2. r \in Local
    <3>1. [th[t] EXCEPT !.pc = "advance"] \in Local BY LocalUpdates DEF Locations
    <3> QED BY <2>0, <3>1, LocalUpdates
  <2>3. Called(r) /\ Fits(r, sendPtr) /\ sendMutex = t
    BY <1>3 DEF Local, Called, Fits, Flushing, WriteCopy, Sending, At, Writing
  <2>4. written' \in Nat /\ UNCHANGED <<ncalls, sendMutex, sendPtr, outPipe, recvVars>>
    BY <1>3 DEF WriteCopy, Local
  <2>5. \A i \in base + 1 .. base + th[t].size : written + (i - base) \in Nat
    BY LocalFields
  <2>6. sendBuf' \in [1..BufSize -> Nat] BY <2>1, <2>5 DEF Typed, TypeOK
  <2> QED BY <2>1, <2>2, <2>3, <2>4, <2>6, ThreadStep DEF Typed, TypeOK, recvVars
<1>4. CASE WriteAdvance(t)
  <2>1. PICK p \in {th[t].ptr + th[t].size, sendPtr + th[t].size} :
          /\ sendPtr' = p
          /\ Goes(t, [th[t] EXCEPT !.left = @ - th[t].size,
                                   !.pc = IF p = BufSize THEN FlushHere ELSE "size",
                                   !.locked = FALSE, !.next = "size"])
    BY <1>4 DEF WriteAdvance
  <2> DEFINE r == [th[t] EXCEPT !.left = @ - th[t].size,
                                !.pc = IF p = BufSize THEN FlushHere ELSE "size",
                                !.locked = FALSE, !.next = "size"]
  <2>2. th[t].size <= th[t].left /\ sendPtr' \in 0..BufSize /\ sendMutex = t
    BY SMTT(30), <1>4, <2>1 DEF WriteAdvance, Fits, Local, At, Sending, Writing
  <2>3. r \in Local
    <3>1. th[t].left - th[t].size \in Nat BY <2>2, LocalFields
    <3>2. r = [[[[th[t] EXCEPT !.left = th[t].left - th[t].size]
                 EXCEPT !.pc = IF p = BufSize THEN FlushHere ELSE "size"]
                EXCEPT !.locked = FALSE] EXCEPT !.next = "size"]
      OBVIOUS
    <3>3. [th[t] EXCEPT !.left = th[t].left - th[t].size] \in Local BY <3>1, LocalUpdates
    <3>4. (IF p = BufSize THEN FlushHere ELSE "size") \in Locations BY DEF Locations, FlushHere
    <3> QED BY ZenonT(40), <3>2, <3>3, <3>4, LocalUpdates DEF Locations
  <2>4. Called(r) /\ Fits(r, sendPtr') BY DEF Local, Called, Fits, Flushing, FlushHere
  <2>5. UNCHANGED <<ncalls, sendMutex, sendBuf, outPipe, written, recvVars>>
    BY <1>4 DEF WriteAdvance
  <2>6. ASSUME NEW u \in Threads, u # t, Fits(th[u], sendPtr) PROVE Fits(th[u], sendPtr')
    BY <2>2, <2>6 DEF Fits, Typed, SendHeld, Sending, Writing
  <2> QED BY <2>1, <2>2, <2>3, <2>4, <2>5, <2>6, ThreadStep DEF Typed, TypeOK, recvVars
<1>5. CASE WriteEnd(t)
  <2> DEFINE r == IF th[t].zero THEN [th[t] EXCEPT !.pc = "zeroflush"]
                  ELSE [th[t] EXCEPT !.pc = "idle", !.mine = written]
  <2>1. r \in Local BY DEF Local, Locations
  <2>2. Called(r) /\ Fits(r, sendPtr) /\ ~Sending(r)
    BY DEF Local, Called, Fits, Sending, Flushing, Writing
  <2>3. /\ Goes(t, r) /\ sendMutex = t /\ sendMutex' = NoThread
        /\ UNCHANGED <<ncalls, sendBuf, sendPtr, outPipe, written, recvVars>>
    BY <1>5 DEF WriteEnd, Sending, At, Writing
  <2> QED BY <2>1, <2>2, <2>3, ThreadStep DEF Typed, TypeOK, recvVars
<1> QED BY <1>1, <1>2, <1>3, <1>4, <1>5
LEMMA FlushTyped ==
  ASSUME Typed, NEW t \in Threads,
         FlushLock(t) \/ FlushCopy(t) \/ UsbWrite(t) \/ FlushReset(t)
  PROVE  Typed'
<1> th[t] \in Local /\ Called(th[t]) /\ Fits(th[t], sendPtr) /\ (Sending(th[t]) => sendMutex = t)
  BY DEF Typed, TypeOK, FlushCalled, CopyFits, SendHeld
<1> sendPtr \in 0..BufSize /\ BufSize \in Nat
  BY USBDeviceAssumption DEF Typed, TypeOK
<1>1. CASE FlushLock(t)
  <2> DEFINE r == [th[t] EXCEPT !.pc = "flush", !.locked = TRUE]
  <2>1. r \in Local BY LocalUpdates DEF Locations
  <2>2. Called(r) /\ Fits(r, sendPtr)
    BY <1>1 DEF FlushLock, At, Local, Called, Fits, Flushing
  <2>3. /\ Goes(t, r) /\ sendMutex = NoThread /\ sendMutex' = t
        /\ UNCHANGED <<ncalls, sendBuf, sendPtr, outPipe, written, recvVars>>
    BY <1>1 DEF FlushLock, SendMutexFree
  <2> QED BY <2>1, <2>2, <2>3, ThreadStep DEF Typed, TypeOK, recvVars
<1> DEFINE returned == [th[t] EXCEPT !.pc = th[t].next]
<1>2. ASSUME th[t].pc \in Flushing, FlushReturn(t)
      PROVE  /\ returned \in Local /\ Goes(t, returned)
             /\ Called(returned) /\ Fits(returned, 0) /\ Fits(returned, sendPtr)
             /\ Sending(returned) => sendMutex' = t
             /\ sendMutex' = sendMutex \/ sendMutex = t
             /\ sendMutex' \in Threads \cup {NoThread}
  <2>1. returned \in Local BY LocalFields, LocalUpdates
  <2>2. Called(returned) /\ Fits(returned, 0) /\ Fits(returned, sendPtr)
    BY <1>2 DEF Called, Fits, Local, Flushing
  <2>3. Sending(returned) => Sending(th[t]) /\ ~th[t].locked
    BY <1>2 DEF Called, Sending, Flushing, Writing, Local
  <2>4. th[t].locked => Sending(th[t]) BY <1>2 DEF Called, Sending, Flushing
  <2>5. Goes(t, returned) BY <1>2 DEF FlushReturn
  <2> QED BY <1>2, <2>1, <2>2, <2>3, <2>4, <2>5 DEF FlushReturn, Typed, TypeOK
<1>3. CASE FlushCopy(t)
  <2> UNCHANGED <<ncalls, sendBuf, sendPtr, outPipe, written, recvVars>>
    BY <1>3 DEF FlushCopy
  <2>1. CASE sendPtr = 0
    <3> th[t].pc \in Flushing /\ FlushReturn(t) BY <1>3, <2>1 DEF FlushCopy, At, Flushing
    <3> QED BY <1>2, ThreadStep DEF Typed, TypeOK, recvVars
  <2>2. CASE sendPtr # 0
    <3> DEFINE r == [th[t] EXCEPT !.pc = "send", !.pkt = SubSeq(sendBuf, 1, sendPtr)]
    <3>1. SubSeq(sendBuf, 1, sendPtr) \in Seq(Nat) BY SubSeqProperties DEF Typed, TypeOK
    <3>2. r \in Local BY <3>1, LocalUpdates DEF Locations
    <3>3. Called(r) /\ Fits(r, sendPtr) /\ (Sending(r) => Sending(th[t]))
      BY <1>3 DEF FlushCopy, At, Local, Called, Fits, Sending, Flushing, Writing
    <3>4. Goes(t, r) /\ UNCHANGED sendMutex BY <1>3, <2>2 DEF FlushCopy
    <3> QED BY <3>2, <3>3, <3>4, ThreadStep DEF Typed, TypeOK, recvVars
  <2> QED BY <2>1, <2>2
<1>4. CASE UsbWrite(t)
  <2> DEFINE r == [th[t] EXCEPT !.pc = "reset"]
  <2>1. r \in Local BY LocalUpdates DEF Locations
  <2>2. Called(r) /\ Fits(r, sendPtr) /\ (Sending(r) => Sending(th[t]))
    BY <1>4 DEF UsbWrite, At, Local, Called, Fits, Sending, Flushing, Writing
  <2>3. Goes(t, r) /\ UNCHANGED <<ncalls, sendMutex, sendBuf, sendPtr, written, recvVars>>
    BY <1>4 DEF UsbWrite
  <2>4. outPipe' \in Seq(Nat)
    <3>1. outPipe \in Seq(Nat) /\ th[t].pkt \in Seq(Nat) BY LocalFields DEF Typed, TypeOK
    <3>2. outPipe' = outPipe \o th[t].pkt \/ outPipe' = outPipe BY <1>4 DEF UsbWrite
    <3> QED BY <3>1, <3>2, ConcatProperties
  <2> QED BY <2>1, <2>2, <2>3, <2>4, ThreadStep DEF Typed, TypeOK, recvVars
<1>5. CASE FlushReset(t)
  <2>1. /\ th[t].pc \in Flushing /\ FlushReturn(t) /\ sendPtr' = 0
        /\ UNCHANGED <<ncalls, sendBuf, outPipe, written, recvVars>>
    BY <1>5 DEF FlushReset, At, Flushing, ResetPtr
  <2>2. ASSUME NEW u \in Threads, u # t, Fits(th[u], sendPtr) PROVE Fits(th[u], 0)
    <3>1. th[u] \in Local BY DEF Typed, TypeOK
    <3> QED BY <2>2, <3>1, LocalFields DEF Fits
  <2> QED BY <1>2, <2>1, <2>2, ThreadStep DEF Typed, TypeOK, recvVars
<1> QED BY <1>1, <1>3, <1>4, <1>5

LEMMA ReadTyped ==
  ASSUME Typed, NEW t \in Threads,
         ReadLock(t) \/ ReadTake(t) \/ Fill(t) \/ ZeroFlush(t) \/ ReadEnd(t)
  PROVE  Typed'
<1> th[t] \in Local BY DEF Typed, TypeOK
<1>1. UNCHANGED <<ncalls, sendVars>> BY DEF ReadLock, ReadTake, Fill, ZeroFlush, ReadEnd
<1>2. /\ recvMutex' \in Threads \cup {NoThread}
      /\ {recvBuf', inPipe', delivered'} \subseteq Seq(Nat)
      /\ produced' \in Nat
  <2>1. CASE ReadLock(t) \/ ZeroFlush(t)
    BY <2>1 DEF ReadLock, ZeroFlush, Typed, TypeOK, recvVars
  <2>2. CASE ReadTake(t)
    <3>1. /\ recvBuf' = SubSeq(recvBuf, Lesser(th[t].want, Len(recvBuf)) + 1, Len(recvBuf))
          /\ UNCHANGED <<recvMutex, inPipe, produced, delivered>>
      BY <2>2 DEF ReadTake, RestKept
    <3>2. Lesser(th[t].want, Len(recvBuf)) \in Nat
      BY LocalFields, LenProperties DEF Lesser, Typed, TypeOK
    <3>3. recvBuf' \in Seq(Nat)
      BY SMTT(30), <3>1, <3>2, SubSeqProperties, LenProperties DEF Typed, TypeOK
    <3> QED BY <3>1, <3>3 DEF Typed, TypeOK
  <2>3. CASE Fill(t)
    <3>1. CASE recvBuf' = <<>> /\ UNCHANGED inPipe
      BY <2>3, <3>1, EmptySeq DEF Fill, Typed, TypeOK
    <3>2. ASSUME NEW n \in 1..Lesser(Len(inPipe), BufSize),
                 recvBuf' = SubSeq(inPipe, 1, n),
                 inPipe' = SubSeq(inPipe, n + 1, Len(inPipe))
          PROVE  recvBuf' \in Seq(Nat) /\ inPipe' \in Seq(Nat)
      <4>1. inPipe \in Seq(Nat) /\ Len(inPipe) \in Nat BY LenProperties DEF Typed, TypeOK
      <4>2. n \in 1..Len(inPipe) BY <4>1, USBDeviceAssumption DEF Lesser
      <4>3. \A i \in 1..Len(inPipe) : inPipe[i] \in Nat BY <4>1, ElementOfSeq
      <4> QED BY <3>2, <4>1, <4>2, <4>3, SubSeqProperties
    <3> QED BY <2>3, <3>1, <3>2 DEF Fill, Typed, TypeOK
  <2>4. CASE ReadEnd(t)
    BY <2>4, LocalFields, ConcatProperties DEF ReadEnd, Typed, TypeOK
  <2> QED BY <2>1, <2>2, <2>3, <2>4
<1>3. PICK r \in Local : Goes(t, r) /\ Called(r) /\ Fits(r, sendPtr) /\ (Sending(r) => Sending(th[t]))
  <2>1. CASE ReadLock(t) \/ ReadEnd(t)
    <3>1. /\ [th[t] EXCEPT !.pc = "take"] \in Local
          /\ [th[t] EXCEPT !.pc = "idle"] \in Local
      BY LocalUpdates DEF Locations
    <3> QED BY <2>1, <3>1 DEF ReadLock, ReadEnd, Local, Called, Fits, Sending, Flushing, Writing
  <2>2. CASE ReadTake(t)
    <3> DEFINE size == Lesser(th[t].want, Len(recvBuf))
               r == [th[t] EXCEPT !.got = @ \o SubSeq(recvBuf, 1, size), !.want = @ - size,
                                  !.pc = IF size = th[t].want THEN "readend" ELSE "fill"]
    <3>1. size \in 0..Len(recvBuf) /\ th[t].want - size \in Nat
      BY LocalFields, LenProperties DEF Lesser, Typed, TypeOK
    <3>2. th[t].got \o SubSeq(recvBuf, 1, size) \in Seq(Nat)
      BY SMTT(30), <3>1, LocalFields, SubSeqProperties, ConcatProperties, LenProperties DEF Typed, TypeOK
    <3>3. r \in Local
      <4> HIDE DEF size
      <4>1. [th[t] EXCEPT !.got = th[t].got \o SubSeq(recvBuf, 1, size)] \in Local
        BY <3>2, LocalUpdates
      <4>2. [[th[t] EXCEPT !.got = th[t].got \o SubSeq(recvBuf, 1, size)]
                EXCEPT !.want = th[t].want - size] \in Local
        BY <3>1, <4>1, LocalUpdates
      <4>3. r = [[[th[t] EXCEPT !.got = th[t].got \o SubSeq(recvBuf, 1, size)]
                    EXCEPT !.want = th[t].want - size]
                    EXCEPT !.pc = IF size = th[t].want THEN "readend" ELSE "fill"]
        OBVIOUS
      <4> QED BY <4>2, <4>3, LocalUpdates DEF Locations
    <3>4. r.pc \in {"readend", "fill"} BY <3>3 DEF Local
    <3>5. Goes(t, r) BY <2>2 DEF ReadTake
    <3> QED BY <3>3, <3>4, <3>5 DEF Called, Fits, Sending, Flushing, Writing
  <2>3. CASE Fill(t)
    <3>1. /\ [th[t] EXCEPT !.pc = "take"] \in Local
          /\ [th[t] EXCEPT !.pc = "lock", !.left = 3, !.zero = TRUE] \in Local
      BY LocalUpdates DEF Locations
    <3> QED BY <2>3, <3>1 DEF Fill, Local, Called, Fits, Sending, Flushing, Writing
  <2>4. CASE ZeroFlush(t)
    <3>1. /\ [th[t] EXCEPT !.pc = "readend"] \in Local
          /\ [th[t] EXCEPT !.pc = "flushlock", !.next = "readend"] \in Local
      BY LocalUpdates DEF Locations
    <3> QED BY <2>4, <3>1 DEF ZeroFlush, Local, Called, Fits, Sending, Flushing, Writing
  <2> QED BY <2>1, <2>2, <2>3, <2>4
<1>4. th' \in [Threads -> Local] /\ FlushCalled' /\ SendHeld' /\ CopyFits'
  <2>1. /\ Sending(r) => sendMutex' = t
        /\ sendMutex' = sendMutex
        /\ Fits(r, sendPtr')
        /\ \A u \in Threads : u # t /\ Fits(th[u], sendPtr) => Fits(th[u], sendPtr')
    BY <1>1, <1>3 DEF sendVars, Typed, SendHeld
  <2> QED BY <1>3, <2>1, ThreadStep
<1> QED BY <1>1, <1>2, <1>4 DEF Typed, TypeOK, sendVars

LEMMA NextTyped == Typed /\ [Next]_vars => Typed'
<1> SUFFICES ASSUME Typed, [Next]_vars PROVE Typed' OBVIOUS
<1>1. CASE ReaderSends
  <2>1. produced' \in Nat /\ inPipe' \in Seq(Nat)
    BY <1>1, AppendProperties DEF ReaderSends, Typed, TypeOK
  <2> QED
    BY <1>1, <2>1 DEF ReaderSends, Typed, TypeOK, sendVars, FlushCalled, SendHeld, CopyFits
<1>2. CASE UNCHANGED vars
  BY <1>2 DEF vars, sendVars, recvVars, Typed, TypeOK, FlushCalled, SendHeld, CopyFits
<1> QED BY <1>1, <1>2, StartTyped, WriteTyped, FlushTyped, ReadTyped DEF Next, Proceed

(* USBDevice.c:507-523, 548: every variable has its type; in particular    *)
(* the write pointer never leaves the buffer, although a Read may reset it *)
(* while a Write of another thread copies and advances it.                 *)
THEOREM TypeCorrect == Spec => []TypeOK
<1>1. Typed => TypeOK BY DEF Typed
<1> QED BY <1>1, InitTyped, NextTyped, PTL DEF Spec
-----------------------------------------------------------------------------
(* What Read hands out *)

Receiving(r) ==
  \/ r.pc \in {"take", "fill", "zeroflush", "readend"}
  \/ r.pc \in {"lock"} \cup Writing /\ r.zero
  \/ r.pc = "flushlock" /\ r.next = "readend"
  \/ /\ r.pc \in Flushing
     /\ \/ r.next = "readend"
        \/ r.next = "size" /\ r.zero

(* A Read that did not lock the buffer yet has got nothing. *)
Fresh(r) ==
  /\ r.pc = "readlock" => r.got = <<>>
  /\ r.pc \in Flushing /\ r.next = "readlock" => r.got = <<>>

Held == IF recvMutex = NoThread THEN <<>> ELSE th[recvMutex].got

ReadInv ==
  /\ \A t \in Threads : Receiving(th[t]) <=> recvMutex = t
  /\ \A t \in Threads : Fresh(th[t])
  /\ \A t \in Threads : th[t].pc = "fill" => recvBuf = <<>>
  /\ delivered \o Held \o recvBuf \o inPipe = Numbers(produced)

LEMMA HeldTyped == TypeOK => Held \in Seq(Nat)
<1> SUFFICES ASSUME TypeOK PROVE Held \in Seq(Nat) OBVIOUS
<1>1. CASE recvMutex = NoThread BY <1>1, EmptySeq DEF Held
<1>2. CASE recvMutex # NoThread
  <2>1. th[recvMutex] \in Local BY <1>2 DEF TypeOK
  <2> QED BY <1>2, <2>1, LocalFields DEF Held
<1> QED BY <1>1, <1>2

(* A step of one thread that leaves the receive buffer alone. *)
LEMMA ReadApart ==
  ASSUME Typed, ReadInv, NEW t \in Threads, NEW r, Goes(t, r), UNCHANGED recvVars,
         Receiving(r) <=> Receiving(th[t]),
         Receiving(r) => r.got = th[t].got,
         Fresh(r), r.pc # "fill"
  PROVE  ReadInv'
<1>1. /\ th'[t] = r
      /\ \A u \in Threads : u # t => th'[u] = th[u]
  BY DEF Goes, Typed, TypeOK
<1>2. UNCHANGED <<recvMutex, recvBuf, inPipe, produced, delivered>> BY DEF recvVars
<1>3. \A u \in Threads : (Receiving(th[u]) <=> recvMutex = u)' BY <1>1, <1>2 DEF ReadInv
<1>4. \A u \in Threads : Fresh(th[u])' BY <1>1 DEF ReadInv
<1>5. \A u \in Threads : (th[u].pc = "fill" => recvBuf = <<>>)' BY <1>1, <1>2 DEF ReadInv
<1>6. Held' = Held BY <1>1, <1>2, USBDeviceAssumption DEF Held, ReadInv, Typed, TypeOK
<1> QED BY <1>2, <1>3, <1>4, <1>5, <1>6 DEF ReadInv, Numbers

LEMMA InitRead == Init => ReadInv
BY USBDeviceAssumption, ConcatEmptySeq, EmptySeq
   DEF Init, ReadInv, Receiving, Fresh, Held, Numbers, Flushing, Writing

LEMMA StartKeepsInput ==
  ASSUME Typed, ReadInv, NEW t \in Threads, StartWrite(t) \/ StartFlush(t) \/ StartRead(t)
  PROVE  ReadInv'
<1> th[t] \in Local /\ th[t].pc = "idle" BY DEF Typed, TypeOK, StartWrite, StartFlush, StartRead, Begin, At
<1> ~Receiving(th[t]) BY DEF Receiving, Flushing, Writing
<1> UNCHANGED recvVars BY DEF StartWrite, StartFlush, StartRead
<1>1. CASE StartWrite(t)
  <2>1. PICK n \in Lengths : Goes(t, [th[t] EXCEPT !.pc = "lock", !.left = n, !.zero = FALSE])
    BY <1>1 DEF StartWrite
  <2> DEFINE r == [th[t] EXCEPT !.pc = "lock", !.left = n, !.zero = FALSE]
  <2>2. ~Receiving(r) /\ Fresh(r) /\ r.pc # "fill"
    BY DEF Local, Receiving, Fresh, Flushing, Writing
  <2> QED BY <2>1, <2>2, ReadApart
<1>2. CASE StartFlush(t)
  <2> DEFINE r == [th[t] EXCEPT !.pc = "flushlock", !.next = "idle"]
  <2>1. ~Receiving(r) /\ Fresh(r) /\ r.pc # "fill"
    BY DEF Local, Receiving, Fresh, Flushing, Writing
  <2> QED BY <1>2, <2>1, ReadApart DEF StartFlush
<1>3. CASE StartRead(t)
  <2>1. PICK n \in Lengths :
          Goes(t, [th[t] EXCEPT !.pc = ReadFlushes, !.locked = FALSE,
                                !.next = "readlock", !.want = n, !.got = <<>>])
    BY <1>3 DEF StartRead
  <2> DEFINE r == [th[t] EXCEPT !.pc = ReadFlushes, !.locked = FALSE,
                                !.next = "readlock", !.want = n, !.got = <<>>]
  <2>2. ~Receiving(r) /\ Fresh(r) /\ r.pc # "fill"
    BY DEF Local, Receiving, Fresh, Flushing, Writing, ReadFlushes
  <2> QED BY <2>1, <2>2, ReadApart
<1> QED BY <1>1, <1>2, <1>3

LEMMA WriteKeepsInput ==
  ASSUME Typed, ReadInv, NEW t \in Threads,
         WriteLock(t) \/ StartCopy(t) \/ WriteCopy(t) \/ WriteAdvance(t) \/ WriteEnd(t)
  PROVE  ReadInv'
<1> th[t] \in Local BY DEF Typed, TypeOK
<1> UNCHANGED recvVars BY DEF WriteLock, StartCopy, WriteCopy, WriteAdvance, WriteEnd
<1>1. PICK r : /\ Goes(t, r)
               /\ Receiving(r) <=> Receiving(th[t])
               /\ r.got = th[t].got
               /\ r.pc \in Writing \cup {"flush", "zeroflush", "idle"}
               /\ r.pc \in Flushing => r.next # "readlock"
  <2>1. CASE WriteLock(t)
    <3> DEFINE r == [th[t] EXCEPT !.pc = "size"]
    <3>1. r.pc = "size" /\ r.got = th[t].got /\ r.zero = th[t].zero BY DEF Local
    <3>2. Goes(t, r) BY <2>1 DEF WriteLock
    <3> QED BY <2>1, <3>1, <3>2 DEF WriteLock, At, Receiving, Flushing, Writing
  <2>2. CASE StartCopy(t)
    <3> DEFINE r == [th[t] EXCEPT !.pc = "copy", !.ptr = sendPtr, !.size = WriteSize(th[t].left)]
    <3>1. r.pc = "copy" /\ r.got = th[t].got /\ r.zero = th[t].zero BY DEF Local
    <3>2. Goes(t, r) BY <2>2 DEF StartCopy
    <3> QED BY <2>2, <3>1, <3>2 DEF StartCopy, At, Receiving, Flushing, Writing
  <2>3. CASE WriteCopy(t)
    <3>1. PICK base : Goes(t, [th[t] EXCEPT !.pc = "advance", !.ptr = base])
      BY <2>3 DEF WriteCopy
    <3> DEFINE r == [th[t] EXCEPT !.pc = "advance", !.ptr = base]
    <3>2. r.pc = "advance" /\ r.got = th[t].got /\ r.zero = th[t].zero BY DEF Local
    <3> QED BY <2>3, <3>1, <3>2 DEF WriteCopy, At, Receiving, Flushing, Writing
  <2>4. CASE WriteAdvance(t)
    <3>1. PICK p : Goes(t, [th[t] EXCEPT !.left = @ - th[t].size,
                                         !.pc = IF p = BufSize THEN FlushHere ELSE "size",
                                         !.locked = FALSE, !.next = "size"])
      BY <2>4 DEF WriteAdvance
    <3> DEFINE r == [th[t] EXCEPT !.left = @ - th[t].size,
                                  !.pc = IF p = BufSize THEN FlushHere ELSE "size",
                                  !.locked = FALSE, !.next = "size"]
    <3>2. /\ r.pc \in {"size", "flush"} /\ r.next = "size"
          /\ r.got = th[t].got /\ r.zero = th[t].zero
      BY DEF Local, FlushHere
    <3> QED BY <2>4, <3>1, <3>2 DEF WriteAdvance, At, Receiving, Flushing, Writing
  <2>5. CASE WriteEnd(t)
    <3> DEFINE r == IF th[t].zero THEN [th[t] EXCEPT !.pc = "zeroflush"]
                    ELSE [th[t] EXCEPT !.pc = "idle", !.mine = written]
    <3>1. r.pc = (IF th[t].zero THEN "zeroflush" ELSE "idle") /\ r.got = th[t].got BY DEF Local
    <3>2. Goes(t, r) BY <2>5 DEF WriteEnd
    <3>3. th[t].pc = "size" /\ r.pc \in {"zeroflush", "idle"} BY <2>5, <3>1 DEF WriteEnd, At
    <3>4. Receiving(r) <=> Receiving(th[t])
      <4> HIDE DEF r
      <4> QED BY <3>1, <3>3 DEF Receiving, Flushing, Writing, Local
    <3> HIDE DEF r
    <3> QED BY <3>1, <3>2, <3>3, <3>4 DEF Flushing, Writing
  <2> QED BY <2>1, <2>2, <2>3, <2>4, <2>5
<1>2. Fresh(r) /\ r.pc # "fill" BY <1>1 DEF Fresh, Flushing, Writing
<1> QED BY <1>1, <1>2, ReadApart

LEMMA FlushKeepsInput ==
  ASSUME Typed, ReadInv, NEW t \in Threads,
         FlushLock(t) \/ FlushCopy(t) \/ UsbWrite(t) \/ FlushReset(t) \/ ZeroFlush(t)
  PROVE  ReadInv'
<1> th[t] \in Local /\ Called(th[t]) /\ Fresh(th[t])
  BY DEF Typed, TypeOK, FlushCalled, ReadInv
<1> UNCHANGED recvVars BY DEF FlushLock, FlushCopy, UsbWrite, FlushReset, ZeroFlush
<1>1. ASSUME th[t].pc \in Flushing,
             \E l \in {"send", "reset", th[t].next} :
               \/ Goes(t, [th[t] EXCEPT !.pc = l])
               \/ \E s : Goes(t, [th[t] EXCEPT !.pc = l, !.pkt = s])
      PROVE  ReadInv'
  <2>1. PICK l \in {"send", "reset", th[t].next} :
               \/ Goes(t, [th[t] EXCEPT !.pc = l])
               \/ \E s : Goes(t, [th[t] EXCEPT !.pc = l, !.pkt = s])
    BY <1>1
  <2>2. PICK r : /\ Goes(t, r) /\ r.pc = l
                 /\ r.next = th[t].next /\ r.zero = th[t].zero /\ r.got = th[t].got
    <3>1. CASE Goes(t, [th[t] EXCEPT !.pc = l])
      <4> DEFINE r == [th[t] EXCEPT !.pc = l]
      <4>1. r.pc = l /\ r.next = th[t].next /\ r.zero = th[t].zero /\ r.got = th[t].got
        BY DEF Local
      <4> QED BY <3>1, <4>1
    <3>2. ASSUME NEW s, Goes(t, [th[t] EXCEPT !.pc = l, !.pkt = s])
          PROVE  \E r : /\ Goes(t, r) /\ r.pc = l
                        /\ r.next = th[t].next /\ r.zero = th[t].zero /\ r.got = th[t].got
      <4> DEFINE r == [th[t] EXCEPT !.pc = l, !.pkt = s]
      <4>1. r.pc = l /\ r.next = th[t].next /\ r.zero = th[t].zero /\ r.got = th[t].got
        BY DEF Local
      <4> QED BY <3>2, <4>1
    <3> QED BY <2>1, <3>1, <3>2
  <2>3. r.pc # "fill" /\ (Receiving(r) <=> Receiving(th[t])) /\ Fresh(r)
    BY <1>1, <2>2 DEF Called, Receiving, Fresh, Flushing, Writing
  <2> QED BY <2>2, <2>3, ReadApart
<1>2. CASE FlushLock(t)
  <2> DEFINE r == [th[t] EXCEPT !.pc = "flush", !.locked = TRUE]
  <2>1. /\ r.got = th[t].got /\ Fresh(r) /\ r.pc # "fill"
        /\ Receiving(r) <=> Receiving(th[t])
    BY <1>2 DEF FlushLock, At, Called, Local, Receiving, Fresh, Flushing, Writing
  <2> QED BY <1>2, <2>1, ReadApart DEF FlushLock
<1>3. CASE FlushCopy(t) BY <1>1, <1>3 DEF FlushCopy, FlushReturn, At, Flushing
<1>4. CASE UsbWrite(t) BY <1>1, <1>4 DEF UsbWrite, At, Flushing
<1>5. CASE FlushReset(t) BY <1>1, <1>5 DEF FlushReset, FlushReturn, At, Flushing
<1>6. CASE ZeroFlush(t)
  <2>1. PICK r : /\ Goes(t, r) /\ r.got = th[t].got
                 /\ \/ r.pc = "readend"
                    \/ r.pc = "flushlock" /\ r.next = "readend"
    <3> DEFINE r1 == [th[t] EXCEPT !.pc = "flushlock", !.next = "readend"]
               r2 == [th[t] EXCEPT !.pc = "readend"]
    <3>1. r1.pc = "flushlock" /\ r1.next = "readend" /\ r1.got = th[t].got BY DEF Local
    <3>2. r2.pc = "readend" /\ r2.got = th[t].got BY DEF Local
    <3>3. Goes(t, r1) \/ Goes(t, r2) BY <1>6 DEF ZeroFlush
    <3> HIDE DEF r1, r2
    <3>4. CASE Goes(t, r1) BY <3>1, <3>4
    <3>5. CASE Goes(t, r2) BY <3>2, <3>5
    <3> QED BY <3>3, <3>4, <3>5
  <2>2. Receiving(r) /\ Fresh(r) /\ r.pc # "fill" BY <2>1 DEF Receiving, Fresh, Flushing
  <2>3. Receiving(th[t]) BY <1>6 DEF ZeroFlush, At, Receiving
  <2> QED BY <2>1, <2>2, <2>3, ReadApart
<1> QED BY <1>2, <1>3, <1>4, <1>5, <1>6
LEMMA Regrouped ==
  ASSUME NEW a \in Seq(Nat), NEW b \in Seq(Nat), NEW c \in Seq(Nat)
  PROVE  (a \o b) \o c = a \o (b \o c)
BY ConcatAssociative

(* A sequence and its two halves. *)
LEMMA Split ==
  ASSUME NEW s \in Seq(Nat), NEW k \in 0..Len(s)
  PROVE  /\ SubSeq(s, 1, k) \in Seq(Nat)
         /\ SubSeq(s, k + 1, Len(s)) \in Seq(Nat)
         /\ SubSeq(s, 1, k) \o SubSeq(s, k + 1, Len(s)) = s
<1>1. Len(s) \in Nat /\ \A i \in 1..Len(s) : s[i] \in Nat BY LenProperties, ElementOfSeq
<1>2. SubSeq(s, 1, k) \in Seq(Nat) /\ SubSeq(s, k + 1, Len(s)) \in Seq(Nat)
  BY <1>1, SubSeqProperties
<1>3. SubSeq(s, 1, k) \o SubSeq(s, k + 1, Len(s)) = SubSeq(s, 1, Len(s))
  <2>1. 1 \in 1..Len(s) + 1 /\ k \in 1 - 1 .. Len(s) /\ Len(s) \in k..Len(s) BY <1>1
  <2> QED BY <2>1, ConcatAdjacentSubSeq
<1> QED BY <1>2, <1>3, SubSeqFull

(* A piece moves from the front of one sequence to the end of another. *)
Shifted(d, g, s, k) ==
  d \o (g \o SubSeq(s, 1, k)) \o SubSeq(s, k + 1, Len(s)) = d \o g \o s

LEMMA PieceMoves ==
  ASSUME NEW d \in Seq(Nat), NEW g \in Seq(Nat), NEW s \in Seq(Nat), NEW k \in 0..Len(s)
  PROVE  Shifted(d, g, s, k)
<1> DEFINE x == SubSeq(s, 1, k)
           y == SubSeq(s, k + 1, Len(s))
<1>1. x \in Seq(Nat) /\ y \in Seq(Nat) BY Split
<1>2. x \o y = s BY Split
<1>3. d \o g \in Seq(Nat) BY ConcatProperties
<1> HIDE DEF x, y
<1> DEFINE dg == d \o g
<1> HIDE DEF dg
<1>4. (d \o g) \o x = d \o (g \o x)
  <2>1. x \in Seq(Nat) BY <1>1
  <2> HIDE <1>1, <1>2, <1>3
  <2> QED BY ZenonT(40), <2>1, Regrouped
<1>5. (dg \o x) \o y = dg \o (x \o y)
  <2>1. dg \in Seq(Nat) BY <1>3 DEF dg
  <2> QED BY ZenonT(40), <1>1, <2>1, Regrouped
<1>6. (d \o (g \o x)) \o y = (d \o g) \o s BY <1>2, <1>4, <1>5 DEF dg
<1> QED BY ZenonT(40), <1>6 DEF x, y, Shifted

LEMMA PieceReplaces ==
  ASSUME NEW d \in Seq(Nat), NEW s \in Seq(Nat), NEW k \in 0..Len(s)
  PROVE  d \o SubSeq(s, 1, k) \o SubSeq(s, k + 1, Len(s)) = d \o <<>> \o s
<1>1. d \o (<<>> \o SubSeq(s, 1, k)) \o SubSeq(s, k + 1, Len(s)) = d \o <<>> \o s
  <2>1. Shifted(d, <<>>, s, k) BY EmptySeq, PieceMoves
  <2> QED BY ZenonT(40), <2>1 DEF Shifted
<1>2. <<>> \o SubSeq(s, 1, k) = SubSeq(s, 1, k) BY Split, ConcatEmptySeq
<1> QED BY <1>1, <1>2

LEMMA AppendMoves ==
  ASSUME NEW d \in Seq(Nat), NEW s \in Seq(Nat), NEW e \in Nat
  PROVE  d \o Append(s, e) = Append(d \o s, e)
<1>1. <<e>> \in Seq(Nat) /\ d \o s \in Seq(Nat) BY ConcatProperties
<1>2. Append(s, e) = s \o <<e>> /\ Append(d \o s, e) = (d \o s) \o <<e>> BY <1>1, AppendIsConcat
<1>3. (d \o s) \o <<e>> = d \o (s \o <<e>>) BY <1>1, Regrouped
<1> QED BY <1>2, <1>3

LEMMA NumbersNext ==
  ASSUME NEW s \in Seq(Nat), NEW n \in Nat, s = Numbers(n)
  PROVE  Append(s, n + 1) = Numbers(n + 1)
<1>1. Len(s) = n /\ \A i \in 1..n : s[i] = i BY LenProperties DEF Numbers
<1>2. /\ Append(s, n + 1) \in Seq(Nat) /\ Len(Append(s, n + 1)) = n + 1
      /\ \A i \in 1..n + 1 : Append(s, n + 1)[i] = i
  BY <1>1, AppendProperties
<1>3. Append(s, n + 1) = [i \in 1..n + 1 |-> Append(s, n + 1)[i]] BY <1>2, LenProperties
<1> QED BY <1>2, <1>3 DEF Numbers

(* The steps of a Read under the receive mutex.                            *)
LEMMA ReadKeepsInput ==
  ASSUME Typed, ReadInv, NEW t \in Threads,
         ReadLock(t) \/ ReadTake(t) \/ Fill(t) \/ ReadEnd(t)
  PROVE  ReadInv'
<1> th[t] \in Local /\ Fresh(th[t]) /\ (Receiving(th[t]) <=> recvMutex = t)
  BY DEF Typed, TypeOK, ReadInv
<1> /\ {recvBuf, inPipe, delivered, Held, th[t].got} \subseteq Seq(Nat)
    /\ Len(recvBuf) \in Nat /\ Len(inPipe) \in Nat /\ th[t].want \in Nat
  BY HeldTyped, LocalFields, LenProperties DEF Typed, TypeOK
<1>1. ASSUME NEW r, Goes(t, r)
      PROVE  th'[t] = r /\ \A u \in Threads : u # t => th'[u] = th[u]
  BY <1>1 DEF Goes, Typed, TypeOK
<1>2. CASE ReadLock(t)
  <2> DEFINE r == [th[t] EXCEPT !.pc = "take"]
  <2>1. r.pc = "take" /\ r.got = <<>>
    BY <1>2 DEF Local, Fresh, ReadLock, At
  <2>2. th'[t] = r /\ \A u \in Threads : u # t => th'[u] = th[u] BY <1>1, <1>2 DEF ReadLock
  <2>3. /\ recvMutex = NoThread /\ recvMutex' = t
        /\ UNCHANGED <<recvBuf, inPipe, produced, delivered>>
    BY <1>2 DEF ReadLock, ReceiveMutexFree
  <2> HIDE DEF r
  <2>4. \A u \in Threads : (Receiving(th[u]) <=> recvMutex = u)'
    BY <2>1, <2>2, <2>3, USBDeviceAssumption DEF ReadInv, Receiving
  <2>5. \A u \in Threads : Fresh(th[u])' BY <2>1, <2>2 DEF ReadInv, Fresh, Flushing
  <2>6. Held' = Held BY <2>1, <2>2, <2>3, USBDeviceAssumption DEF Held
  <2> QED BY <2>1, <2>2, <2>3, <2>4, <2>5, <2>6 DEF ReadInv, Numbers
<1>3. CASE ReadTake(t)
  <2> DEFINE size == Lesser(th[t].want, Len(recvBuf))
             r == [th[t] EXCEPT !.got = @ \o SubSeq(recvBuf, 1, size), !.want = @ - size,
                                !.pc = IF size = th[t].want THEN "readend" ELSE "fill"]
  <2>1. /\ size \in 0..Len(recvBuf)
        /\ size # th[t].want => size = Len(recvBuf)
    BY DEF Lesser
  <2>2. /\ recvBuf' = SubSeq(recvBuf, size + 1, Len(recvBuf)) /\ Goes(t, r)
        /\ UNCHANGED <<recvMutex, inPipe, produced, delivered>> /\ th[t].pc = "take"
    BY <1>3 DEF ReadTake, RestKept, At
  <2> HIDE DEF size
  <2>3. /\ r.pc = IF size = th[t].want THEN "readend" ELSE "fill"
        /\ r.got = th[t].got \o SubSeq(recvBuf, 1, size)
    BY DEF Local
  <2> HIDE DEF r
  <2>4. th'[t] = r /\ \A u \in Threads : u # t => th'[u] = th[u] BY <1>1, <2>2
  <2>5. recvMutex = t BY <2>2 DEF Receiving
  <2>6. \A u \in Threads : (Receiving(th[u]) <=> recvMutex = u)'
    BY <2>2, <2>3, <2>4, <2>5 DEF ReadInv, Receiving
  <2>7. \A u \in Threads : Fresh(th[u])' BY <2>3, <2>4 DEF ReadInv, Fresh, Flushing
  <2>8. \A u \in Threads : (th[u].pc = "fill" => recvBuf = <<>>)'
    <3>1. size = Len(recvBuf) => recvBuf' = <<>> BY <2>2, SubSeqEmpty
    <3>2. \A u \in Threads : u # t => th[u].pc # "fill" BY <2>5 DEF ReadInv, Receiving
    <3> QED BY <2>1, <2>3, <2>4, <3>1, <3>2
  <2>9. delivered' \o Held' \o recvBuf' \o inPipe' = delivered \o Held \o recvBuf \o inPipe
    <3>1. Held = th[t].got /\ Held' = th[t].got \o SubSeq(recvBuf, 1, size)
      BY <2>2, <2>3, <2>4, <2>5, USBDeviceAssumption DEF Held
    <3>2. /\ delivered \in Seq(Nat) /\ th[t].got \in Seq(Nat) /\ recvBuf \in Seq(Nat)
          /\ size \in 0..Len(recvBuf)
      BY <2>1, <2>2
    <3>3. Shifted(delivered, th[t].got, recvBuf, size) BY <3>2, PieceMoves
    <3>4. recvBuf' = SubSeq(recvBuf, size + 1, Len(recvBuf)) /\ delivered' = delivered /\ inPipe' = inPipe
      BY <2>2
    <3> QED BY ZenonT(40), <3>1, <3>3, <3>4 DEF Shifted
  <2> QED BY <2>2, <2>6, <2>7, <2>8, <2>9 DEF ReadInv, Numbers
<1>4. CASE Fill(t)
  <2>1. PICK r : /\ Goes(t, r) /\ r.got = th[t].got
                 /\ \/ r.pc = "take"
                    \/ r.pc = "lock" /\ r.zero
    <3> DEFINE r1 == [th[t] EXCEPT !.pc = "take"]
               r2 == [th[t] EXCEPT !.pc = "lock", !.left = 3, !.zero = TRUE]
    <3>1. r1.pc = "take" /\ r1.got = th[t].got BY DEF Local
    <3>2. r2.pc = "lock" /\ r2.zero /\ r2.got = th[t].got BY DEF Local
    <3>3. Goes(t, r1) \/ Goes(t, r2) BY <1>4 DEF Fill
    <3> HIDE DEF r1, r2
    <3>4. CASE Goes(t, r1) BY <3>1, <3>4
    <3>5. CASE Goes(t, r2) BY <3>2, <3>5
    <3> QED BY <3>3, <3>4, <3>5
  <2>2. th'[t] = r /\ \A u \in Threads : u # t => th'[u] = th[u] BY <1>1, <2>1
  <2>3. /\ UNCHANGED <<recvMutex, produced, delivered>> /\ th[t].pc = "fill"
        /\ recvMutex = t /\ recvBuf = <<>>
    BY <1>4 DEF Fill, At, Receiving, ReadInv
  <2>4. \A u \in Threads : (Receiving(th[u]) <=> recvMutex = u)'
    BY <2>1, <2>2, <2>3 DEF ReadInv, Receiving
  <2>5. \A u \in Threads : Fresh(th[u])' BY <2>1, <2>2 DEF ReadInv, Fresh, Flushing
  <2>6. \A u \in Threads : (th[u].pc = "fill" => recvBuf = <<>>)'
    <3>1. \A u \in Threads : u # t => th[u].pc # "fill" BY <2>3 DEF ReadInv, Receiving
    <3> QED BY <2>1, <2>2, <3>1
  <2>7. Held' = Held BY <2>1, <2>2, <2>3, USBDeviceAssumption DEF Held
  <2>8. delivered \o Held \o recvBuf' \o inPipe' = delivered \o Held \o recvBuf \o inPipe
    <3>1. CASE recvBuf' = <<>> /\ UNCHANGED inPipe BY <2>3, <3>1
    <3>2. ASSUME NEW n \in 1..Lesser(Len(inPipe), BufSize),
                 recvBuf' = SubSeq(inPipe, 1, n),
                 inPipe' = SubSeq(inPipe, n + 1, Len(inPipe))
          PROVE  delivered \o Held \o recvBuf' \o inPipe' = delivered \o Held \o recvBuf \o inPipe
      <4>1. n \in 0..Len(inPipe) BY USBDeviceAssumption DEF Lesser
      <4>2. delivered \o Held \in Seq(Nat) BY ConcatProperties
      <4> QED BY <2>3, <3>2, <4>1, <4>2, PieceReplaces
    <3> QED BY <1>4, <3>1, <3>2 DEF Fill
  <2> QED BY <2>3, <2>4, <2>5, <2>6, <2>7, <2>8 DEF ReadInv, Numbers
<1>5. CASE ReadEnd(t)
  <2> DEFINE r == [th[t] EXCEPT !.pc = "idle"]
  <2>1. r.pc = "idle" BY DEF Local
  <2>2. th'[t] = r /\ \A u \in Threads : u # t => th'[u] = th[u] BY <1>1, <1>5 DEF ReadEnd
  <2>3. /\ recvMutex = t /\ recvMutex' = NoThread /\ delivered' = delivered \o th[t].got
        /\ UNCHANGED <<recvBuf, inPipe, produced>>
    BY <1>5 DEF ReadEnd, At, Receiving
  <2> HIDE DEF r
  <2>4. \A u \in Threads : (Receiving(th[u]) <=> recvMutex = u)'
    BY ZenonT(40), <2>1, <2>2, <2>3, USBDeviceAssumption DEF ReadInv, Receiving, Flushing, Writing
  <2>5. \A u \in Threads : Fresh(th[u])' BY <2>1, <2>2 DEF ReadInv, Fresh, Flushing
  <2>6. delivered' \o Held' = delivered \o Held
    <3>1. Held = th[t].got /\ Held' = <<>> BY <2>3, USBDeviceAssumption DEF Held
    <3> QED BY <2>3, <3>1, ConcatProperties, ConcatEmptySeq
  <2> QED BY <2>1, <2>2, <2>3, <2>4, <2>5, <2>6 DEF ReadInv, Numbers
<1> QED BY <1>2, <1>3, <1>4, <1>5

LEMMA NextKeepsInput == Typed /\ ReadInv /\ [Next]_vars => ReadInv'
<1> SUFFICES ASSUME Typed, ReadInv, [Next]_vars PROVE ReadInv' OBVIOUS
<1>1. CASE ReaderSends
  <2>1. UNCHANGED <<th, recvMutex, recvBuf, delivered>> BY <1>1 DEF ReaderSends
  <2>2. Held' = Held BY <2>1 DEF Held
  <2> DEFINE got == delivered \o Held \o recvBuf
  <2>3. got \in Seq(Nat) /\ inPipe \in Seq(Nat) /\ produced \in Nat
    BY HeldTyped, ConcatProperties DEF Typed, TypeOK
  <2> HIDE DEF got
  <2>4. got \o Append(inPipe, produced + 1) = Append(got \o inPipe, produced + 1)
    BY <2>3, AppendMoves
  <2>5. Append(got \o inPipe, produced + 1) = Numbers(produced + 1)
    BY <2>3, NumbersNext, ConcatProperties DEF ReadInv, got
  <2> QED BY <1>1, <2>1, <2>2, <2>4, <2>5 DEF ReaderSends, ReadInv, got
<1>2. CASE UNCHANGED vars
  BY <1>2 DEF vars, recvVars, ReadInv, Held
<1> QED
  BY <1>1, <1>2, StartKeepsInput, WriteKeepsInput, FlushKeepsInput, ReadKeepsInput
     DEF Next, Proceed

(* USBDevice.c:552-576: Read hands out what the reader sent, all of it and *)
(* in order, for any number of threads, whatever transfers the bytes come  *)
(* in, and although a Read that times out writes and lets others run.      *)
THEOREM ReadInOrder == Spec => []InputInOrder
<1>1. ReadInv => InputInOrder BY DEF ReadInv, InputInOrder, Held
<1> QED BY <1>1, InitTyped, NextTyped, InitRead, NextKeepsInput, PTL DEF Spec
-----------------------------------------------------------------------------
(* What reaches the reader *)

Uses(r) == r.pc \in Writing \cup Flushing

(* What the thread r has still to send: the buffer, with what it just      *)
(* copied behind the pointer; the transfer it is sending; or nothing, when *)
(* the transfer is sent and the pointer was not reset yet.                 *)
Pending(r, buf, p) ==
  IF r.pc = "advance" THEN SubSeq(buf, 1, p + r.size)
  ELSE IF r.pc = "send" THEN r.pkt
  ELSE IF r.pc = "reset" THEN <<>>
  ELSE SubSeq(buf, 1, p)

(* A Read waits for the reader, or is about to. *)
Waits(r) == r.pc \in {"readlock", "take", "fill"}

Exclusive == \A t, u \in Threads : Uses(th[t]) /\ Uses(th[u]) => t = u
Alone(t)  == \A u \in Threads : u # t => ~Uses(th[u])
Sent(t)   == Carries(outPipe \o Pending(th[t], sendBuf, sendPtr), written)
Steady(r, p) == r.pc \in {"copy", "advance"} => r.ptr = p

WriteInv ==
  ~raced =>
    /\ Exclusive
    /\ \A t \in Threads : Steady(th[t], sendPtr)
    /\ \A t \in Threads : Alone(t) => Sent(t)
    /\ (\A t \in Threads : ~Uses(th[t])) =>
          Carries(outPipe \o SubSeq(sendBuf, 1, sendPtr), written)
    /\ \E n \in 0..written : Carries(outPipe, n)
    /\ \A t \in Threads : th[t].mine <= written
    /\ \A t \in Threads : Waits(th[t]) => 1..th[t].mine \subseteq Bytes(outPipe)

LEMMA InitSent == Init => WriteInv
<1> SUFFICES ASSUME Init PROVE WriteInv OBVIOUS
<1>1. /\ outPipe = <<>> /\ written = 0 /\ sendPtr = 0
      /\ \A t \in Threads : th[t].pc = "idle" /\ th[t].mine = 0
  BY DEF Init
<1>2. SubSeq(sendBuf, 1, sendPtr) = <<>> BY <1>1, SubSeqEmpty
<1>3. <<>> \o <<>> = <<>> BY ConcatEmptySeq, EmptySeq
<1>4. Carries(<<>>, 0) BY EmptySeq DEF Carries, Bytes
<1>5. \A t \in Threads : ~Uses(th[t]) /\ ~Waits(th[t]) /\ Steady(th[t], sendPtr)
  BY <1>1 DEF Uses, Waits, Steady, Writing, Flushing
<1>6. \A t \in Threads : Sent(t) BY <1>1, <1>2, <1>3, <1>4 DEF Sent, Pending
<1>7. \E n \in 0..written : Carries(outPipe, n)
  <2>1. 0 \in 0..written BY <1>1
  <2> QED BY <1>1, <1>4, <2>1
<1>8. \A t \in Threads : th[t].mine <= written
  <2>1. 0 <= 0 OBVIOUS
  <2> QED BY <1>1, <2>1
<1>9. Carries(outPipe \o SubSeq(sendBuf, 1, sendPtr), written) BY <1>1, <1>2, <1>3, <1>4
<1>10. Exclusive BY <1>5 DEF Exclusive
<1> QED BY <1>5, <1>6, <1>7, <1>8, <1>9, <1>10 DEF WriteInv

(* A step of one thread, judged by what it leaves to send. *)
LEMMA SendStep ==
  ASSUME Typed, Typed', WriteInv, ~raced', Observe,
         NEW t \in Threads, NEW r, Goes(t, r),
         ~Uses(th[t]) => UNCHANGED <<sendBuf, sendPtr, outPipe, written>>,
         Steady(r, sendPtr'),
         Steady(th[t], sendPtr) /\ Sent(t) =>
           Carries(outPipe' \o Pending(r, sendBuf', sendPtr'), written'),
         \/ UNCHANGED outPipe
         \/ /\ Uses(th[t])
            /\ Sent(t) => Carries(outPipe', written')
            /\ Bytes(outPipe) \subseteq Bytes(outPipe'),
         written' \in Nat, written <= written',
         r.mine \in 0..written',
         Waits(r) => \/ Waits(th[t]) /\ r.mine = th[t].mine
                     \/ Uses(th[t]) /\ (Sent(t) => Carries(outPipe', written'))
  PROVE  WriteInv'
<1>1. ~raced /\ ~Race' BY DEF Observe
<1>2. /\ th'[t] = r
      /\ \A u \in Threads : u # t => th'[u] = th[u]
      /\ \A u \in Threads : th[u].mine \in Nat
      /\ written \in Nat
  BY LocalFields DEF Goes, Typed, TypeOK
<1>3. Exclusive'
  <2> SUFFICES ASSUME NEW u \in Threads, NEW v \in Threads, Uses(th'[u]), Uses(th'[v]) PROVE u = v
    BY DEF Exclusive
  <2>1. CASE ReadFlushing(u)' \/ ReadFlushing(v)' 
    BY <1>1, <2>1 DEF Race, UsesBuffer, Uses, Writing, Flushing
  <2>2. CASE ~ReadFlushing(u)' /\ ~ReadFlushing(v)'
    <3>1. Sending(th'[u]) /\ Sending(th'[v])
      BY <2>2 DEF ReadFlushing, Uses, Sending, Writing, Flushing
    <3> QED BY <3>1 DEF Typed, SendHeld
  <2> QED BY <2>1, <2>2
<1>4. Exclusive /\ \A u \in Threads : Alone(u) => Sent(u) BY <1>1 DEF WriteInv
<1>5. \A u \in Threads : (Steady(th[u], sendPtr))'
  <2> SUFFICES ASSUME NEW u \in Threads, u # t PROVE Steady(th'[u], sendPtr')
    BY <1>2
  <2>1. Steady(th[u], sendPtr) BY <1>1 DEF WriteInv
  <2>2. CASE Uses(th[t])
    <3>1. ~Uses(th[u]) BY <1>4, <2>2 DEF Exclusive
    <3> QED BY <1>2, <3>1 DEF Steady, Uses, Writing
  <2>3. CASE ~Uses(th[t]) BY <1>2, <2>1, <2>3
  <2> QED BY <2>2, <2>3
<1>6. Alone(t)' => Alone(t) BY <1>2 DEF Alone
<1>7. Alone(t) => Steady(th[t], sendPtr) /\ Sent(t) BY <1>1, <1>4 DEF WriteInv
<1>8. \A u \in Threads : (Alone(u) => Sent(u))'
  <2> SUFFICES ASSUME NEW u \in Threads, Alone(u)' PROVE Sent(u)'
    OBVIOUS
  <2>1. CASE u = t BY <1>2, <1>6, <1>7, <2>1 DEF Sent
  <2>2. CASE u # t /\ Uses(th[u])
    <3>1. ~Uses(th[t]) BY <1>4, <2>2 DEF Exclusive
    <3>2. Alone(u) BY <1>2, <2>2, <3>1 DEF Alone
    <3> QED BY <1>2, <1>4, <2>2, <3>1, <3>2 DEF Sent
  <2>3. CASE u # t /\ ~Uses(th[u])
    <3>1. Alone(t)' /\ ~Uses(r) BY <1>2, <2>3 DEF Alone
    <3>2. Carries(outPipe' \o Pending(r, sendBuf', sendPtr'), written') BY <1>6, <1>7, <3>1
    <3>3. Pending(r, sendBuf', sendPtr') = Pending(th'[u], sendBuf', sendPtr')
      BY <1>2, <2>3, <3>1 DEF Pending, Uses, Writing, Flushing
    <3> QED BY <3>2, <3>3 DEF Sent
  <2> QED BY <2>1, <2>2, <2>3
<1>9. ((\A u \in Threads : ~Uses(th[u])) =>
          Carries(outPipe \o SubSeq(sendBuf, 1, sendPtr), written))'
  <2> SUFFICES ASSUME \A u \in Threads : ~Uses(th'[u])
               PROVE  Carries(outPipe' \o SubSeq(sendBuf', 1, sendPtr'), written')
    OBVIOUS
  <2>1. Sent(t)' BY <1>8 DEF Alone
  <2>2. ~Uses(th'[t]) OBVIOUS
  <2> QED BY <2>1, <2>2 DEF Sent, Pending, Uses, Writing, Flushing
<1>10. (\E n \in 0..written : Carries(outPipe, n))'
  <2>1. PICK n \in 0..written : Carries(outPipe, n) BY <1>1 DEF WriteInv
  <2>2. CASE UNCHANGED outPipe
    <3>1. n \in 0..written' BY <1>2
    <3> QED BY <2>1, <2>2, <3>1
  <2>3. CASE ~UNCHANGED outPipe
    <3>1. Uses(th[t]) BY <2>3
    <3>2. Alone(t) BY <1>4, <3>1 DEF Alone, Exclusive
    <3>3. Carries(outPipe', written') /\ written' \in 0..written' BY <1>7, <2>3, <3>2
    <3> QED BY <3>3
  <2> QED BY <2>2, <2>3
<1>11. \A u \in Threads : (th[u].mine <= written)'
  <2>1. \A u \in Threads : th[u].mine <= written BY <1>1 DEF WriteInv
  <2> QED BY <1>2, <2>1
<1>12. \A u \in Threads : (Waits(th[u]) => 1..th[u].mine \subseteq Bytes(outPipe))'
  <2>1. Bytes(outPipe) \subseteq Bytes(outPipe') OBVIOUS
  <2>2. \A u \in Threads : Waits(th[u]) => 1..th[u].mine \subseteq Bytes(outPipe)
    BY <1>1 DEF WriteInv
  <2>3. CASE Waits(r) => Waits(th[t]) /\ r.mine = th[t].mine BY <1>2, <2>1, <2>2, <2>3
  <2>4. CASE Uses(th[t]) /\ (Sent(t) => Carries(outPipe', written'))
    <3>1. Alone(t) BY <1>4, <2>4 DEF Alone, Exclusive
    <3>2. 1..written' \subseteq Bytes(outPipe') BY <1>7, <2>4, <3>1 DEF Carries
    <3>3. 1..r.mine \subseteq 1..written' OBVIOUS
    <3> QED BY <1>2, <2>1, <2>2, <3>2, <3>3
  <2> QED BY <2>3, <2>4
<1> QED BY <1>3, <1>5, <1>8, <1>9, <1>10, <1>11, <1>12 DEF WriteInv

LEMMA Before ==
  ASSUME Typed, WriteInv, Observe, ~raced', NEW t \in Threads
  PROVE  /\ ~raced /\ th[t] \in Local /\ Called(th[t]) /\ Fits(th[t], sendPtr)
         /\ Steady(th[t], sendPtr)
         /\ th[t].mine \in 0..written
         /\ written \in Nat /\ outPipe \in Seq(Nat) /\ sendPtr \in 0..BufSize
         /\ sendBuf \in [1..BufSize -> Nat] /\ BufSize \in Nat
<1>1. ~raced BY DEF Observe
<1>2. Steady(th[t], sendPtr) /\ th[t].mine <= written BY <1>1 DEF WriteInv
<1>3. /\ th[t] \in Local /\ Called(th[t]) /\ Fits(th[t], sendPtr)
      /\ written \in Nat /\ outPipe \in Seq(Nat) /\ sendPtr \in 0..BufSize
      /\ sendBuf \in [1..BufSize -> Nat] /\ BufSize \in Nat
  BY USBDeviceAssumption DEF Typed, TypeOK, FlushCalled, CopyFits
<1>4. th[t].mine \in 0..written BY <1>2, <1>3, LocalFields
<1> QED BY <1>1, <1>2, <1>3, <1>4

(* A step that leaves all that is sent or to be sent as it is. *)
LEMMA SendApart ==
  ASSUME Typed, Typed', WriteInv, ~raced', Observe,
         NEW t \in Threads, NEW r, Goes(t, r),
         UNCHANGED <<sendBuf, sendPtr, outPipe, written>>,
         Steady(r, sendPtr), r.mine = th[t].mine,
         r.pc \notin {"advance", "send", "reset"},
         th[t].pc \notin {"advance", "send", "reset"},
         Waits(r) => Waits(th[t])
  PROVE  WriteInv'
<1>1. th[t].mine \in 0..written /\ written \in Nat BY Before
<1>2. Pending(r, sendBuf', sendPtr') = Pending(th[t], sendBuf, sendPtr) BY DEF Pending
<1>3. Sent(t) => Carries(outPipe' \o Pending(r, sendBuf', sendPtr'), written') BY <1>2 DEF Sent
<1> QED BY <1>1, <1>3, SendStep

LEMMA StartKeepsOutput ==
  ASSUME Typed, Typed', WriteInv, ~raced', Observe, NEW t \in Threads,
         StartWrite(t) \/ StartFlush(t) \/ StartRead(t)
  PROVE  WriteInv'
<1> th[t] \in Local /\ th[t].pc = "idle"
  BY DEF Typed, TypeOK, StartWrite, StartFlush, StartRead, Begin, At
<1> UNCHANGED <<sendBuf, sendPtr, outPipe, written>>
  BY DEF StartWrite, StartFlush, StartRead, sendVars
<1>1. CASE StartWrite(t)
  <2>1. PICK n \in Lengths : Goes(t, [th[t] EXCEPT !.pc = "lock", !.left = n, !.zero = FALSE])
    BY <1>1 DEF StartWrite
  <2> DEFINE r == [th[t] EXCEPT !.pc = "lock", !.left = n, !.zero = FALSE]
  <2>2. r.pc = "lock" /\ r.mine = th[t].mine BY DEF Local
  <2> HIDE DEF r
  <2> QED BY <2>1, <2>2, SendApart DEF Steady, Waits, r
<1>2. CASE StartFlush(t)
  <2> DEFINE r == [th[t] EXCEPT !.pc = "flushlock", !.next = "idle"]
  <2>1. r.pc = "flushlock" /\ r.mine = th[t].mine BY DEF Local
  <2>2. Goes(t, r) BY <1>2 DEF StartFlush
  <2> HIDE DEF r
  <2> QED BY <2>1, <2>2, SendApart DEF Steady, Waits
<1>3. CASE StartRead(t)
  <2>1. PICK n \in Lengths :
          Goes(t, [th[t] EXCEPT !.pc = ReadFlushes, !.locked = FALSE,
                                !.next = "readlock", !.want = n, !.got = <<>>])
    BY <1>3 DEF StartRead
  <2> DEFINE r == [th[t] EXCEPT !.pc = ReadFlushes, !.locked = FALSE,
                                !.next = "readlock", !.want = n, !.got = <<>>]
  <2>2. r.pc = "flush" /\ r.mine = th[t].mine BY DEF Local, ReadFlushes
  <2>3. Goes(t, r) BY <2>1
  <2> HIDE DEF r
  <2> QED BY <2>2, <2>3, SendApart DEF Steady, Waits
<1> QED BY <1>1, <1>2, <1>3

LEMMA ReadKeepsOutput ==
  ASSUME Typed, Typed', WriteInv, ~raced', Observe, NEW t \in Threads,
         ReadLock(t) \/ ReadTake(t) \/ Fill(t) \/ ZeroFlush(t) \/ ReadEnd(t)
  PROVE  WriteInv'
<1> th[t] \in Local BY DEF Typed, TypeOK
<1> UNCHANGED <<sendBuf, sendPtr, outPipe, written>>
  BY DEF ReadLock, ReadTake, Fill, ZeroFlush, ReadEnd, sendVars
<1>1. ASSUME NEW r, Goes(t, r), r.mine = th[t].mine,
             th[t].pc \in {"readlock", "take", "fill", "zeroflush", "readend"},
             r.pc \in {"take", "fill", "lock", "flushlock", "readend", "idle"},
             Waits(r) => Waits(th[t])
      PROVE  WriteInv'
  <2>1. Steady(r, sendPtr) BY <1>1 DEF Steady
  <2> QED BY <1>1, <2>1, SendApart
<1>2. CASE ReadLock(t) \/ ReadEnd(t)
  <2>1. /\ [th[t] EXCEPT !.pc = "take"].pc = "take" /\ [th[t] EXCEPT !.pc = "take"].mine = th[t].mine
        /\ [th[t] EXCEPT !.pc = "idle"].pc = "idle" /\ [th[t] EXCEPT !.pc = "idle"].mine = th[t].mine
    BY DEF Local
  <2> QED BY <1>1, <1>2, <2>1 DEF ReadLock, ReadEnd, At, Waits
<1>3. CASE ReadTake(t)
  <2> DEFINE size == Lesser(th[t].want, Len(recvBuf))
             r == [th[t] EXCEPT !.got = @ \o SubSeq(recvBuf, 1, size), !.want = @ - size,
                                !.pc = IF size = th[t].want THEN "readend" ELSE "fill"]
  <2> HIDE DEF size
  <2>1. r.pc \in {"readend", "fill"} /\ r.mine = th[t].mine BY DEF Local
  <2>2. Goes(t, r) /\ th[t].pc = "take" BY <1>3 DEF ReadTake, At, size
  <2> HIDE DEF r
  <2> QED BY <1>1, <2>1, <2>2 DEF Waits
<1>4. CASE Fill(t)
  <2> DEFINE r1 == [th[t] EXCEPT !.pc = "take"]
             r2 == [th[t] EXCEPT !.pc = "lock", !.left = 3, !.zero = TRUE]
  <2>1. r1.pc = "take" /\ r1.mine = th[t].mine /\ r2.pc = "lock" /\ r2.mine = th[t].mine
    BY DEF Local
  <2>2. (Goes(t, r1) \/ Goes(t, r2)) /\ th[t].pc = "fill" BY <1>4 DEF Fill, At
  <2> HIDE DEF r1, r2
  <2>3. CASE Goes(t, r1) BY <1>1, <2>1, <2>2, <2>3 DEF Waits
  <2>4. CASE Goes(t, r2) BY <1>1, <2>1, <2>2, <2>4 DEF Waits
  <2> QED BY <2>2, <2>3, <2>4
<1>5. CASE ZeroFlush(t)
  <2> DEFINE r1 == [th[t] EXCEPT !.pc = "flushlock", !.next = "readend"]
             r2 == [th[t] EXCEPT !.pc = "readend"]
  <2>1. r1.pc = "flushlock" /\ r1.mine = th[t].mine /\ r2.pc = "readend" /\ r2.mine = th[t].mine
    BY DEF Local
  <2>2. (Goes(t, r1) \/ Goes(t, r2)) /\ th[t].pc = "zeroflush" BY <1>5 DEF ZeroFlush, At
  <2> HIDE DEF r1, r2
  <2>3. CASE Goes(t, r1) BY <1>1, <2>1, <2>2, <2>3 DEF Waits
  <2>4. CASE Goes(t, r2) BY <1>1, <2>1, <2>2, <2>4 DEF Waits
  <2> QED BY <2>2, <2>3, <2>4
<1> QED BY <1>2, <1>3, <1>4, <1>5

(* The bytes that one copy adds to a sequence which carries n of them. *)
LEMMA CopyCarries ==
  ASSUME NEW l \in Nat, NEW k \in Nat, NEW n \in Nat,
         NEW s \in [1..l -> Nat], NEW x \in [1 .. l + k -> Nat],
         Carries(s, n),
         \A i \in 1..l : x[i] = s[i]
  PROVE  /\ (\A i \in l + 1 .. l + k : x[i] = 0) => Carries(x, n)
         /\ (\A i \in l + 1 .. l + k : x[i] = n + (i - l)) => Carries(x, n + k)
<1>1. DOMAIN s = 1..l /\ DOMAIN x = 1 .. l + k OBVIOUS
<1>2. /\ \A i \in 1..l : s[i] \in 0..n
      /\ \A m \in 1..n : \E i \in 1..l : s[i] = m
      /\ \A i, j \in 1..l : i < j /\ s[j] # 0 => s[i] < s[j]
  <2>1. Bytes(s) \ {0} = 1..n BY DEF Carries
  <2>2. Bytes(s) = {s[i] : i \in 1..l} BY <1>1 DEF Bytes
  <2>3. \A i \in 1..l : s[i] = 0 \/ s[i] \in 1..n BY <2>1, <2>2
  <2>4. \A m \in 1..n : m \in Bytes(s) BY <2>1
  <2> QED BY <1>1, <2>2, <2>3, <2>4 DEF Carries
<1>3. ASSUME \A i \in l + 1 .. l + k : x[i] = 0 PROVE Carries(x, n)
  <2>1. ASSUME NEW i \in 1 .. l + k PROVE x[i] \in 0..n
    <3>1. CASE i \in 1..l BY <1>2, <3>1
    <3>2. CASE i \notin 1..l
      <4>1. i \in l + 1 .. l + k BY <3>2
      <4> QED BY <1>3, <4>1
    <3> QED BY <3>1, <3>2
  <2>2. ASSUME NEW m \in 1..n PROVE \E i \in 1 .. l + k : x[i] = m
    <3>1. PICK i \in 1..l : s[i] = m BY <1>2
    <3>2. i \in 1 .. l + k /\ x[i] = m BY <3>1
    <3> QED BY <3>2
  <2>3. Bytes(x) \ {0} = 1..n BY <1>1, <2>1, <2>2 DEF Bytes
  <2>4. \A i, j \in 1 .. l + k : i < j /\ x[j] # 0 => x[i] < x[j] BY <1>1, <1>2, <1>3
  <2> QED BY <1>1, <2>3, <2>4 DEF Carries
<1>4. ASSUME \A i \in l + 1 .. l + k : x[i] = n + (i - l) PROVE Carries(x, n + k)
  <2>1. \A i \in 1 .. l + k : x[i] \in 0 .. n + k BY <1>1, <1>2, <1>4
  <2>2. ASSUME NEW m \in 1 .. n + k PROVE \E i \in 1 .. l + k : x[i] = m
    <3>1. CASE m \in 1..n BY SMTT(30), <1>1, <1>2, <3>1
    <3>2. CASE m \notin 1..n
      <4>1. l + (m - n) \in l + 1 .. l + k BY <1>1, <3>2
      <4>2. x[l + (m - n)] = m BY <1>1, <1>4, <4>1
      <4> QED BY <1>1, <4>1, <4>2
    <3> QED BY <3>1, <3>2
  <2>3. Bytes(x) \ {0} = 1 .. n + k BY <1>1, <2>1, <2>2 DEF Bytes
  <2>4. \A i, j \in 1 .. l + k : i < j /\ x[j] # 0 => x[i] < x[j]
    <3> SUFFICES ASSUME NEW i \in 1 .. l + k, NEW j \in 1 .. l + k, i < j, x[j] # 0
                 PROVE  x[i] < x[j]
      OBVIOUS
    <3>1. CASE j \in 1..l BY <1>1, <1>2, <3>1
    <3>2. CASE i \in 1..l /\ j \notin 1..l BY <1>1, <1>2, <1>4, <3>2
    <3>3. CASE i \notin 1..l /\ j \notin 1..l BY <1>1, <1>4, <3>3
    <3> QED BY <1>1, <3>1, <3>2, <3>3
  <2> QED BY <1>1, <2>3, <2>4 DEF Carries
<1> QED BY <1>3, <1>4

LEMMA BufferPart ==
  ASSUME NEW out \in Seq(Nat), NEW buf \in [1..BufSize -> Nat], NEW p \in 0..BufSize,
         BufSize \in Nat
  PROVE  /\ SubSeq(buf, 1, p) \in Seq(Nat)
         /\ out \o SubSeq(buf, 1, p) \in Seq(Nat)
         /\ Len(out \o SubSeq(buf, 1, p)) = Len(out) + p
         /\ \A i \in 1 .. Len(out) + p :
              (out \o SubSeq(buf, 1, p))[i] = IF i <= Len(out) THEN out[i] ELSE buf[i - Len(out)]
<1>1. Len(out) \in Nat BY LenProperties
<1>2. /\ SubSeq(buf, 1, p) \in Seq(Nat)
      /\ Len(SubSeq(buf, 1, p)) = p
      /\ \A i \in 1..p : SubSeq(buf, 1, p)[i] = buf[i]
  BY SubSeqProperties
<1> QED BY <1>1, <1>2, ConcatProperties

LEMMA WriteKeepsOutput ==
  ASSUME Typed, Typed', WriteInv, ~raced', Observe, NEW t \in Threads,
         WriteLock(t) \/ StartCopy(t) \/ WriteCopy(t) \/ WriteAdvance(t) \/ WriteEnd(t)
  PROVE  WriteInv'
<1>0. /\ ~raced /\ th[t] \in Local /\ Called(th[t]) /\ Fits(th[t], sendPtr)
      /\ Steady(th[t], sendPtr)
      /\ th[t].mine \in 0..written
      /\ written \in Nat /\ outPipe \in Seq(Nat) /\ sendPtr \in 0..BufSize
      /\ sendBuf \in [1..BufSize -> Nat] /\ BufSize \in Nat
  BY Before
<1>1. CASE WriteLock(t)
  <2> DEFINE r == [th[t] EXCEPT !.pc = "size"]
  <2>1. r.pc = "size" /\ r.mine = th[t].mine BY <1>0 DEF Local
  <2>2. /\ Goes(t, r) /\ UNCHANGED <<sendBuf, sendPtr, outPipe, written>> /\ th[t].pc = "lock"
    BY <1>1 DEF WriteLock, At
  <2> HIDE DEF r
  <2> QED BY <2>1, <2>2, SendApart DEF Steady, Waits
<1>2. CASE StartCopy(t)
  <2> DEFINE r == [th[t] EXCEPT !.pc = "copy", !.ptr = sendPtr, !.size = WriteSize(th[t].left)]
  <2>1. r.pc = "copy" /\ r.mine = th[t].mine /\ r.ptr = sendPtr BY <1>0 DEF Local
  <2>2. /\ Goes(t, r) /\ UNCHANGED <<sendBuf, sendPtr, outPipe, written>> /\ th[t].pc = "size"
    BY <1>2 DEF StartCopy, At, sendVars
  <2> HIDE DEF r
  <2> QED BY <2>1, <2>2, SendApart DEF Steady, Waits
<1>3. CASE WriteCopy(t)
  <2>1. PICK base \in {th[t].ptr, sendPtr} :
          /\ sendBuf' = [i \in 1..BufSize |->
                           IF i \in base + 1 .. base + th[t].size
                           THEN IF th[t].zero THEN 0 ELSE written + (i - base)
                           ELSE sendBuf[i]]
          /\ Goes(t, [th[t] EXCEPT !.pc = "advance", !.ptr = base])
    BY <1>3 DEF WriteCopy
  <2> DEFINE r == [th[t] EXCEPT !.pc = "advance", !.ptr = base]
             k == th[t].size
             p == sendPtr + k
  <2>2. th[t].pc = "copy" /\ base = sendPtr BY <1>0, <1>3, <2>1 DEF WriteCopy, At, Steady
  <2>3. k \in Nat /\ p \in 0..BufSize BY SMTT(30), <1>0, <2>2, LocalFields DEF Fits
  <2>4. r.pc = "advance" /\ r.mine = th[t].mine /\ r.ptr = sendPtr /\ r.size = k
    BY <1>0, <2>2 DEF Local
  <2>5. Goes(t, r) BY <2>1
  <2>6. /\ UNCHANGED <<sendPtr, outPipe>>
        /\ written' = IF th[t].zero THEN written ELSE written + k
    BY <1>3 DEF WriteCopy
  <2>7. /\ sendBuf' \in [1..BufSize -> Nat]
        /\ \A i \in 1..BufSize : sendBuf'[i] = IF i \in sendPtr + 1 .. p
                                             THEN IF th[t].zero THEN 0 ELSE written + (i - sendPtr)
                                             ELSE sendBuf[i]
    BY <2>1, <2>2 DEF Typed, TypeOK
  <2> HIDE DEF r, k, p
  <2>8. Sent(t) => Carries(outPipe' \o Pending(r, sendBuf', sendPtr'), written')
    <3> DEFINE l == Len(outPipe) + sendPtr
               s == outPipe \o SubSeq(sendBuf, 1, sendPtr)
               x == outPipe \o SubSeq(sendBuf', 1, p)
    <3>1. SUFFICES ASSUME Carries(s, written) PROVE Carries(x, written')
      BY <2>2, <2>4, <2>6 DEF Sent, Pending, p
    <3>2. /\ s \in Seq(Nat) /\ Len(s) = l
          /\ \A i \in 1..l : s[i] = IF i <= Len(outPipe) THEN outPipe[i] ELSE sendBuf[i - Len(outPipe)]
      BY <1>0, BufferPart
    <3>3. /\ x \in Seq(Nat) /\ Len(x) = Len(outPipe) + p
          /\ \A i \in 1 .. Len(outPipe) + p :
               x[i] = IF i <= Len(outPipe) THEN outPipe[i] ELSE sendBuf'[i - Len(outPipe)]
      BY SMTT(30), <1>0, <2>3, <2>7, BufferPart
    <3>4. Len(outPipe) \in Nat /\ l \in Nat /\ Len(outPipe) + p = l + k
      BY <1>0, <2>3, LenProperties DEF p
    <3>5. s \in [1..l -> Nat] /\ x \in [1 .. l + k -> Nat] BY <3>2, <3>3, <3>4, LenProperties
    <3> HIDE DEF s, x
    <3>6. \A i \in 1..l : x[i] = s[i]
      <4> SUFFICES ASSUME NEW i \in 1..l PROVE x[i] = s[i] OBVIOUS
      <4>1. CASE i <= Len(outPipe)
        <5>1. i \in 1 .. Len(outPipe) + p BY <2>3, <3>4
        <5> QED BY <3>2, <3>3, <4>1, <5>1
      <4>2. CASE ~(i <= Len(outPipe))
        <5>1. i - Len(outPipe) \in 1..sendPtr BY SMTT(30), <1>0, <3>4, <4>2
        <5>2. sendBuf'[i - Len(outPipe)] = sendBuf[i - Len(outPipe)] BY SMTT(30), <1>0, <2>7, <5>1
        <5> QED BY SMTT(30), <2>3, <3>2, <3>3, <3>4, <4>2, <5>2
      <4> QED BY <4>1, <4>2
    <3>7. \A i \in l + 1 .. l + k : x[i] = IF th[t].zero THEN 0 ELSE written + (i - l)
      <4> SUFFICES ASSUME NEW i \in l + 1 .. l + k
                   PROVE  x[i] = IF th[t].zero THEN 0 ELSE written + (i - l)
        OBVIOUS
      <4>1. i \in Nat /\ l + 1 <= i /\ i <= l + k /\ sendPtr \in Nat BY <1>0, <2>3, <3>4
      <4>5. i \in 1 .. Len(outPipe) + p /\ ~(i <= Len(outPipe)) BY <2>3, <3>4, <4>1
      <4>2. i - Len(outPipe) \in sendPtr + 1 .. p BY <1>0, <2>3, <3>4 DEF p
      <4>3. i - Len(outPipe) \in 1..BufSize /\ (i - Len(outPipe)) - sendPtr = i - l
        BY <1>0, <2>3, <3>4, <4>2
      <4>4. x[i] = sendBuf'[i - Len(outPipe)] BY <3>3, <4>5
      <4> HIDE DEF l
      <4> QED BY <2>7, <4>2, <4>3, <4>4
    <3> HIDE DEF l
    <3> QED BY <1>0, <2>3, <2>6, <3>1, <3>4, <3>5, <3>6, <3>7, CopyCarries
  <2>9. Steady(r, sendPtr') /\ ~Waits(r) /\ Uses(th[t])
    BY <2>2, <2>4, <2>6 DEF Steady, Waits, Uses, Writing
  <2>10. written' \in Nat /\ written <= written' BY <1>0, <2>3, <2>6
  <2>11. r.mine \in 0..written' BY <1>0, <2>4, <2>10
  <2> QED BY <2>5, <2>6, <2>8, <2>9, <2>10, <2>11, SendStep
<1>4. CASE WriteAdvance(t)
  <2>1. PICK p \in {th[t].ptr + th[t].size, sendPtr + th[t].size} :
          /\ sendPtr' = p
          /\ Goes(t, [th[t] EXCEPT !.left = @ - th[t].size,
                                   !.pc = IF p = BufSize THEN FlushHere ELSE "size",
                                   !.locked = FALSE, !.next = "size"])
    BY <1>4 DEF WriteAdvance
  <2> DEFINE r == [th[t] EXCEPT !.left = @ - th[t].size,
                                !.pc = IF p = BufSize THEN FlushHere ELSE "size",
                                !.locked = FALSE, !.next = "size"]
  <2>2. r.pc \in {"size", "flush"} /\ r.mine = th[t].mine BY <1>0 DEF Local, FlushHere
  <2>3. /\ th[t].pc = "advance" /\ sendPtr' = sendPtr + th[t].size
        /\ UNCHANGED <<sendBuf, outPipe, written>>
    BY <1>0, <1>4, <2>1 DEF WriteAdvance, At, Steady
  <2>4. Goes(t, r) BY <2>1
  <2> HIDE DEF r
  <2>5. Sent(t) => Carries(outPipe' \o Pending(r, sendBuf', sendPtr'), written')
    BY <2>2, <2>3 DEF Sent, Pending
  <2>6. Steady(r, sendPtr') /\ ~Waits(r) /\ Uses(th[t])
    BY <2>2, <2>3 DEF Steady, Waits, Uses, Writing
  <2>7. written' \in Nat /\ written <= written' /\ r.mine \in 0..written' BY <1>0, <2>2, <2>3
  <2> QED BY <2>3, <2>4, <2>5, <2>6, <2>7, SendStep
<1>5. CASE WriteEnd(t)
  <2> DEFINE r == IF th[t].zero THEN [th[t] EXCEPT !.pc = "zeroflush"]
                  ELSE [th[t] EXCEPT !.pc = "idle", !.mine = written]
  <2>1. r.pc \in {"zeroflush", "idle"} /\ r.mine \in {th[t].mine, written}
    BY <1>0 DEF Local
  <2>2. /\ Goes(t, r) /\ th[t].pc = "size" /\ UNCHANGED <<sendBuf, sendPtr, outPipe, written>>
    BY <1>5 DEF WriteEnd, At
  <2> HIDE DEF r
  <2>3. Sent(t) => Carries(outPipe' \o Pending(r, sendBuf', sendPtr'), written')
    BY <2>1, <2>2 DEF Sent, Pending
  <2>4. Steady(r, sendPtr') /\ ~Waits(r)
    BY <2>1 DEF Steady, Waits
  <2>5. written' \in Nat /\ written <= written' /\ r.mine \in 0..written' BY <1>0, <2>1, <2>2
  <2> QED BY <2>2, <2>3, <2>4, <2>5, SendStep
<1> QED BY <1>1, <1>2, <1>3, <1>4, <1>5

LEMMA FlushKeepsOutput ==
  ASSUME Typed, Typed', WriteInv, ~raced', Observe, "write" \notin Faults, NEW t \in Threads,
         FlushLock(t) \/ FlushCopy(t) \/ UsbWrite(t) \/ FlushReset(t)
  PROVE  WriteInv'
<1>0. /\ th[t] \in Local /\ Called(th[t])
      /\ th[t].mine \in 0..written
      /\ written \in Nat /\ outPipe \in Seq(Nat) /\ sendPtr \in 0..BufSize
      /\ sendBuf \in [1..BufSize -> Nat] /\ BufSize \in Nat
  BY Before
<1>1. outPipe \o <<>> = outPipe BY <1>0, ConcatEmptySeq
<1>2. CASE FlushLock(t)
  <2> DEFINE r == [th[t] EXCEPT !.pc = "flush", !.locked = TRUE]
  <2>1. r.pc = "flush" /\ r.mine = th[t].mine BY <1>0 DEF Local
  <2>2. /\ Goes(t, r) /\ UNCHANGED <<sendBuf, sendPtr, outPipe, written>> /\ th[t].pc = "flushlock"
    BY <1>2 DEF FlushLock, At
  <2> HIDE DEF r
  <2> QED BY <2>1, <2>2, SendApart DEF Steady, Waits
(* The flush returns: the buffer is empty, and all that was written left.  *)
<1>3. ASSUME th[t].pc \in {"flush", "reset"}, FlushReturn(t), sendPtr' = 0,
             th[t].pc = "flush" => sendPtr = 0,
             UNCHANGED <<sendBuf, outPipe, written>>
      PROVE  WriteInv'
  <2> DEFINE r == [th[t] EXCEPT !.pc = th[t].next]
  <2>1. r.pc = th[t].next /\ r.mine = th[t].mine BY <1>0 DEF Local
  <2>2. Goes(t, r) BY <1>3 DEF FlushReturn
  <2> HIDE DEF r
  <2>3. r.pc \in {"size", "idle", "readend", "readlock"}
    BY <1>0, <1>3, <2>1 DEF Called, Flushing
  <2>4. SubSeq(sendBuf, 1, 0) = <<>> BY SubSeqEmpty
  <2>5. Pending(th[t], sendBuf, sendPtr) = <<>> /\ Pending(r, sendBuf', sendPtr') = <<>>
    BY <1>3, <2>3, <2>4 DEF Pending
  <2>6. Sent(t) => /\ Carries(outPipe' \o Pending(r, sendBuf', sendPtr'), written')
                   /\ Carries(outPipe', written')
    BY <1>1, <1>3, <2>5 DEF Sent
  <2>7. Steady(r, sendPtr') /\ Uses(th[t]) BY <1>3, <2>3 DEF Steady, Uses, Flushing
  <2>8. written' \in Nat /\ written <= written' /\ r.mine \in 0..written' BY <1>0, <1>3, <2>1
  <2> QED BY <1>3, <2>2, <2>6, <2>7, <2>8, SendStep
<1>4. CASE FlushCopy(t)
  <2>1. th[t].pc = "flush" /\ UNCHANGED <<sendBuf, sendPtr, outPipe, written>>
    BY <1>4 DEF FlushCopy, At
  <2>2. CASE sendPtr = 0 BY <1>3, <1>4, <2>1, <2>2 DEF FlushCopy
  <2>3. CASE sendPtr # 0
    <3> DEFINE r == [th[t] EXCEPT !.pc = "send", !.pkt = SubSeq(sendBuf, 1, sendPtr)]
    <3>1. r.pc = "send" /\ r.mine = th[t].mine /\ r.pkt = SubSeq(sendBuf, 1, sendPtr)
      BY <1>0 DEF Local
    <3>2. Goes(t, r) BY <1>4, <2>3 DEF FlushCopy
    <3> HIDE DEF r
    <3>3. Sent(t) => Carries(outPipe' \o Pending(r, sendBuf', sendPtr'), written')
      BY <2>1, <3>1 DEF Sent, Pending
    <3>4. Steady(r, sendPtr') /\ ~Waits(r) BY <3>1 DEF Steady, Waits
    <3>5. written' \in Nat /\ written <= written' /\ r.mine \in 0..written' BY <1>0, <2>1, <3>1
    <3> QED BY <2>1, <3>2, <3>3, <3>4, <3>5, SendStep
  <2> QED BY <2>2, <2>3
<1>5. CASE UsbWrite(t)
  <2> DEFINE r == [th[t] EXCEPT !.pc = "reset"]
  <2>1. r.pc = "reset" /\ r.mine = th[t].mine BY <1>0 DEF Local
  <2>2. /\ th[t].pc = "send" /\ Goes(t, r) /\ outPipe' = outPipe \o th[t].pkt
        /\ UNCHANGED <<sendBuf, sendPtr, written>>
    BY <1>5 DEF UsbWrite, At
  <2> HIDE DEF r
  <2>3. outPipe' \in Seq(Nat) BY <1>0, <2>2, LocalFields, ConcatProperties
  <2>4. Sent(t) => Carries(outPipe', written') BY <2>1, <2>2 DEF Sent, Pending
  <2>5. Sent(t) => Carries(outPipe' \o Pending(r, sendBuf', sendPtr'), written')
    <3>1. Pending(r, sendBuf', sendPtr') = <<>> BY <2>1 DEF Pending
    <3>2. outPipe' \o <<>> = outPipe' BY <2>3, ConcatEmptySeq
    <3> QED BY <2>4, <3>1, <3>2
  <2>6. Bytes(outPipe) \subseteq Bytes(outPipe')
    <3>1. th[t].pkt \in Seq(Nat) BY <1>0, LocalFields
    <3>2. /\ Len(outPipe) \in Nat /\ Len(th[t].pkt) \in Nat
          /\ DOMAIN outPipe = 1..Len(outPipe)
          /\ DOMAIN outPipe' = 1 .. Len(outPipe) + Len(th[t].pkt)
          /\ \A i \in 1..Len(outPipe) : outPipe'[i] = outPipe[i]
      BY <1>0, <2>2, <2>3, <3>1, LenProperties, ConcatProperties
    <3> QED BY <3>2 DEF Bytes
  <2>7. Steady(r, sendPtr') /\ ~Waits(r) /\ Uses(th[t])
    BY <2>1, <2>2 DEF Steady, Waits, Uses, Flushing
  <2>8. written' \in Nat /\ written <= written' /\ r.mine \in 0..written' BY <1>0, <2>1, <2>2
  <2> QED BY <2>2, <2>4, <2>5, <2>6, <2>7, <2>8, SendStep
<1>6. CASE FlushReset(t)
  <2>1. th[t].pc = "reset" /\ FlushReturn(t) /\ sendPtr' = 0 /\ UNCHANGED <<sendBuf, outPipe, written>>
    BY <1>6 DEF FlushReset, At, ResetPtr
  <2> QED BY <1>3, <2>1
<1> QED BY <1>2, <1>4, <1>5, <1>6

LEMMA NextKeepsOutput ==
  Typed /\ WriteInv /\ "write" \notin Faults /\ [Next]_vars => WriteInv'
<1> SUFFICES ASSUME Typed, WriteInv, "write" \notin Faults, [Next]_vars, ~raced' PROVE WriteInv'
  BY DEF WriteInv
<1>1. Typed' BY NextTyped
<1>2. CASE ReaderSends /\ UNCHANGED raced
  BY <1>2 DEF ReaderSends, sendVars, WriteInv, Exclusive, Alone, Sent
<1>3. CASE UNCHANGED vars
  BY <1>3 DEF vars, sendVars, WriteInv, Exclusive, Alone, Sent
<1> QED
  BY <1>1, <1>2, <1>3, StartKeepsOutput, WriteKeepsOutput, FlushKeepsOutput, ReadKeepsOutput
     DEF Next, Proceed

(* USBDevice.c:507-523: what Write took reaches the reader once and in     *)
(* order, and when no call is in progress the rest is in the buffer, for   *)
(* any number of threads, as long as no Read flushed under another thread  *)
(* and no transfer fails (a failed one is dropped: run usb_dropped).       *)
THEOREM WriteInOrder == ASSUME "write" \notin Faults PROVE Spec => []OutputInOrder
<1>1. Typed /\ WriteInv => OutputInOrder
  BY DEF WriteInv, OutputInOrder, Uses, At, Writing, Flushing
<1>2. Typed /\ WriteInv /\ [Next]_vars => WriteInv' BY NextKeepsOutput
<1> QED BY <1>1, <1>2, InitTyped, NextTyped, InitSent, PTL DEF Spec

(* USBDevice.c:548: a Read that waits for the reader waits for the answer  *)
(* to a request that has left, under the same two conditions.              *)
THEOREM RequestLeaves == ASSUME "write" \notin Faults PROVE Spec => []NothingHeldBack
<1>1. WriteInv => NothingHeldBack BY DEF WriteInv, NothingHeldBack, Waits, At
<1>2. Typed /\ WriteInv /\ [Next]_vars => WriteInv' BY NextKeepsOutput
<1> QED BY <1>1, <1>2, InitTyped, NextTyped, InitSent, PTL DEF Spec
=============================================================================
