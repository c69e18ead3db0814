-------------------------- MODULE STPv3Calls_proofs --------------------------
(***************************************************************************)
(* Proofs about whole API calls of the protocol engine: how often a call   *)
(* writes its request and how often the reader carries it out, whatever    *)
(* the line does; and, when the line behaves, that a call leaves nothing   *)
(* behind, returns what belongs to it and is a call of ReaderService.      *)
(***************************************************************************)
EXTENDS STPv3Refinement, STPv3_proofs, FiniteSetTheorems

(* Only SelectTags has a callback and stops a loop. *)
SelectInv ==
  /\ pc = "callback" => api.fn = "SelectTags" /\ ~stopping
  /\ stopping => api.fn = "SelectTags"

-----------------------------------------------------------------------------
(* Carried out at most once.  While no loop was run there is no LOOP_OFF   *)
(* anywhere, so the requests of commands - on the wire or carried out -    *)
(* are of different calls, and a call about to write has none yet.         *)

NoLoopOff ==
  /\ mode.state # "loop"
  /\ resp.code # LOOP_OFF
  /\ \A i \in 1..Len(line) : line[i].code # LOOP_OFF

CallsPast ==
  /\ \A i \in 1..Len(wire) : wire[i].call <= ncalls
  /\ \A r \in executed : r.call <= ncalls

NotYetWritten ==
  (pc = "write" /\ api.cmd \in Cmds) =>
    /\ \A i \in 1..Len(wire) : wire[i].call # ncalls
    /\ \A r \in executed : r.call # ncalls

OneCommandPerCall ==
  /\ \A i, j \in 1..Len(wire) :
       (wire[i].cmd \in Cmds /\ wire[j].cmd \in Cmds /\ wire[i].call = wire[j].call) => i = j
  /\ \A i \in 1..Len(wire) : wire[i].cmd \in Cmds =>
       \A r \in executed : r.call # wire[i].call
  /\ \A r, s \in executed : r.call = s.call => r = s

OnceInv ==
  ~looped => NoLoopOff /\ CallsPast /\ NotYetWritten /\ OneCommandPerCall

-----------------------------------------------------------------------------
(* How many requests are written.  A call may write once, SelectTags again *)
(* to stop; beyond that only a LOOP_OFF makes the host write, and each     *)
(* stands for one loop request.  What a call has left of its three         *)
(* requests, and where the loop it started can be: on the wire, in the     *)
(* reader, on the line as a LOOP_OFF, in the host's hand.                  *)

LoopPlaces == {i \in 1..Len(wire) : wire[i].loop}
OffPlaces  == {i \in 1..Len(line) : line[i].code = LOOP_OFF}
Looping    == IF mode.state = "loop" THEN 1 ELSE 0
OffAtHand  ==
  IF pc = "handle" /\ resp.st = "SUCCESS" /\ resp.code = LOOP_OFF THEN 1 ELSE 0

MayWrite ==
  CASE api.fn # "SelectTags" -> IF pc = "write" THEN 1 ELSE 0
    [] api.fn = "SelectTags" /\ stopping -> IF pc = "write" THEN 1 ELSE 0
    [] api.fn = "SelectTags" /\ ~stopping ->
         CASE pc = "write" -> 3
           [] pc = "idle" -> 0
           [] pc \notin {"write", "idle"} -> 1

WriteBudget ==
  nreqs + Cardinality(LoopPlaces) + Cardinality(OffPlaces) + Looping + OffAtHand + MayWrite
    <= 3 * ncalls

-----------------------------------------------------------------------------
(* When the line behaves.  It may lose requests and answers and damage     *)
(* frames behind their header, but only while every request has a single   *)
(* answer; a loop or an inventory needs a sound line and, to be stopped,   *)
(* the tag type of the stopping request.                                   *)

Tame ==
  /\ Faults \subseteq {"request", "answer", "crc"}
  /\ (\E c \in Calls : c.inv \/ c.loop) =>
       Faults = {} /\ \A c \in Calls : c.fn = "SelectTags" => c.auto

(* Nothing is left on the line, on the wire or in the reader. *)
Quiet == mode = Idle /\ wire = <<>> /\ line = <<>>

(* The request at hand is the last one the call in progress has written. *)
OwnRequest ==
  pc \notin {"idle", "write"} =>
    /\ req.cmd = api.cmd
    /\ req.call = ncalls
    /\ req.inv = (api.inv /\ ~stopping)
    /\ req.loop = (api.loop /\ ~stopping)
    /\ req.auto = (api.auto \/ stopping)

OneRequest ==
  wire # <<>> =>
    /\ wire = <<req>>
    /\ pc \in {"read", "handle"}
    /\ ~stopping => pc = "read" /\ line = <<>> /\ mode = Idle

(* What the reader sends and does belongs to the call in progress. *)
OwnAnswers ==
  /\ \A i \in 1..Len(line) :
       /\ line[i].form \in {"ok", "badcrc"}
       /\ line[i].form # "ok" => Faults # {}
       /\ line[i].req.call = ncalls
       /\ line[i].req.auto = (api.auto \/ stopping)
  /\ mode # Idle =>
       /\ mode.state # "idle"
       /\ mode.req.call = ncalls
       /\ mode.req.auto = (api.auto \/ stopping)
  /\ pc = "handle" /\ resp.st = "SUCCESS" => resp.req.call = ncalls

QuietBetween ==
  pc = "idle" \/ (pc = "write" /\ ~stopping) => Quiet

(* A command or a single select: one request, then one answer. *)
SingleCodes ==
  IF api.cmd = SELECT_TAG THEN {Pass(SELECT_TAG), Fail(SELECT_TAG)}
  ELSE {Pass(api.cmd), Fail(api.cmd)}
         \cup (IF api.cmd \in WriteCmds THEN {INVENTORY_DONE} ELSE {})

SingleInv ==
  ~api.inv /\ ~api.loop =>
    /\ mode = Idle
    /\ Len(wire) + Len(line) <= 1
    /\ pc # "read" => wire = <<>> /\ line = <<>>
    /\ \A i \in 1..Len(line) : line[i].code \in SingleCodes
    /\ pc = "handle" /\ resp.st = "SUCCESS" => resp.code \in SingleCodes

(* A loop or an inventory: the answer that ends it is the last one. *)
Ending(code) ==
  IF stopping THEN code = LOOP_OFF
  ELSE code # Pass(SELECT_TAG) /\ (api.loop => code # LOOP_ON)

MultiInv ==
  api.inv \/ api.loop =>
    /\ \A i \in 1..Len(line) : Ending(line[i].code) =>
         i = Len(line) /\ wire = <<>> /\ mode = Idle
    /\ \A i \in 1..Len(line) : line[i].code = LOOP_OFF =>
         stopping /\ pc \in {"read", "handle"}
    /\ mode.state = "loop" =>
         /\ api.loop
         /\ stopping => pc = "write" \/ wire # <<>>
    /\ pc = "handle" =>
         /\ resp.st \in {"SUCCESS", "TIMEOUT"}
         /\ resp.st = "SUCCESS" /\ Ending(resp.code) => Quiet
         /\ resp.st = "TIMEOUT" /\ (stopping \/ ~api.loop) => Quiet

CallInv ==
  /\ api \in Calls
  /\ OwnRequest
  /\ OneRequest
  /\ OwnAnswers
  /\ QuietBetween
  /\ SingleInv
  /\ MultiInv

(* What the reader has carried out for the call in progress. *)
EffectInv ==
  /\ \A r \in executed : r.call <= ncalls
  /\ \A r, s \in executed : r.call = s.call => r = s
  /\ api.cmd \in Cmds /\ (pc = "write" \/ wire # <<>>) =>
       \A r \in executed : r.call # ncalls

-----------------------------------------------------------------------------
(* What a step does, for the proofs below. *)

(* A Read ends the search for a response or goes on with it; in either     *)
(* case the frame, if it was whole, has left the line.                     *)
LEMMA ReadShape ==
  ASSUME TypeOK, ReadFrame
  PROVE  /\ pc = "read" /\ Len(line) \in Nat \ {0} /\ 1 \in 1..Len(line)
         /\ line[1] \in Frame /\ Head(line) = line[1]
         /\ UNCHANGED <<api, ncalls, stopping, req, nreqs, wire, mode, executed, looped>>
         /\ line' \in RestOfLine
         /\ \E k \in {0, 1} :
              /\ Len(line') = Len(line) - k
              /\ \A i \in 1..Len(line') : /\ i + k \in 1..Len(line)
                                          /\ line'[i].code = line[i + k].code
                                          /\ line'[i].req = line[i + k].req
              /\ line[1].form \in {"ok", "badcrc"} => k = 1
         /\ \/ /\ pc' = "handle"
               /\ resp'.req = line[1].req
               /\ resp'.code \in {line[1].code, NoCode, DamagedCode}
               /\ resp'.st = "SUCCESS" => line[1].form = "ok" /\ resp'.code = line[1].code
               /\ line[1].form = "ok" /\ line[1].req.auto = req.auto => resp'.st = "SUCCESS"
            \/ pc' = "read" /\ resp' = resp
<1>1. PICK p \in Parse(Head(line), req) : Respond(p[1], p[2], Head(line).req)
  BY DEF ReadFrame
<1>2. /\ pc = "read" /\ line # <<>> /\ line' \in RestOfLine
      /\ UNCHANGED <<api, ncalls, stopping, req, nreqs, wire, mode, executed, looped>>
  BY DEF ReadFrame, readerVars
<1>3. /\ Len(line) \in Nat \ {0} /\ 1 \in 1..Len(line)
      /\ Head(line) = line[1] /\ line[1] \in Frame
      /\ req \in Request
  BY <1>2 DEF TypeOK
<1>4. PICK k \in {0, 1} :
        /\ Len(line') = Len(line) - k
        /\ \A i \in 1..Len(line') : /\ line'[i].code = line[i + k].code
                                    /\ line'[i].req = line[i + k].req
        /\ Head(line).form \in {"ok", "badcrc"} => k = 1
  BY <1>2, RestTyped DEF TypeOK
<1>5. \A i \in 1..Len(line') : i + k \in 1..Len(line)
  BY <1>3, <1>4
<1>6. p[2] \in {line[1].code, NoCode, DamagedCode}
  BY <1>1, <1>3, ParseShape
<1>7. p[1] = "SUCCESS" => line[1].form = "ok" /\ p[2] = line[1].code
  BY <1>1, <1>3, ParsedAnswer
<1>8. line[1].form = "ok" /\ line[1].req.auto = req.auto => p[1] = "SUCCESS"
  BY <1>1, <1>3, ParseShape DEF Mistyped
<1>9. \/ /\ pc' = "handle"
         /\ resp'.req = line[1].req
         /\ resp'.code = p[2] /\ resp'.st = p[1]
      \/ pc' = "read" /\ resp' = resp
  BY <1>1, <1>2, <1>3 DEF Respond
<1>10. QED
  BY <1>2, <1>3, <1>4, <1>5, <1>6, <1>7, <1>8, <1>9

(* The code of no command and no tag. *)
LEMMA CodesDiffer ==
  /\ NoCode # LOOP_OFF /\ DamagedCode # LOOP_OFF /\ LOOP_ON # LOOP_OFF
  /\ INVENTORY_DONE # LOOP_OFF
  /\ \A c \in AllCmds : Pass(c) # LOOP_OFF /\ Fail(c) # LOOP_OFF
  BY DEF NoCode, DamagedCode, LOOP_ON, LOOP_OFF, INVENTORY_DONE, Pass, Fail, Code

(* The steps of the host that touch neither stream. *)
HostOnly == Handle \/ (\E again \in BOOLEAN : Callback(again)) \/ ReadTimeout

LEMMA HostShape ==
  ASSUME TypeOK, HostOnly
  PROVE  /\ pc \in {"read", "handle", "callback"}
         /\ UNCHANGED <<api, ncalls, req, nreqs, wire, line, mode, executed, looped>>
         /\ resp' = resp \/ resp'.code = NoCode
<1>1. CASE ReadTimeout
  BY <1>1 DEF ReadTimeout, Respond, readerVars
<1>2. CASE Handle
  BY <1>2 DEF Handle, HandleSend, HandleSelect, HandleStop, HandleGetTags, readerVars
<1>3. CASE \E again \in BOOLEAN : Callback(again)
  BY <1>3 DEF Callback, readerVars
<1>4. QED
  BY <1>1, <1>2, <1>3 DEF HostOnly

LEMMA SelectKept == TypeOK /\ SelectInv /\ [Next]_vars => SelectInv'
<1> SUFFICES ASSUME TypeOK, SelectInv, [Next]_vars PROVE SelectInv'
  OBVIOUS
<1>1. ASSUME NEW c \in Calls, Call(c) PROVE SelectInv'
  BY <1>1 DEF Call, SelectInv
<1>2. CASE WriteRequest
  BY <1>2 DEF WriteRequest, SelectInv
<1>3. CASE ReadFrame
  BY <1>3, ReadShape DEF SelectInv
<1>4. CASE ReadTimeout
  BY <1>4 DEF ReadTimeout, Respond, SelectInv
<1>5. CASE Handle
  BY <1>5 DEF Handle, HandleSend, HandleSelect, HandleStop, HandleGetTags, Return, Goto,
     SelectInv
<1>6. ASSUME NEW again \in BOOLEAN, Callback(again) PROVE SelectInv'
  BY <1>6 DEF Callback, StopSelectLoop, Return, Goto, SelectInv
<1>7. CASE Take \/ ReaderFind \/ ReaderInventoryDone \/ UNCHANGED vars
  BY <1>7 DEF Take, ReaderEndLoop, ReaderExecute, ReaderSelect, ReaderFind,
     ReaderInventoryDone, vars, hostVars, SelectInv
<1>8. QED
  BY <1>1, <1>2, <1>3, <1>4, <1>5, <1>6, <1>7 DEF Next, Read

(* The fields of a request and of a frame on the streams. *)
LEMMA RequestFields ==
  ASSUME TypeOK
  PROVE  /\ \A i \in 1..Len(wire) : /\ wire[i].call \in Nat
                                    /\ wire[i].cmd \in AllCmds
                                    /\ wire[i].loop \in BOOLEAN
         /\ \A r \in executed : r.call \in Nat
         /\ Len(wire) \in Nat /\ Len(line) \in Nat /\ ncalls \in Nat
         /\ wire # <<>> => 1 \in 1..Len(wire) /\ Head(wire) = wire[1]
<1>1. \A r \in Request : r.call \in Nat /\ r.cmd \in AllCmds /\ r.loop \in BOOLEAN
  BY DEF Request
<1>2. \A i \in 1..Len(wire) : wire[i] \in Request
  BY DEF TypeOK
<1>3. \A r \in executed : r \in Request
  BY DEF TypeOK
<1>4. /\ Len(wire) \in Nat /\ Len(line) \in Nat /\ ncalls \in Nat
      /\ wire # <<>> => 1 \in 1..Len(wire) /\ Head(wire) = wire[1]
  BY DEF TypeOK
<1>5. QED
  BY <1>1, <1>2, <1>3, <1>4

(* The request that is written is the next one of the call in progress. *)
LEMMA WriteShape ==
  ASSUME TypeOK, WriteRequest
  PROVE  /\ pc = "write" /\ pc' = "read"
         /\ UNCHANGED <<api, ncalls, stopping, resp, line, mode, executed, looped>>
         /\ nreqs' = nreqs + 1 /\ req' = BuildRequest
         /\ \/ wire' = wire
            \/ /\ wire' = Append(wire, BuildRequest)
               /\ Len(wire') = Len(wire) + 1
               /\ \A i \in 1..Len(wire) : wire'[i] = wire[i]
               /\ wire'[Len(wire) + 1] = BuildRequest
<1>1. wire \in Seq(Request) /\ BuildRequest \in Request
  BY RequestTyped DEF TypeOK
<1>2. ASSUME NEW r \in Request, wire' = Append(wire, r)
      PROVE  /\ Len(wire') = Len(wire) + 1
             /\ \A i \in 1..Len(wire) : wire'[i] = wire[i]
             /\ wire'[Len(wire) + 1] = r
  BY <1>1, <1>2, AppendProperties
<1>3. wire' = wire \/ wire' = Append(wire, BuildRequest)
  BY DEF WriteRequest
<1>4. /\ pc = "write" /\ pc' = "read"
      /\ UNCHANGED <<api, ncalls, stopping, resp, line, mode, executed, looped>>
      /\ nreqs' = nreqs + 1 /\ req' = BuildRequest
  BY DEF WriteRequest, readerVars
<1>5. QED
  BY <1>1, <1>2, <1>3, <1>4

(* The frame that the reader sends is the last one on the line. *)
LEMMA TakeShape ==
  ASSUME TypeOK, Take \/ ReaderFind \/ ReaderInventoryDone
  PROVE  /\ UNCHANGED hostVars
         /\ wire' = wire \/ (wire # <<>> /\ wire' = Tail(wire))
         /\ \E k \in {0, 1} :
              /\ Len(wire') = Len(wire) - k
              /\ \A i \in 1..Len(wire') : i + k \in 1..Len(wire) /\ wire'[i] = wire[i + k]
              /\ wire' # wire => k = 1
         /\ \/ UNCHANGED executed
            \/ /\ wire # <<>> /\ wire' = Tail(wire) /\ wire' # wire
               /\ Head(wire).cmd \in Cmds
               /\ executed' = executed \cup {Head(wire)}
         /\ \/ line' = line
            \/ /\ Len(line') = Len(line) + 1
               /\ \A i \in 1..Len(line) : line'[i] = line[i]
               /\ line'[Len(line) + 1].code = LOOP_OFF => mode.state = "loop" /\ mode' = Idle
         /\ looped => looped'
         /\ mode'.state = "loop" =>
              \/ mode'.state = mode.state
              \/ looped' /\ wire # <<>> /\ Head(wire).loop /\ wire' # wire
<1>1. /\ wire # <<>> => /\ Head(wire) \in Request /\ Head(wire).cmd \in AllCmds
                        /\ Tail(wire) # wire
      /\ line \in Seq(Frame) /\ mode.req \in Request /\ SELECT_TAG \in AllCmds
  <2>1. wire # <<>> => Head(wire) \in Request
    BY DEF TypeOK
  <2>2. wire # <<>> => Tail(wire) # wire
    <3>1. wire # <<>> => Len(Tail(wire)) = Len(wire) - 1 /\ Len(wire) \in Nat
      BY DEF TypeOK
    <3>2. QED
      BY <3>1
  <2>3. QED
    BY <2>1, <2>2 DEF TypeOK, Request, AllCmds
<1>2. ASSUME wire' = wire \/ (wire # <<>> /\ wire' = Tail(wire))
      PROVE  \E k \in {0, 1} :
               /\ Len(wire') = Len(wire) - k
               /\ \A i \in 1..Len(wire') : i + k \in 1..Len(wire) /\ wire'[i] = wire[i + k]
               /\ wire' # wire => k = 1
  BY <1>2, WireTyped
<1>3. ASSUME NEW code \in Codes, NEW r \in Request, Emit(code, r)
      PROVE  \/ line' = line
             \/ /\ Len(line') = Len(line) + 1
                /\ \A i \in 1..Len(line) : line'[i] = line[i]
                /\ line'[Len(line) + 1].code = code
  BY <1>1, <1>3, EmitTyped
<1>4. CASE ReaderEndLoop
  <2>1. /\ UNCHANGED <<hostVars, executed, looped>> /\ wire # <<>> /\ wire' = Tail(wire)
        /\ Emit(LOOP_OFF, Head(wire)) /\ mode.state = "loop" /\ mode' = Idle
    BY <1>4 DEF ReaderEndLoop
  <2>2. QED
    BY <1>1, <1>2, <1>3, <2>1, CodesTyped DEF Idle
<1>5. CASE ReaderExecute
  <2>1. /\ UNCHANGED <<hostVars, mode, looped>> /\ wire # <<>> /\ wire' = Tail(wire)
        /\ Head(wire).cmd \in Cmds
        /\ executed' = executed \cup {Head(wire)} \/ UNCHANGED executed
    BY <1>5 DEF ReaderExecute
  <2>2. \E code \in Codes : code # LOOP_OFF /\ Emit(code, Head(wire))
    BY <1>1, <1>5, CodesTyped, CodesDiffer DEF ReaderExecute
  <2>3. QED
    BY <1>1, <1>2, <1>3, <2>1, <2>2
<1>6. CASE ReaderSelect
  <2>1. /\ UNCHANGED <<hostVars, executed>> /\ wire # <<>> /\ wire' = Tail(wire)
        /\ looped' = (looped \/ Head(wire).loop)
        /\ mode'.state = "loop" => Head(wire).loop
    BY <1>6 DEF ReaderSelect
  <2>2. line' = line \/ \E code \in Codes : code # LOOP_OFF /\ Emit(code, Head(wire))
    BY <1>1, <1>6, CodesTyped, CodesDiffer DEF ReaderSelect
  <2>3. QED
    BY <1>1, <1>2, <1>3, <2>1, <2>2
<1>7. CASE ReaderFind
  <2>1. UNCHANGED <<hostVars, wire, mode, executed, looped>> /\ Emit(Pass(SELECT_TAG), mode.req)
    BY <1>7 DEF ReaderFind, readerVars
  <2>2. QED
    BY <1>1, <1>2, <1>3, <2>1, CodesTyped, CodesDiffer
<1>8. CASE ReaderInventoryDone
  <2>1. /\ UNCHANGED <<hostVars, wire, executed, looped>> /\ mode' = Idle
        /\ Emit(INVENTORY_DONE, mode.req)
    BY <1>8 DEF ReaderInventoryDone
  <2>2. QED
    BY <1>1, <1>2, <1>3, <2>1, CodesTyped, CodesDiffer DEF Idle
<1>9. QED
  BY <1>4, <1>5, <1>6, <1>7, <1>8 DEF Take

-----------------------------------------------------------------------------
(* Carried out at most once *)

LEMMA InitOnce == Init => OnceInv
<1>1. NoCode # LOOP_OFF
  BY CodesDiffer
<1>2. QED
  BY <1>1 DEF Init, OnceInv, NoLoopOff, CallsPast, NotYetWritten, OneCommandPerCall,
     NoResponse, Idle

LEMMA NextKeepsOnce == TypeOK /\ SelectInv /\ OnceInv /\ [Next]_vars => OnceInv'
<1> SUFFICES ASSUME TypeOK, SelectInv, OnceInv, [Next]_vars, ~looped' PROVE OnceInv'
  BY DEF OnceInv
<1> USE RequestFields
<1>1. ASSUME NEW c \in Calls, Call(c) PROVE OnceInv'
  <2>1. /\ ncalls' = ncalls + 1
        /\ UNCHANGED <<resp, wire, line, mode, executed, looped>>
    BY <1>1 DEF Call, readerVars
  <2>2. NoLoopOff' /\ OneCommandPerCall'
    BY <2>1 DEF OnceInv, NoLoopOff, OneCommandPerCall
  <2>3. CallsPast' /\ NotYetWritten'
    BY <2>1 DEF OnceInv, CallsPast, NotYetWritten
  <2>4. QED
    BY <2>2, <2>3 DEF OnceInv
<1>2. CASE WriteRequest
  <2>1. /\ pc = "write" /\ pc' = "read" /\ ~looped
        /\ UNCHANGED <<api, ncalls, stopping, resp, line, mode, executed, looped>>
    BY <1>2, WriteShape
  <2>2. NoLoopOff' /\ NotYetWritten'
    BY <2>1 DEF OnceInv, NoLoopOff, NotYetWritten
  <2>3. BuildRequest.call = ncalls /\ BuildRequest.cmd = api.cmd
    BY DEF BuildRequest
  <2>4. CASE wire' = wire
    BY <2>1, <2>2, <2>4 DEF OnceInv, CallsPast, OneCommandPerCall
  <2>5. CASE /\ Len(wire') = Len(wire) + 1
             /\ \A i \in 1..Len(wire) : wire'[i] = wire[i]
             /\ wire'[Len(wire) + 1] = BuildRequest
    <3>1. \A i \in 1..Len(wire') :
            \/ i \in 1..Len(wire) /\ wire'[i] = wire[i]
            \/ i = Len(wire) + 1 /\ wire'[i].call = ncalls /\ wire'[i].cmd = api.cmd
      BY <2>3, <2>5
    <3>2. CallsPast'
      BY <2>1, <3>1 DEF OnceInv, CallsPast
    <3>3. api.cmd \in Cmds => /\ \A i \in 1..Len(wire) : wire[i].call # ncalls
                              /\ \A r \in executed : r.call # ncalls
      BY <2>1 DEF OnceInv, NotYetWritten
    <3>4. OneCommandPerCall'
      BY ZenonT(40), <2>1, <3>1, <3>3 DEF OnceInv, OneCommandPerCall
    <3>5. QED
      BY <2>1, <2>2, <3>2, <3>4 DEF OnceInv
  <2>6. QED
    BY <1>2, <2>4, <2>5, WriteShape
<1>3. CASE ReadFrame
  <2>1. /\ ~looped /\ pc' # "write"
        /\ UNCHANGED <<api, ncalls, wire, mode, executed>>
    BY <1>3, ReadShape
  <2>2. /\ resp'.code # LOOP_OFF
        /\ \A i \in 1..Len(line') : line'[i].code # LOOP_OFF
    BY <1>3, <2>1, ReadShape, CodesDiffer DEF OnceInv, NoLoopOff
  <2>3. QED
    BY <2>1, <2>2 DEF OnceInv, NoLoopOff, CallsPast, NotYetWritten, OneCommandPerCall
<1>4. CASE HostOnly
  <2>1. /\ UNCHANGED <<api, ncalls, req, nreqs, wire, line, mode, executed, looped>>
        /\ resp' = resp \/ resp'.code = NoCode
        /\ ~looped
    BY <1>4, HostShape
  <2>2. pc' = "write" => api.cmd \notin Cmds
    <3>1. CASE HandleSend
      BY <2>1, <3>1 DEF HandleSend, Return, Goto, OnceInv, NoLoopOff
    <3>2. ASSUME NEW again \in BOOLEAN, Callback(again) PROVE api.cmd \notin Cmds
      <4>1. api.fn = "SelectTags" /\ api \in ApiCall
        BY <3>2 DEF Callback, SelectInv, TypeOK
      <4>2. QED
        BY <4>1, STPv3Assumption DEF ApiCall
    <3>3. CASE HandleSelect \/ HandleStop \/ HandleGetTags \/ ReadTimeout
      BY <3>3 DEF HandleSelect, HandleStop, HandleGetTags, ReadTimeout, Respond, Return, Goto
    <3>4. QED
      BY <1>4, <3>1, <3>2, <3>3 DEF HostOnly, Handle
  <2>3. NoLoopOff'
    BY <2>1, CodesDiffer DEF OnceInv, NoLoopOff
  <2>4. QED
    BY <2>1, <2>2, <2>3 DEF OnceInv, CallsPast, NotYetWritten, OneCommandPerCall
<1>5. CASE Take \/ ReaderFind \/ ReaderInventoryDone
  <2>1. PICK k \in {0, 1} :
          /\ Len(wire') = Len(wire) - k
          /\ \A i \in 1..Len(wire') : i + k \in 1..Len(wire) /\ wire'[i] = wire[i + k]
          /\ wire' # wire => k = 1
    BY <1>5, TakeShape
  <2>2. ~looped /\ UNCHANGED <<pc, api, ncalls, resp>>
    BY <1>5, TakeShape DEF hostVars
  <2>3. NoLoopOff'
    <3>1. mode'.state # "loop"
      BY <1>5, <2>2, TakeShape DEF OnceInv, NoLoopOff
    <3>2. \A i \in 1..Len(line') : line'[i].code # LOOP_OFF
      BY <1>5, <2>2, TakeShape DEF OnceInv, NoLoopOff
    <3>3. QED
      BY <2>2, <3>1, <3>2 DEF OnceInv, NoLoopOff
  <2>4. CASE executed' = executed
    <3>1. CallsPast' /\ NotYetWritten'
      BY <2>1, <2>2, <2>4 DEF OnceInv, CallsPast, NotYetWritten
    <3>2. ASSUME NEW i \in 1..Len(wire'), NEW j \in 1..Len(wire'),
                 wire'[i].cmd \in Cmds, wire'[j].cmd \in Cmds,
                 wire'[i].call = wire'[j].call
          PROVE  i = j
      <4>1. \A l, m \in 1..Len(wire) :
              (wire[l].cmd \in Cmds /\ wire[m].cmd \in Cmds /\ wire[l].call = wire[m].call)
                => l = m
        BY <2>2 DEF OnceInv, OneCommandPerCall
      <4>2. /\ i + k \in 1..Len(wire) /\ wire'[i] = wire[i + k]
            /\ j + k \in 1..Len(wire) /\ wire'[j] = wire[j + k]
        BY <2>1
      <4>3. i + k = j + k
        BY <3>2, <4>1, <4>2
      <4>4. QED
        BY <4>3
    <3>3. \A i \in 1..Len(wire) : wire[i].cmd \in Cmds =>
            \A r \in executed : r.call # wire[i].call
      BY <2>2 DEF OnceInv, OneCommandPerCall
    <3>4. ASSUME NEW i \in 1..Len(wire'), wire'[i].cmd \in Cmds, NEW r \in executed
          PROVE  r.call # wire'[i].call
      BY <2>1, <3>3, <3>4
    <3>5. \A r, s \in executed : r.call = s.call => r = s
      BY <2>2 DEF OnceInv, OneCommandPerCall
    <3>6. OneCommandPerCall'
      BY <2>4, <3>2, <3>4, <3>5 DEF OneCommandPerCall
    <3>7. QED
      BY <2>2, <2>3, <3>1, <3>6 DEF OnceInv
  <2>5. CASE /\ wire # <<>> /\ wire' # wire /\ Head(wire).cmd \in Cmds
             /\ executed' = executed \cup {Head(wire)}
    <3> DEFINE h == Head(wire)
    <3>1. /\ k = 1 /\ 1 \in 1..Len(wire) /\ h = wire[1] /\ h.cmd \in Cmds
          /\ executed' = executed \cup {h}
      BY <2>1, <2>5
    <3> HIDE DEF h
    <3>2. \A i \in 1..Len(wire') : /\ i + 1 \in 1..Len(wire) /\ i + 1 # 1
                                   /\ wire'[i] = wire[i + 1]
      BY <2>1, <3>1
    <3>3. CallsPast' /\ NotYetWritten'
      BY <2>2, <3>1, <3>2 DEF OnceInv, CallsPast, NotYetWritten
    <3>4. \A i, j \in 1..Len(wire) :
            (wire[i].cmd \in Cmds /\ wire[j].cmd \in Cmds /\ wire[i].call = wire[j].call)
              => i = j
      BY <2>2 DEF OnceInv, OneCommandPerCall
    <3>5. \A i \in 1..Len(wire') : wire'[i].cmd \in Cmds => wire'[i].call # h.call
      BY <3>1, <3>2, <3>4
    <3>6. \A r \in executed : r.call # h.call
      BY <2>2, <3>1 DEF OnceInv, OneCommandPerCall
    <3>7. \A r, s \in executed : r.call = s.call => r = s
      BY <2>2 DEF OnceInv, OneCommandPerCall
    <3>8. \A i \in 1..Len(wire') : wire'[i].cmd \in Cmds =>
            \A r \in executed : r.call # wire'[i].call
      BY <2>2, <3>2 DEF OnceInv, OneCommandPerCall
    <3>9. ASSUME NEW i \in 1..Len(wire'), NEW j \in 1..Len(wire'),
                 wire'[i].cmd \in Cmds, wire'[j].cmd \in Cmds,
                 wire'[i].call = wire'[j].call
          PROVE  i = j
      <4>1. i + 1 = j + 1
        BY SMTT(30), <3>2, <3>4, <3>9
      <4>2. QED
        BY <4>1
    <3>10. OneCommandPerCall'
      BY <3>1, <3>5, <3>6, <3>7, <3>8, <3>9 DEF OneCommandPerCall
    <3>11. QED
      BY <2>3, <3>3, <3>10 DEF OnceInv
  <2>6. QED
    BY <1>5, <2>4, <2>5, TakeShape
<1>6. CASE UNCHANGED vars
  BY <1>6 DEF vars, hostVars, readerVars, OnceInv, NoLoopOff, CallsPast, NotYetWritten,
     OneCommandPerCall
<1>7. QED
  BY <1>1, <1>2, <1>3, <1>4, <1>5, <1>6 DEF Next, Read, HostOnly

(* STPv3.c:842-857: as long as no select loop was run, the reader carries  *)
(* out the command of a call at most once, whatever becomes of its         *)
(* answers: a lost, damaged or late one is not asked for again.            *)
THEOREM CarriedOutOnce == Spec => []AtMostOnce
<1>1. Init => SelectInv
  BY DEF Init, SelectInv
<1>2. TypeOK /\ SelectInv /\ OnceInv /\ [Next]_vars => SelectInv' /\ OnceInv'
  BY SelectKept, NextKeepsOnce
<1>3. OnceInv => AtMostOnce
  BY DEF OnceInv, OneCommandPerCall, AtMostOnce
<1>4. QED
  BY <1>1, <1>2, <1>3, InitOnce, TypeCorrect, PTL DEF Spec

-----------------------------------------------------------------------------
(* Counting places of a stream *)

LEMMA PlacesCounted ==
  ASSUME NEW n \in Nat, NEW A \in SUBSET (1..n)
  PROVE  IsFiniteSet(A) /\ Cardinality(A) \in Nat
<1>1. IsFiniteSet(1..n)
  BY FS_Interval
<1>2. QED
  BY <1>1, FS_Subset, FS_CardinalityType

(* Taking the first element off moves the places of the others. *)
LEMMA PlacesMove ==
  ASSUME NEW n \in Nat, NEW A \in SUBSET (1..n), NEW k \in {0, 1}, NEW B \in SUBSET Nat,
         \A b \in B : b + k \in A
  PROVE  /\ IsFiniteSet(B) /\ Cardinality(B) \in Nat
         /\ Cardinality(B) <= Cardinality(A)
         /\ (1 \in A /\ k = 1 /\ 0 \notin B) => Cardinality(B) + 1 <= Cardinality(A)
<1> DEFINE f == [b \in B |-> b + k]
<1>1. IsFiniteSet(A) /\ Cardinality(A) \in Nat
  BY PlacesCounted
<1>2. /\ DOMAIN f = B /\ \A b \in B : f[b] = b + k /\ f[b] \in A
      /\ \A a, b \in B : f[a] = f[b] => a = b
  OBVIOUS
<1>3. f \in [B -> A]
  OBVIOUS
<1> HIDE DEF f
<1>4. IsInjective(f)
  BY <1>2 DEF IsInjective
<1>5. f \in Injection(B, A)
  BY <1>3, <1>4 DEF Injection
<1>6. IsFiniteSet(B) /\ Cardinality(B) <= Cardinality(A)
  BY <1>1, <1>5, FS_Injection
<1>7. Cardinality(B) \in Nat
  BY <1>6, FS_CardinalityType
<1>8. ASSUME 1 \in A, k = 1, 0 \notin B
      PROVE  Cardinality(B) + 1 <= Cardinality(A)
  <2> DEFINE R == A \ {1}
  <2>1. IsFiniteSet(R) /\ Cardinality(R) = Cardinality(A) - 1
    BY <1>1, <1>8, FS_RemoveElement
  <2>2. \A b \in B : f[b] \in R
    BY <1>2, <1>8
  <2>3. f \in [B -> R]
    BY <1>3, <2>2
  <2>4. f \in Injection(B, R)
    BY <1>4, <2>3 DEF Injection
  <2> HIDE DEF R
  <2>5. Cardinality(B) <= Cardinality(R)
    BY <2>1, <2>4, FS_Injection
  <2>6. QED
    BY <1>1, <1>7, <2>1, <2>5
<1>9. QED
  BY <1>6, <1>7, <1>8

(* Appending adds at most the last place. *)
LEMMA PlacesGrow ==
  ASSUME NEW n \in Nat, NEW A \in SUBSET (1..n), NEW B \in SUBSET (1..(n + 1)),
         \A i \in 1..n : i \in B => i \in A
  PROVE  /\ Cardinality(B) \in Nat
         /\ Cardinality(B) <= Cardinality(A) + 1
         /\ n + 1 \notin B => Cardinality(B) <= Cardinality(A)
<1> DEFINE C == A \cup {n + 1}
<1>1. IsFiniteSet(A) /\ Cardinality(A) \in Nat /\ n + 1 \notin A
  <2>1. n + 1 \notin 1..n
    OBVIOUS
  <2>2. QED
    BY <2>1, PlacesCounted
<1>2. IsFiniteSet(C) /\ Cardinality(C) = Cardinality(A) + 1
  BY <1>1, FS_AddElement
<1>3. B \subseteq C /\ (n + 1 \notin B => B \subseteq A)
  OBVIOUS
<1> HIDE DEF C
<1>4. Cardinality(B) <= Cardinality(C)
  BY <1>2, <1>3, FS_Subset
<1>5. n + 1 \notin B => Cardinality(B) <= Cardinality(A)
  BY <1>1, <1>3, FS_Subset
<1>6. Cardinality(B) \in Nat
  BY <1>2, <1>3, FS_Subset, FS_CardinalityType
<1>7. QED
  BY <1>1, <1>2, <1>4, <1>5, <1>6

-----------------------------------------------------------------------------
(* How many requests are written *)

LEMMA BudgetTyped ==
  ASSUME TypeOK
  PROVE  /\ LoopPlaces \in SUBSET (1..Len(wire)) /\ Cardinality(LoopPlaces) \in Nat
         /\ OffPlaces \in SUBSET (1..Len(line)) /\ Cardinality(OffPlaces) \in Nat
         /\ Looping \in {0, 1} /\ OffAtHand \in {0, 1} /\ MayWrite \in 0..3
         /\ nreqs \in Nat /\ ncalls \in Nat
<1>1. LoopPlaces \in SUBSET (1..Len(wire)) /\ OffPlaces \in SUBSET (1..Len(line))
  BY DEF LoopPlaces, OffPlaces
<1>2. Len(wire) \in Nat /\ Len(line) \in Nat /\ nreqs \in Nat /\ ncalls \in Nat
  BY DEF TypeOK
<1>3. Cardinality(LoopPlaces) \in Nat /\ Cardinality(OffPlaces) \in Nat
  BY <1>1, <1>2, PlacesCounted
<1>4. Looping \in {0, 1} /\ OffAtHand \in {0, 1}
  BY DEF Looping, OffAtHand
<1>5. MayWrite \in 0..3
  BY DEF MayWrite, TypeOK
<1>6. QED
  BY <1>1, <1>2, <1>3, <1>4, <1>5

LEMMA InitBudget == Init => WriteBudget
<1> SUFFICES ASSUME Init PROVE WriteBudget
  OBVIOUS
<1>1. LoopPlaces = {} /\ OffPlaces = {}
  BY DEF Init, LoopPlaces, OffPlaces
<1>2. Looping = 0 /\ OffAtHand = 0 /\ MayWrite = 0
  BY DEF Init, Looping, OffAtHand, MayWrite, Idle
<1>3. QED
  BY <1>1, <1>2, FS_EmptySet DEF Init, WriteBudget

LEMMA WriteKeepsBudget ==
  ASSUME TypeOK, WriteBudget, WriteRequest
  PROVE  WriteBudget'
<1> DEFINE n == Len(wire)
<1>1. n \in Nat /\ api \in ApiCall /\ stopping \in BOOLEAN /\ api.loop \in BOOLEAN
  BY ApiFields DEF TypeOK
<1>2. /\ pc = "write" /\ pc' = "read" /\ nreqs' = nreqs + 1
      /\ UNCHANGED <<api, ncalls, stopping, resp, line, mode>>
  BY WriteShape
<1>3. OffPlaces' = OffPlaces /\ Looping' = Looping /\ OffAtHand' = 0
  BY <1>2 DEF OffPlaces, Looping, OffAtHand
<1>4. api.loop /\ ~stopping => MayWrite = 3 /\ MayWrite' = 1
  BY <1>1, <1>2 DEF MayWrite, ApiCall
<1>5. MayWrite' + 1 <= MayWrite
  BY <1>1, <1>2 DEF MayWrite
<1>6. /\ Cardinality(LoopPlaces') \in Nat
      /\ Cardinality(LoopPlaces') <= Cardinality(LoopPlaces) + 1
      /\ ~(api.loop /\ ~stopping) => Cardinality(LoopPlaces') <= Cardinality(LoopPlaces)
  <2>1. CASE wire' = wire
    <3>1. LoopPlaces' = LoopPlaces
      BY <2>1 DEF LoopPlaces
    <3>2. QED
      BY <3>1, BudgetTyped
  <2>2. CASE /\ Len(wire') = Len(wire) + 1
             /\ \A i \in 1..Len(wire) : wire'[i] = wire[i]
             /\ wire'[Len(wire) + 1] = BuildRequest
    <3>1. /\ LoopPlaces' \in SUBSET (1..(n + 1))
          /\ \A i \in 1..n : i \in LoopPlaces' => i \in LoopPlaces
          /\ n + 1 \in LoopPlaces' => BuildRequest.loop
      BY <1>1, <2>2 DEF LoopPlaces
    <3>2. BuildRequest.loop = (api.loop /\ ~stopping)
      BY DEF BuildRequest
    <3>3. LoopPlaces \in SUBSET (1..n)
      BY BudgetTyped
    <3> HIDE DEF n
    <3>4. QED
      BY <1>1, <3>1, <3>2, <3>3, PlacesGrow
  <2>3. QED
    BY <2>1, <2>2, WriteShape
<1>7. MayWrite' \in 0..3
  BY <1>1, <1>2 DEF MayWrite
<1>8. Cardinality(LoopPlaces') + MayWrite' + 1 <= Cardinality(LoopPlaces) + MayWrite
  BY SMTT(30), <1>4, <1>5, <1>6, <1>7, BudgetTyped
<1>9. QED
  <2>1. /\ Cardinality(LoopPlaces) \in Nat /\ Cardinality(OffPlaces) \in Nat
        /\ Looping \in Nat /\ OffAtHand \in Nat /\ MayWrite \in Nat
        /\ nreqs \in Nat /\ ncalls \in Nat
    BY BudgetTyped
  <2>2. MayWrite' \in Nat
    BY <1>7
  <2>3. (nreqs + 1) + Cardinality(LoopPlaces') + Cardinality(OffPlaces) + Looping + 0 + MayWrite'
          <= 3 * ncalls
    BY <1>6, <1>8, <2>1, <2>2 DEF WriteBudget
  <2>4. QED
    BY <1>2, <1>3, <2>3 DEF WriteBudget

LEMMA ReadKeepsBudget ==
  ASSUME TypeOK, WriteBudget, ReadFrame
  PROVE  WriteBudget'
<1>1. /\ pc = "read" /\ pc' \in {"read", "handle"}
      /\ UNCHANGED <<api, ncalls, stopping, nreqs, wire, mode>>
      /\ Len(line) \in Nat /\ 1 \in 1..Len(line)
  BY ReadShape
<1>2. /\ LoopPlaces' = LoopPlaces /\ Looping' = Looping /\ MayWrite' = MayWrite
      /\ OffAtHand = 0
  BY <1>1 DEF LoopPlaces, Looping, MayWrite, OffAtHand
<1>3. PICK k \in {0, 1} :
        /\ Len(line') = Len(line) - k
        /\ \A i \in 1..Len(line') : /\ i + k \in 1..Len(line)
                                    /\ line'[i].code = line[i + k].code
                                    /\ line'[i].req = line[i + k].req
        /\ line[1].form \in {"ok", "badcrc"} => k = 1
  BY ReadShape
<1>4. /\ OffPlaces' \in SUBSET Nat /\ 0 \notin OffPlaces'
      /\ \A i \in OffPlaces' : i + k \in OffPlaces
  BY <1>3 DEF OffPlaces
<1>5. OffAtHand' = 1 => 1 \in OffPlaces /\ k = 1
  BY <1>1, <1>3, ReadShape, CodesDiffer DEF OffAtHand, OffPlaces
<1>6. /\ Cardinality(OffPlaces') \in Nat
      /\ Cardinality(OffPlaces') <= Cardinality(OffPlaces)
      /\ OffAtHand' = 1 => Cardinality(OffPlaces') + 1 <= Cardinality(OffPlaces)
  BY <1>1, <1>4, <1>5, BudgetTyped, PlacesMove
<1>7. OffAtHand' \in {0, 1}
  BY DEF OffAtHand
<1>8. Cardinality(OffPlaces') + OffAtHand' <= Cardinality(OffPlaces)
  BY <1>6, <1>7, BudgetTyped
<1>9. QED
  <2>1. /\ Cardinality(LoopPlaces) \in Nat /\ Cardinality(OffPlaces) \in Nat
        /\ Looping \in Nat /\ OffAtHand \in Nat /\ MayWrite \in Nat
        /\ nreqs \in Nat /\ ncalls \in Nat
    BY BudgetTyped
  <2>2. OffAtHand' \in Nat
    BY <1>7
  <2>3. nreqs + Cardinality(LoopPlaces) + Cardinality(OffPlaces') + Looping + OffAtHand' + MayWrite
          <= 3 * ncalls
    BY <1>2, <1>6, <1>8, <2>1, <2>2 DEF WriteBudget
  <2>4. QED
    BY <1>1, <1>2, <2>3 DEF WriteBudget

LEMMA HostKeepsBudget ==
  ASSUME TypeOK, SelectInv, WriteBudget, HostOnly
  PROVE  WriteBudget'
<1>1. /\ UNCHANGED <<api, ncalls, req, nreqs, wire, line, mode, executed, looped>>
      /\ stopping \in BOOLEAN
  BY HostShape DEF TypeOK
<1>2. LoopPlaces' = LoopPlaces /\ OffPlaces' = OffPlaces /\ Looping' = Looping
  BY <1>1 DEF LoopPlaces, OffPlaces, Looping
<1>3. OffAtHand' = 0 /\ MayWrite' \in 0..3 /\ MayWrite' <= MayWrite + OffAtHand
  <2>1. CASE ReadTimeout
    BY <1>1, <2>1, CodesDiffer DEF ReadTimeout, Respond, OffAtHand, MayWrite
  <2>2. CASE HandleSend
    BY <1>1, <2>2 DEF HandleSend, Return, Goto, OffAtHand, MayWrite
  <2>3. CASE HandleSelect
    BY <1>1, <2>3 DEF HandleSelect, Return, Goto, OffAtHand, MayWrite
  <2>4. CASE HandleStop
    BY <1>1, <2>4 DEF HandleStop, Return, Goto, OffAtHand, MayWrite, SelectInv
  <2>5. CASE HandleGetTags
    BY <1>1, <2>5 DEF HandleGetTags, Return, Goto, OffAtHand, MayWrite
  <2>6. ASSUME NEW again \in BOOLEAN, Callback(again)
        PROVE  OffAtHand' = 0 /\ MayWrite' \in 0..3 /\ MayWrite' <= MayWrite + OffAtHand
    BY <1>1, <2>6
    DEF Callback, StopSelectLoop, Return, Goto, OffAtHand, MayWrite, SelectInv
  <2>7. QED
    BY <2>1, <2>2, <2>3, <2>4, <2>5, <2>6 DEF HostOnly, Handle
<1>4. QED
  BY SMTT(30), <1>1, <1>2, <1>3, BudgetTyped DEF WriteBudget

LEMMA ReaderKeepsBudget ==
  ASSUME TypeOK, WriteBudget, Take \/ ReaderFind \/ ReaderInventoryDone
  PROVE  WriteBudget'
<1>1. UNCHANGED <<pc, api, ncalls, stopping, nreqs, resp>>
  BY TakeShape DEF hostVars
<1>2. OffAtHand' = OffAtHand /\ MayWrite' = MayWrite
  BY <1>1 DEF OffAtHand, MayWrite
<1>3. /\ Len(wire) \in Nat /\ Len(line) \in Nat
      /\ wire # <<>> => 1 \in 1..Len(wire) /\ Head(wire) = wire[1]
  BY RequestFields
<1>4. PICK k \in {0, 1} :
        /\ Len(wire') = Len(wire) - k
        /\ \A i \in 1..Len(wire') : i + k \in 1..Len(wire) /\ wire'[i] = wire[i + k]
        /\ wire' # wire => k = 1
  BY TakeShape
<1>5. /\ LoopPlaces' \in SUBSET Nat /\ 0 \notin LoopPlaces'
      /\ \A i \in LoopPlaces' : i + k \in LoopPlaces
  BY <1>4 DEF LoopPlaces
<1>6. mode'.state = "loop" /\ mode.state # "loop" => 1 \in LoopPlaces /\ k = 1
  BY <1>3, <1>4, TakeShape DEF LoopPlaces
<1>7. /\ Cardinality(LoopPlaces') \in Nat
      /\ Cardinality(LoopPlaces') <= Cardinality(LoopPlaces)
      /\ (mode'.state = "loop" /\ mode.state # "loop") =>
           Cardinality(LoopPlaces') + 1 <= Cardinality(LoopPlaces)
  BY <1>3, <1>5, <1>6, BudgetTyped, PlacesMove
<1>8. /\ Cardinality(OffPlaces') \in Nat
      /\ Cardinality(OffPlaces') <= Cardinality(OffPlaces) + 1
      /\ ~(mode.state = "loop" /\ mode' = Idle) =>
           Cardinality(OffPlaces') <= Cardinality(OffPlaces)
  <2>1. CASE line' = line
    <3>1. OffPlaces' = OffPlaces
      BY <2>1 DEF OffPlaces
    <3>2. QED
      BY <3>1, BudgetTyped
  <2>2. CASE /\ Len(line') = Len(line) + 1
             /\ \A i \in 1..Len(line) : line'[i] = line[i]
             /\ line'[Len(line) + 1].code = LOOP_OFF => mode.state = "loop" /\ mode' = Idle
    <3> DEFINE n == Len(line)
    <3>1. /\ OffPlaces' \in SUBSET (1..(n + 1))
          /\ \A i \in 1..n : i \in OffPlaces' => i \in OffPlaces
          /\ n + 1 \in OffPlaces' => mode.state = "loop" /\ mode' = Idle
          /\ n \in Nat
      BY <1>3, <2>2 DEF OffPlaces
    <3>2. OffPlaces \in SUBSET (1..n)
      BY BudgetTyped
    <3> HIDE DEF n
    <3>3. QED
      BY <3>1, <3>2, PlacesGrow
  <2>3. QED
    BY <2>1, <2>2, TakeShape
<1>9. /\ Looping' = 1 => mode'.state = "loop"
      /\ Looping = 0 => mode.state # "loop"
      /\ mode.state = "loop" /\ mode' = Idle => Looping = 1 /\ Looping' = 0
  BY DEF Looping, Idle
<1>10. Looping' \in {0, 1}
  BY DEF Looping
<1>11. Cardinality(LoopPlaces') + Cardinality(OffPlaces') + Looping'
         <= Cardinality(LoopPlaces) + Cardinality(OffPlaces) + Looping
  <2>1. /\ Cardinality(LoopPlaces) \in Nat /\ Cardinality(OffPlaces) \in Nat
        /\ Looping \in {0, 1}
    BY BudgetTyped
  <2>2. CASE mode.state = "loop" /\ mode' = Idle
    BY <1>7, <1>8, <1>9, <2>1, <2>2
  <2>3. CASE mode'.state = "loop" /\ mode.state # "loop"
    BY <1>7, <1>8, <1>10, <2>1, <2>3
  <2>4. CASE mode.state = "loop" \/ mode'.state # "loop"
    <3>1. Looping' <= Looping
      BY <1>9, <1>10, <2>1, <2>4
    <3>2. CASE ~(mode.state = "loop" /\ mode' = Idle)
      BY <1>7, <1>8, <1>10, <2>1, <3>1, <3>2
    <3>3. QED
      BY <2>2, <3>2
  <2>5. QED
    BY <2>2, <2>3, <2>4
<1>12. QED
  <2>1. /\ Cardinality(LoopPlaces) \in Nat /\ Cardinality(OffPlaces) \in Nat
        /\ Looping \in Nat /\ OffAtHand \in Nat /\ MayWrite \in Nat
        /\ nreqs \in Nat /\ ncalls \in Nat
    BY BudgetTyped
  <2>2. Looping' \in Nat
    BY <1>10
  <2>3. nreqs + Cardinality(LoopPlaces') + Cardinality(OffPlaces') + Looping' + OffAtHand + MayWrite
          <= 3 * ncalls
    BY <1>7, <1>8, <1>11, <2>1, <2>2 DEF WriteBudget
  <2>4. QED
    BY <1>1, <1>2, <2>3 DEF WriteBudget

LEMMA NextKeepsBudget ==
  TypeOK /\ SelectInv /\ WriteBudget /\ [Next]_vars => WriteBudget'
<1> SUFFICES ASSUME TypeOK, SelectInv, WriteBudget, [Next]_vars PROVE WriteBudget'
  OBVIOUS
<1>1. ASSUME NEW c \in Calls, Call(c) PROVE WriteBudget'
  <2>1. /\ ncalls' = ncalls + 1 /\ pc' = "write"
        /\ UNCHANGED <<nreqs, wire, line, mode>>
    BY <1>1 DEF Call, readerVars
  <2>2. /\ LoopPlaces' = LoopPlaces /\ OffPlaces' = OffPlaces /\ Looping' = Looping
        /\ OffAtHand' = 0
    BY <2>1 DEF LoopPlaces, OffPlaces, Looping, OffAtHand
  <2>3. MayWrite' \in 0..3
    BY <1>1 DEF Call, MayWrite
  <2>4. QED
    <3>1. /\ nreqs + Cardinality(LoopPlaces) + Cardinality(OffPlaces) + Looping + OffAtHand
                + MayWrite <= 3 * ncalls
          /\ MayWrite \in Nat /\ OffAtHand \in Nat /\ Looping \in Nat /\ nreqs \in Nat
          /\ Cardinality(LoopPlaces) \in Nat /\ Cardinality(OffPlaces) \in Nat /\ ncalls \in Nat
      BY BudgetTyped DEF WriteBudget
    <3>2. nreqs + Cardinality(LoopPlaces) + Cardinality(OffPlaces) + Looping + 0 + MayWrite'
            <= 3 * (ncalls + 1)
      BY <2>3, <3>1
    <3>3. QED
      BY <2>1, <2>2, <3>2 DEF WriteBudget
<1>2. CASE UNCHANGED vars
  BY <1>2 DEF vars, hostVars, readerVars, WriteBudget, LoopPlaces, OffPlaces, Looping,
     OffAtHand, MayWrite
<1>3. QED
  BY <1>1, <1>2, WriteKeepsBudget, ReadKeepsBudget, HostKeepsBudget, ReaderKeepsBudget
  DEF Next, Read, HostOnly

(* STPv3.c:853: however the line behaves, ncalls calls write at most       *)
(* 3 * ncalls requests: a call resends only for a loop that came to its    *)
(* end, and every loop was started by a call of its own.                   *)
THEOREM ResendsAreBounded == Spec => []ResendsBounded
<1>1. Init => SelectInv
  BY DEF Init, SelectInv
<1>2. TypeOK /\ SelectInv /\ WriteBudget /\ [Next]_vars
        => SelectInv' /\ WriteBudget'
  BY SelectKept, NextKeepsBudget
<1>3. TypeOK /\ WriteBudget => ResendsBounded
  BY BudgetTyped DEF WriteBudget, ResendsBounded
<1>4. QED
  BY <1>1, <1>2, <1>3, InitBudget, TypeCorrect, PTL DEF Spec

-----------------------------------------------------------------------------
(* Calls over a tame line *)

LEMMA TameCall ==
  ASSUME Tame, TypeOK, CallInv
  PROVE  /\ api.inv \/ api.loop =>
              Faults = {} /\ (api.fn = "SelectTags" => api.auto) /\ api.cmd = SELECT_TAG
         /\ api.cmd \in Cmds => ~api.inv /\ ~api.loop
         /\ api.cmd \in AllCmds /\ SELECT_TAG \notin Cmds
         /\ api.fn \in {"Send", "Get", "Write"} <=> api.cmd \in Cmds
         /\ api.fn \in {"GetTags", "GetTagsWithMask"} => api.inv /\ ~api.loop
         /\ api.fn \in ApiFns /\ api.inv \in BOOLEAN /\ api.loop \in BOOLEAN
         /\ api.auto \in BOOLEAN /\ stopping \in BOOLEAN
         /\ "late" \notin Faults
         /\ mode = Idle \/ mode.state \in {"loop", "inventory"}
         /\ mode.state = "idle" <=> mode = Idle
<1>1. api \in Calls /\ api \in ApiCall
  BY STPv3Assumption DEF CallInv
<1>2. api.inv \/ api.loop => Faults = {} /\ (api.fn = "SelectTags" => api.auto)
  BY <1>1 DEF Tame
<1>3. /\ api.fn \in ApiFns /\ api.inv \in BOOLEAN /\ api.loop \in BOOLEAN
      /\ api.auto \in BOOLEAN /\ stopping \in BOOLEAN /\ api.cmd \in AllCmds
  BY <1>1, ApiFields DEF TypeOK
<1>4. /\ SELECT_TAG \notin Cmds /\ WriteCmds \subseteq Cmds
      /\ api.inv \/ api.loop => api.cmd = SELECT_TAG
      /\ api.cmd \in Cmds => ~api.inv /\ ~api.loop
      /\ api.fn \in {"Send", "Get", "Write"} <=> api.cmd \in Cmds
      /\ api.fn \in {"GetTags", "GetTagsWithMask"} => api.inv /\ ~api.loop
  BY <1>1, STPv3Assumption DEF ApiCall
<1>5. mode = Idle \/ mode.state \in {"loop", "inventory"}
  BY DEF CallInv, OwnAnswers, TypeOK
<1>6. mode.state = "idle" <=> mode = Idle
  BY <1>5 DEF Idle
<1>7. "late" \notin Faults
  BY DEF Tame
<1>8. QED
  BY <1>2, <1>3, <1>4, <1>5, <1>6, <1>7

(* The one request on the wire is the one the host waits for. *)
LEMMA TameWire ==
  ASSUME TypeOK, CallInv
  PROVE  wire # <<>> =>
           /\ Head(wire) = req /\ Tail(wire) = <<>> /\ Len(wire) = 1
           /\ pc \in {"read", "handle"}
           /\ req.cmd = api.cmd /\ req.call = ncalls
           /\ req.inv = (api.inv /\ ~stopping)
           /\ req.loop = (api.loop /\ ~stopping)
           /\ req.auto = (api.auto \/ stopping)
           /\ ~stopping => pc = "read" /\ line = <<>> /\ mode = Idle
<1>1. wire # <<>> => wire = <<req>> /\ pc \in {"read", "handle"}
                     /\ (~stopping => pc = "read" /\ line = <<>> /\ mode = Idle)
  BY DEF CallInv, OneRequest
<1>2. wire # <<>> => /\ req.cmd = api.cmd /\ req.call = ncalls
                     /\ req.inv = (api.inv /\ ~stopping)
                     /\ req.loop = (api.loop /\ ~stopping)
                     /\ req.auto = (api.auto \/ stopping)
  BY <1>1 DEF CallInv, OwnRequest
<1>3. Head(<<req>>) = req /\ Tail(<<req>>) = <<>> /\ Len(<<req>>) = 1
  OBVIOUS
<1>4. QED
  BY <1>1, <1>2, <1>3

(* Over a tame line a frame arrives whole, damaged behind its header or    *)
(* not at all.                                                             *)
LEMMA TameEmit ==
  ASSUME Tame, line \in Seq(Frame), NEW code \in Codes, NEW r \in Request, Emit(code, r)
  PROVE  \/ line' = line /\ Faults # {}
         \/ /\ Len(line') = Len(line) + 1 /\ Len(line) \in Nat
            /\ \A i \in 1..Len(line) : line'[i] = line[i]
            /\ line'[Len(line) + 1].code = code
            /\ line'[Len(line) + 1].req = r
            /\ line'[Len(line) + 1].form \in {"ok", "badcrc"}
            /\ line'[Len(line) + 1].form # "ok" => Faults # {}
<1>1. \/ line' = line /\ Faults # {}
      \/ \E form \in {"ok", "badcrc"} :
           /\ form # "ok" => Faults # {}
           /\ line' = Append(line, [code |-> code, req |-> r, form |-> form])
  BY DEF Emit, Tame
<1>2. ASSUME NEW form \in {"ok", "badcrc"}, form # "ok" => Faults # {},
             line' = Append(line, [code |-> code, req |-> r, form |-> form])
      PROVE  /\ Len(line') = Len(line) + 1 /\ Len(line) \in Nat
             /\ \A i \in 1..Len(line) : line'[i] = line[i]
             /\ line'[Len(line) + 1].code = code
             /\ line'[Len(line) + 1].req = r
             /\ line'[Len(line) + 1].form \in {"ok", "badcrc"}
             /\ line'[Len(line) + 1].form # "ok" => Faults # {}
  <2> DEFINE e == [code |-> code, req |-> r, form |-> form]
  <2>1. /\ e \in Frame /\ e.code = code /\ e.req = r /\ e.form \in {"ok", "badcrc"}
        /\ e.form # "ok" => Faults # {}
    BY <1>2 DEF Frame, Forms
  <2>2. line' = Append(line, e)
    BY <1>2
  <2> HIDE DEF e
  <2>3. /\ Len(line') = Len(line) + 1 /\ Len(line) \in Nat
        /\ \A i \in 1..Len(line) : line'[i] = line[i]
        /\ line'[Len(line) + 1] = e
    BY <2>1, <2>2, AppendProperties
  <2>4. QED
    BY <2>1, <2>3
<1>3. QED
  BY <1>1, <1>2

LEMMA InitCalls == Init => CallInv
  BY DEF Init, CallInv, OwnRequest, OneRequest, OwnAnswers, QuietBetween, Quiet, SingleInv,
     MultiInv, Idle

LEMMA CallKeepsCalls ==
  ASSUME Tame, TypeOK, CallInv, NEW c \in Calls, Call(c)
  PROVE  CallInv'
<1>1. /\ pc = "idle" /\ pc' = "write" /\ api' = c /\ stopping' = FALSE
      /\ UNCHANGED <<wire, line, mode>>
  BY DEF Call, readerVars
<1>2. wire = <<>> /\ line = <<>> /\ mode = Idle
  BY <1>1 DEF CallInv, QuietBetween, Quiet
<1>3. mode.state = "idle"
  BY <1>2 DEF Idle
<1>4. QED
  BY <1>1, <1>2, <1>3 DEF CallInv, OwnRequest, OneRequest, OwnAnswers, QuietBetween, Quiet,
     SingleInv, MultiInv, Idle

LEMMA WriteKeepsCalls ==
  ASSUME Tame, TypeOK, CallInv, WriteRequest
  PROVE  CallInv'
<1>1. /\ pc = "write" /\ pc' = "read" /\ req' = BuildRequest
      /\ UNCHANGED <<api, ncalls, stopping, resp, line, mode>>
      /\ wire' = Append(wire, BuildRequest) \/ (wire' = wire /\ "request" \in Faults)
  BY DEF WriteRequest, readerVars
<1>2. wire = <<>> /\ (~stopping => line = <<>> /\ mode = Idle)
  BY <1>1 DEF CallInv, OneRequest, QuietBetween, Quiet
<1>3. wire' = <<req'>> \/ (wire' = <<>> /\ Faults # {})
  BY <1>1, <1>2
<1>4. /\ req'.cmd = api.cmd /\ req'.call = ncalls
      /\ req'.inv = (api.inv /\ ~stopping)
      /\ req'.loop = (api.loop /\ ~stopping)
      /\ req'.auto = (api.auto \/ stopping)
  BY <1>1 DEF BuildRequest
<1>5. OwnRequest' /\ OneRequest' /\ QuietBetween'
  BY <1>1, <1>2, <1>3, <1>4 DEF OwnRequest, OneRequest, QuietBetween
<1>6. OwnAnswers'
  BY <1>1 DEF CallInv, OwnAnswers
<1>7. SingleInv'
  <2> SUFFICES ASSUME ~api.inv /\ ~api.loop PROVE SingleInv'
    BY <1>1 DEF SingleInv
  <2>1. mode = Idle /\ line = <<>>
    BY <1>1 DEF CallInv, SingleInv
  <2>2. Len(wire') + Len(line') <= 1
    BY <1>1, <1>3, <2>1
  <2>3. QED
    BY <1>1, <2>1, <2>2 DEF SingleInv
<1>8. MultiInv'
  <2> SUFFICES ASSUME api.inv \/ api.loop PROVE MultiInv'
    BY <1>1 DEF MultiInv
  <2>1. wire' # <<>>
    <3>1. Faults = {}
      BY TameCall
    <3>2. wire' = <<req'>>
      BY <1>3, <3>1
    <3>3. QED
      BY <3>2
  <2>2. /\ \A i \in 1..Len(line) : line[i].code # LOOP_OFF
        /\ mode.state = "loop" => api.loop
    BY <1>1 DEF CallInv, MultiInv
  <2>3. \A i \in 1..Len(line) : ~Ending(line[i].code)
    BY <1>2, <2>2 DEF Ending
  <2>4. QED
    BY <1>1, <2>1, <2>2, <2>3 DEF MultiInv, Ending
<1>9. QED
  BY <1>1, <1>5, <1>6, <1>7, <1>8 DEF CallInv

LEMMA ReadKeepsCalls ==
  ASSUME Tame, TypeOK, CallInv, ReadFrame
  PROVE  CallInv'
<1>1. /\ pc = "read" /\ pc' \in {"read", "handle"}
      /\ UNCHANGED <<api, ncalls, stopping, req, wire, mode>>
      /\ Len(line) \in Nat \ {0} /\ 1 \in 1..Len(line) /\ Head(line) = line[1]
      /\ line # <<>> /\ line' \in RestOfLine
  BY ReadShape
<1>2. line[1].form \in {"ok", "badcrc"}
  BY <1>1 DEF CallInv, OwnAnswers
<1>3. line' = Tail(line)
  BY <1>1, <1>2 DEF RestOfLine
<1>4. /\ Len(line') = Len(line) - 1
      /\ \A i \in 1..Len(line') : i + 1 \in 1..Len(line) /\ line'[i] = line[i + 1]
  BY <1>1, <1>3 DEF TypeOK
<1>5. pc' = "handle" =>
        /\ resp'.req = line[1].req
        /\ resp'.st = "SUCCESS" => resp'.code = line[1].code
        /\ line[1].form = "ok" /\ line[1].req.auto = req.auto => resp'.st = "SUCCESS"
  BY ReadShape
<1>6. OwnRequest' /\ OneRequest' /\ QuietBetween'
  BY <1>1 DEF CallInv, OwnRequest, OneRequest, QuietBetween
<1>7. OwnAnswers'
  <2>1. \A i \in 1..Len(line') :
          /\ line'[i].form \in {"ok", "badcrc"}
          /\ line'[i].form # "ok" => Faults # {}
          /\ line'[i].req.call = ncalls
          /\ line'[i].req.auto = (api.auto \/ stopping)
    BY <1>4 DEF CallInv, OwnAnswers
  <2>2. pc' = "handle" => resp'.req.call = ncalls
    BY <1>1, <1>5 DEF CallInv, OwnAnswers
  <2>3. QED
    BY <1>1, <2>1, <2>2 DEF CallInv, OwnAnswers
<1>8. SingleInv'
  <2> SUFFICES ASSUME ~api.inv /\ ~api.loop PROVE SingleInv'
    BY <1>1 DEF SingleInv
  <2>1. /\ mode = Idle /\ Len(wire) + Len(line) <= 1
        /\ \A i \in 1..Len(line) : line[i].code \in SingleCodes
    BY DEF CallInv, SingleInv
  <2>2. Len(wire) \in Nat /\ wire \in Seq(Request) /\ line' \in Seq(Frame)
    BY <1>1, <1>3 DEF TypeOK
  <2>3. Len(line') = 0 /\ Len(wire) = 0
    BY <1>1, <1>4, <2>1, <2>2
  <2>4. line' = <<>> /\ wire = <<>>
    BY <2>2, <2>3
  <2>5. SingleCodes' = SingleCodes
    BY <1>1 DEF SingleCodes
  <2>6. QED
    BY <1>1, <1>5, <2>1, <2>3, <2>4, <2>5 DEF SingleInv
<1>9. MultiInv'
  <2> SUFFICES ASSUME api.inv \/ api.loop PROVE MultiInv'
    BY <1>1 DEF MultiInv
  <2>1. \A i \in 1..Len(line) :
          /\ Ending(line[i].code) => i = Len(line) /\ wire = <<>> /\ mode = Idle
          /\ line[i].code = LOOP_OFF => stopping
    BY DEF CallInv, MultiInv
  <2>2. \A i \in 1..Len(line') :
          /\ Ending(line'[i].code) => i = Len(line') /\ wire = <<>> /\ mode = Idle
          /\ line'[i].code = LOOP_OFF => stopping
    <3> SUFFICES ASSUME NEW i \in 1..Len(line')
                 PROVE  /\ Ending(line'[i].code) =>
                             i = Len(line') /\ wire = <<>> /\ mode = Idle
                        /\ line'[i].code = LOOP_OFF => stopping
      OBVIOUS
    <3>1. i + 1 \in 1..Len(line) /\ line'[i] = line[i + 1] /\ i \in Nat
      BY <1>4
    <3>2. Ending(line'[i].code) => i + 1 = Len(line) /\ wire = <<>> /\ mode = Idle
      BY <2>1, <3>1
    <3>3. QED
      BY <1>1, <1>4, <2>1, <3>1, <3>2
  <2>3. /\ mode.state = "loop" => api.loop
        /\ mode.state = "loop" /\ stopping => wire # <<>>
    BY <1>1 DEF CallInv, MultiInv
  <2>4. line[1].form = "ok" /\ line[1].req.auto = req.auto
    <3>1. Faults = {}
      BY TameCall
    <3>2. QED
      BY <1>1, <3>1 DEF CallInv, OwnAnswers, OwnRequest
  <2>5. pc' = "handle" => resp'.st = "SUCCESS" /\ resp'.code = line[1].code
    BY <1>5, <2>4
  <2>6. Ending(line[1].code) => wire = <<>> /\ mode = Idle /\ line' = <<>>
    <3>1. Ending(line[1].code) => 1 = Len(line) /\ wire = <<>> /\ mode = Idle
      BY <1>1, <2>1
    <3>2. Len(line) = 1 => line' = <<>>
      BY <1>1, <1>3 DEF TypeOK
    <3>3. QED
      BY <3>1, <3>2
  <2>7. \A code : Ending(code)' <=> Ending(code)
    BY <1>1 DEF Ending
  <2>8. QED
    BY <1>1, <2>2, <2>3, <2>5, <2>6 DEF MultiInv, Ending, Quiet
<1>10. QED
  BY <1>1, <1>6, <1>7, <1>8, <1>9 DEF CallInv

(* A host step away from a state with nothing left to read and a call that *)
(* is not being stopped now: only the place of the host changes.           *)
LEMMA MoveKeepsCalls ==
  ASSUME Tame, TypeOK, CallInv, pc \in {"handle", "callback"},
         pc' \in {"read", "callback", "idle", "write"},
         UNCHANGED <<api, ncalls, stopping, req, wire, line, mode>>,
         pc' = "callback" => ~stopping,
         pc' = "write" => ~stopping,
         pc' \in {"idle", "write"} => Quiet
  PROVE  CallInv'
<1>1. OwnRequest' /\ QuietBetween'
  BY DEF CallInv, OwnRequest, QuietBetween, Quiet
<1>2. OneRequest'
  BY DEF CallInv, OneRequest, Quiet
<1>3. OwnAnswers'
  BY DEF CallInv, OwnAnswers
<1>4. SingleInv'
  <2> SUFFICES ASSUME ~api.inv /\ ~api.loop PROVE SingleInv'
    BY DEF SingleInv
  <2>1. mode = Idle /\ wire = <<>> /\ line = <<>> /\ Len(wire) + Len(line) <= 1
    BY DEF CallInv, SingleInv
  <2>2. QED
    BY <2>1 DEF SingleInv
<1>5. MultiInv'
  <2> SUFFICES ASSUME api.inv \/ api.loop PROVE MultiInv'
    BY DEF MultiInv
  <2>1. /\ \A i \in 1..Len(line) : Ending(line[i].code) =>
             i = Len(line) /\ wire = <<>> /\ mode = Idle
        /\ \A i \in 1..Len(line) : line[i].code = LOOP_OFF => stopping
        /\ mode.state = "loop" => api.loop
        /\ mode.state = "loop" /\ stopping => wire # <<>>
    BY DEF CallInv, MultiInv
  <2>2. pc' # "read" => \A i \in 1..Len(line) : line[i].code # LOOP_OFF
    BY <2>1 DEF Quiet
  <2>3. QED
    BY <2>1, <2>2 DEF MultiInv, Ending
<1>6. QED
  BY <1>1, <1>2, <1>3, <1>4, <1>5 DEF CallInv

(* With the answer that ends a call at hand nothing is left. *)
LEMMA EndsQuiet ==
  ASSUME Tame, TypeOK, SelectInv, CallInv, pc = "handle"
  PROVE  /\ ~api.inv /\ ~api.loop => Quiet
         /\ api.inv \/ api.loop =>
              /\ resp.st \in {"SUCCESS", "TIMEOUT"}
              /\ resp.st = "SUCCESS" /\ Ending(resp.code) => Quiet
              /\ resp.st = "TIMEOUT" /\ (stopping \/ ~api.loop) => Quiet
  BY DEF CallInv, SingleInv, MultiInv, Quiet

LEMMA HandleKeepsCalls ==
  ASSUME Tame, TypeOK, SelectInv, CallInv, Handle
  PROVE  CallInv'
<1>1. /\ pc = "handle"
      /\ UNCHANGED <<api, ncalls, stopping, req, wire, line, mode>>
  BY DEF Handle, HandleSend, HandleSelect, HandleStop, HandleGetTags, readerVars
<1>2. pc' \in {"read", "callback", "idle", "write"}
  BY DEF Handle, HandleSend, HandleSelect, HandleStop, HandleGetTags, Return, Goto
<1>3. CASE HandleSend
  <2>1. Quiet /\ ~stopping
    BY <1>1, <1>3, TameCall, EndsQuiet DEF HandleSend, SelectInv
  <2>2. QED
    BY <1>1, <1>2, <2>1, MoveKeepsCalls
<1>4. CASE HandleSelect
  <2>1. ~stopping /\ pc' # "write"
    BY <1>4 DEF HandleSelect, Return, Goto
  <2>2. pc' = "idle" => \/ resp.st \notin {"SUCCESS", "TIMEOUT"}
                        \/ resp.st = "SUCCESS" /\ Ending(resp.code)
    BY <1>4 DEF HandleSelect, Return, Goto, Ending
  <2>3. pc' = "idle" => Quiet
    BY <1>1, <2>2, EndsQuiet, TameCall
  <2>4. QED
    BY <1>1, <1>2, <2>1, <2>3, MoveKeepsCalls
<1>5. CASE HandleStop
  <2>1. stopping /\ pc' \in {"idle", "read"}
    BY <1>5 DEF HandleStop, Return, Goto
  <2>2. pc' = "idle" => resp.st # "SUCCESS" \/ Ending(resp.code)
    BY <1>5, <2>1 DEF HandleStop, Goto, StopEnds, Ending
  <2>3. pc' = "idle" => Quiet
    BY <1>1, <2>1, <2>2, EndsQuiet, TameCall
  <2>4. QED
    BY <1>1, <1>2, <2>1, <2>3, MoveKeepsCalls
<1>6. CASE HandleGetTags
  <2>1. ~stopping /\ pc' \in {"idle", "read"} /\ api.inv /\ ~api.loop
    BY <1>6, TameCall DEF HandleGetTags, Return, Goto, SelectInv
  <2>2. pc' = "idle" => resp.st # "SUCCESS" \/ Ending(resp.code)
    BY <1>6, <2>1 DEF HandleGetTags, Goto, AnotherTag, Ending
  <2>3. pc' = "idle" => Quiet
    BY <1>1, <2>1, <2>2, EndsQuiet
  <2>4. QED
    BY <1>1, <1>2, <2>1, <2>3, MoveKeepsCalls
<1>7. QED
  BY <1>3, <1>4, <1>5, <1>6 DEF Handle

LEMMA TimeoutKeepsCalls ==
  ASSUME Tame, TypeOK, CallInv, ReadTimeout
  PROVE  CallInv'
<1>1. /\ pc = "read" /\ line = <<>> /\ wire = <<>> /\ mode.state # "inventory"
      /\ UNCHANGED <<api, ncalls, stopping, req, wire, line, mode>>
  BY TameCall DEF ReadTimeout, readerVars
<1>2. pc' = "handle" /\ resp'.st = "TIMEOUT"
  BY DEF ReadTimeout, Respond, Matches
<1>3. OwnRequest' /\ OneRequest' /\ QuietBetween' /\ OwnAnswers'
  BY <1>1, <1>2 DEF CallInv, OwnRequest, OneRequest, QuietBetween, OwnAnswers
<1>4. SingleInv'
  BY <1>1, <1>2 DEF CallInv, SingleInv
<1>5. mode.state = "loop" => (api.loop /\ ~stopping) \/ (~api.inv /\ ~api.loop)
  BY <1>1 DEF CallInv, MultiInv
<1>6. stopping \/ ~api.loop => mode = Idle
  <2>1. ~api.inv /\ ~api.loop => mode = Idle
    BY DEF CallInv, SingleInv
  <2>2. QED
    BY <1>1, <1>5, <2>1, TameCall
<1>7. MultiInv'
  <2>1. (mode.state = "loop" /\ (api.inv \/ api.loop)) => api.loop /\ ~stopping
    BY <1>5
  <2>2. QED
    BY <1>1, <1>2, <1>6, <2>1 DEF MultiInv, Quiet
<1>8. QED
  BY <1>1, <1>3, <1>4, <1>7 DEF CallInv

LEMMA CallbackKeepsCalls ==
  ASSUME Tame, TypeOK, SelectInv, CallInv, NEW again \in BOOLEAN, Callback(again)
  PROVE  CallInv'
<1>1. /\ pc = "callback" /\ ~stopping /\ api.fn = "SelectTags"
      /\ UNCHANGED <<api, ncalls, req, wire, line, mode>>
  BY DEF Callback, SelectInv, readerVars
<1>2. wire = <<>>
  BY <1>1 DEF CallInv, OneRequest
<1>3. CASE ~again
  <2>1. pc' = "write" /\ stopping' = TRUE
    BY <1>3 DEF Callback, StopSelectLoop, Goto
  <2>2. OwnRequest' /\ OneRequest' /\ QuietBetween'
    BY <1>1, <1>2, <2>1 DEF OwnRequest, OneRequest, QuietBetween
  <2>3. \/ api.auto /\ (api.inv \/ api.loop)
        \/ ~api.inv /\ ~api.loop /\ line = <<>> /\ mode = Idle
    BY <1>1, TameCall DEF CallInv, SingleInv
  <2>4. OwnAnswers'
    BY <1>1, <2>1, <2>3 DEF CallInv, OwnAnswers
  <2>5. SingleInv'
    BY <1>1, <1>2, <2>1 DEF CallInv, SingleInv
  <2>6. MultiInv'
    BY <1>1, <1>2, <2>1 DEF CallInv, MultiInv, Ending
  <2>7. QED
    BY <1>1, <2>2, <2>4, <2>5, <2>6 DEF CallInv
<1>4. CASE again
  <2>1. /\ stopping' = stopping /\ pc' \in {"idle", "read"}
        /\ pc' = "idle" => ~api.inv /\ ~api.loop
    BY <1>4 DEF Callback, Return, Goto
  <2>2. ~api.inv /\ ~api.loop => Quiet
    BY <1>1 DEF CallInv, SingleInv, Quiet
  <2>3. QED
    BY <1>1, <2>1, <2>2, MoveKeepsCalls
<1>5. QED
  BY <1>3, <1>4

(* A frame of this call arrives, or is lost on a line that loses frames.   *)
Arrives(code) ==
  \/ line' = line /\ Faults # {}
  \/ /\ Len(line') = Len(line) + 1 /\ Len(line) \in Nat
     /\ \A i \in 1..Len(line) : line'[i] = line[i]
     /\ line'[Len(line) + 1].code = code
     /\ line'[Len(line) + 1].req.call = ncalls
     /\ line'[Len(line) + 1].req.auto = (api.auto \/ stopping)
     /\ line'[Len(line) + 1].form \in {"ok", "badcrc"}
     /\ line'[Len(line) + 1].form # "ok" => Faults # {}

LEMMA EmitArrives ==
  ASSUME Tame, TypeOK, NEW code \in Codes, NEW r \in Request, Emit(code, r),
         r.call = ncalls, r.auto = (api.auto \/ stopping)
  PROVE  Arrives(code)
<1>1. line \in Seq(Frame)
  BY DEF TypeOK
<1>2. QED
  BY <1>1, TameEmit DEF Arrives

LEMMA ArrivalOwned ==
  ASSUME CallInv, NEW code, Arrives(code) \/ line' = line,
         UNCHANGED <<pc, api, ncalls, stopping, resp>>,
         mode' # Idle => /\ mode'.state # "idle"
                         /\ mode'.req.call = ncalls
                         /\ mode'.req.auto = (api.auto \/ stopping)
  PROVE  OwnAnswers'
<1>1. \A i \in 1..Len(line) :
        /\ line[i].form \in {"ok", "badcrc"}
        /\ line[i].form # "ok" => Faults # {}
        /\ line[i].req.call = ncalls
        /\ line[i].req.auto = (api.auto \/ stopping)
  BY DEF CallInv, OwnAnswers
<1>2. \A i \in 1..Len(line') :
        /\ line'[i].form \in {"ok", "badcrc"}
        /\ line'[i].form # "ok" => Faults # {}
        /\ line'[i].req.call = ncalls
        /\ line'[i].req.auto = (api.auto \/ stopping)
  <2>1. CASE line' = line
    BY <1>1, <2>1
  <2>2. CASE Arrives(code) /\ line' # line
    <3>1. \A i \in 1..Len(line') : i \in 1..Len(line) \/ i = Len(line) + 1
      BY <2>2 DEF Arrives
    <3>2. QED
      BY <1>1, <2>2, <3>1 DEF Arrives
  <2>3. QED
    BY <2>1, <2>2
<1>3. QED
  BY <1>2 DEF CallInv, OwnAnswers

(* The answer to the request of a command or of a single select. *)
LEMMA SingleArrival ==
  ASSUME TypeOK, CallInv, ~api.inv /\ ~api.loop, wire # <<>>, wire' = <<>>,
         NEW code \in SingleCodes, Arrives(code),
         UNCHANGED <<hostVars, mode>>
  PROVE  CallInv'
<1>1. UNCHANGED <<pc, api, ncalls, stopping, req, resp>>
  BY DEF hostVars
<1>2. /\ mode = Idle /\ Len(wire) + Len(line) <= 1 /\ pc = "read"
      /\ \A i \in 1..Len(line) : line[i].code \in SingleCodes
  BY DEF CallInv, SingleInv
<1>3. Len(line) = 0 /\ line = <<>>
  <2>1. wire \in Seq(Request) /\ line \in Seq(Frame)
    BY DEF TypeOK
  <2>2. Len(wire) \in Nat \ {0} /\ Len(line) \in Nat
    BY <2>1
  <2>3. Len(line) = 0
    BY <1>2, <2>2
  <2>4. QED
    BY <2>1, <2>3
<1>4. OwnRequest' /\ OneRequest' /\ QuietBetween'
  BY <1>1, <1>2 DEF CallInv, OwnRequest, OneRequest, QuietBetween
<1>5. OwnAnswers'
  BY <1>1, <1>2, ArrivalOwned
<1>6. SingleInv'
  <2>1. Len(line') <= 1 /\ Len(line') \in Nat /\ \A i \in 1..Len(line') : line'[i].code = code
    <3>1. CASE line' = line
      BY <1>3, <3>1
    <3>2. CASE Len(line') = Len(line) + 1 /\ line'[Len(line) + 1].code = code
      <4>1. Len(line') = 1 /\ line'[1].code = code
        BY <1>3, <3>2
      <4>2. \A i \in 1..1 : i = 1
        OBVIOUS
      <4>3. QED
        BY <4>1, <4>2
    <3>3. QED
      BY <3>1, <3>2 DEF Arrives
  <2>2. Len(wire') + Len(line') <= 1
    BY <2>1
  <2>3. SingleCodes' = SingleCodes
    BY <1>1 DEF SingleCodes
  <2>4. QED
    BY <1>1, <1>2, <2>1, <2>2, <2>3 DEF SingleInv
<1>7. MultiInv'
  BY <1>1 DEF MultiInv
<1>8. QED
  BY <1>1, <1>4, <1>5, <1>6, <1>7 DEF CallInv

(* A frame of a loop or an inventory: nothing ended the call before it,    *)
(* and when it ends the call the reader has stopped and has no request.    *)
LEMMA MultiArrival ==
  ASSUME Tame, TypeOK, CallInv, api.inv \/ api.loop, wire # <<>> \/ mode # Idle,
         pc \notin {"idle"}, UNCHANGED hostVars,
         wire' = wire \/ (wire # <<>> /\ wire' = <<>>),
         NEW code, Arrives(code) \/ line' = line,
         mode' # Idle => /\ mode'.state # "idle"
                         /\ mode'.req.call = ncalls
                         /\ mode'.req.auto = (api.auto \/ stopping),
         ~stopping /\ wire' # <<>> => line' = <<>> /\ mode' = Idle,
         Ending(code) /\ Arrives(code) => wire' = <<>> /\ mode' = Idle,
         code = LOOP_OFF /\ Arrives(code) => stopping /\ pc \in {"read", "handle"},
         mode'.state = "loop" => api.loop /\ (stopping => pc = "write" \/ wire' # <<>>)
  PROVE  CallInv'
<1>1. UNCHANGED <<pc, api, ncalls, stopping, req, resp>>
  BY DEF hostVars
<1>2. pc = "write" => stopping
  BY TameCall DEF CallInv, QuietBetween, Quiet
<1>3. OwnRequest' /\ OneRequest'
  BY <1>1 DEF CallInv, OwnRequest, OneRequest
<1>4. QuietBetween'
  BY <1>1, <1>2 DEF QuietBetween
<1>5. OwnAnswers'
  BY <1>1, ArrivalOwned
<1>6. SingleInv'
  BY <1>1 DEF SingleInv
<1>7. /\ \A i \in 1..Len(line) : ~Ending(line[i].code)
      /\ \A i \in 1..Len(line) : line[i].code = LOOP_OFF =>
           stopping /\ pc \in {"read", "handle"}
      /\ pc = "handle" => /\ resp.st \in {"SUCCESS", "TIMEOUT"}
                          /\ ~(resp.st = "SUCCESS" /\ Ending(resp.code))
                          /\ ~(resp.st = "TIMEOUT" /\ (stopping \/ ~api.loop))
  BY DEF CallInv, MultiInv, Quiet
<1>8. \A c : Ending(c)' <=> Ending(c)
  BY <1>1 DEF Ending
<1>9. \A i \in 1..Len(line') :
        /\ Ending(line'[i].code) => i = Len(line') /\ wire' = <<>> /\ mode' = Idle
        /\ line'[i].code = LOOP_OFF => stopping /\ pc \in {"read", "handle"}
  <2>1. CASE line' = line
    BY <1>7, <2>1
  <2>2. CASE Arrives(code) /\ line' # line
    <3>1. \A i \in 1..Len(line') :
            \/ i \in 1..Len(line) /\ line'[i] = line[i]
            \/ i = Len(line') /\ line'[i].code = code
      BY <2>2 DEF Arrives
    <3>2. QED
      BY <1>7, <2>2, <3>1
  <2>3. QED
    BY <2>1, <2>2
<1>10. MultiInv'
  BY <1>1, <1>7, <1>9 DEF MultiInv, Ending
<1>11. QED
  BY <1>1, <1>3, <1>4, <1>5, <1>6, <1>10 DEF CallInv

LEMMA ReaderKeepsCalls ==
  ASSUME Tame, TypeOK, CallInv, Take \/ ReaderFind \/ ReaderInventoryDone
  PROVE  CallInv'
<1>1. /\ req \in Request /\ mode.req \in Request
      /\ SELECT_TAG \in AllCmds /\ LOOP_ON # LOOP_OFF /\ INVENTORY_DONE # LOOP_OFF
      /\ Pass(SELECT_TAG) # LOOP_OFF /\ Fail(SELECT_TAG) # LOOP_OFF
  BY CodesDiffer DEF TypeOK, AllCmds
<1>2. /\ ~api.inv /\ ~api.loop => mode = Idle
      /\ mode # Idle => pc # "idle"
      /\ mode # Idle => mode.req.call = ncalls /\ mode.req.auto = (api.auto \/ stopping)
      /\ mode.state = "loop" /\ (api.inv \/ api.loop) => api.loop
      /\ mode.state = "loop" /\ (api.inv \/ api.loop) /\ stopping => pc = "write" \/ wire # <<>>
  BY DEF CallInv, SingleInv, QuietBetween, Quiet, OwnAnswers, MultiInv
<1>3. Idle.state = "idle"
  BY DEF Idle
<1>4. CASE ReaderEndLoop
  <2>1. /\ UNCHANGED hostVars /\ wire # <<>> /\ wire' = Tail(wire)
        /\ mode.state = "loop" /\ mode' = Idle /\ Emit(LOOP_OFF, Head(wire))
    BY <1>4 DEF ReaderEndLoop
  <2>2. mode # Idle /\ (api.inv \/ api.loop)
    BY <1>2, <1>3, <2>1
  <2>3. /\ wire' = <<>> /\ Head(wire) = req /\ stopping /\ pc \in {"read", "handle"}
        /\ req.call = ncalls /\ req.auto = (api.auto \/ stopping)
    BY <2>1, <2>2, TameWire
  <2>4. Arrives(LOOP_OFF)
    BY <1>1, <2>1, <2>3, CodesTyped, EmitArrives
  <2>5. QED
    BY <1>3, <2>1, <2>2, <2>3, <2>4, MultiArrival
<1>5. CASE ReaderExecute
  <2>1. /\ UNCHANGED <<hostVars, mode>> /\ wire # <<>> /\ wire' = Tail(wire)
        /\ Head(wire).cmd \in Cmds
        /\ \/ Emit(Pass(Head(wire).cmd), Head(wire))
           \/ Emit(Fail(Head(wire).cmd), Head(wire))
           \/ Head(wire).cmd \in WriteCmds /\ Emit(INVENTORY_DONE, Head(wire))
    BY <1>5 DEF ReaderExecute
  <2>2. /\ wire' = <<>> /\ Head(wire) = req /\ req.cmd = api.cmd
        /\ req.call = ncalls /\ req.auto = (api.auto \/ stopping)
    BY <2>1, TameWire
  <2>3. ~api.inv /\ ~api.loop /\ api.cmd \in AllCmds /\ api.cmd # SELECT_TAG
    BY <2>1, <2>2, TameCall
  <2>4. \E code \in SingleCodes : code \in Codes /\ Emit(code, req)
    BY <2>1, <2>2, <2>3, CodesTyped DEF SingleCodes
  <2>5. \E code \in SingleCodes : Arrives(code)
    BY <1>1, <2>2, <2>4, EmitArrives
  <2>6. QED
    BY <2>1, <2>2, <2>3, <2>5, SingleArrival
<1>6. CASE ReaderSelect
  <2>1. /\ UNCHANGED hostVars /\ wire # <<>> /\ wire' = Tail(wire)
        /\ mode.state = "idle" /\ Head(wire).cmd = SELECT_TAG
    BY <1>6 DEF ReaderSelect
  <2>2. /\ wire' = <<>> /\ Head(wire) = req /\ req.cmd = api.cmd
        /\ pc \in {"read", "handle"}
        /\ req.call = ncalls /\ req.auto = (api.auto \/ stopping)
        /\ req.inv = (api.inv /\ ~stopping)
        /\ req.loop = (api.loop /\ ~stopping)
        /\ ~stopping => line = <<>>
        /\ mode = Idle
    BY <2>1, TameWire, TameCall
  <2>3. CASE req.loop /\ mode' = [state |-> "loop", req |-> req] /\ Emit(LOOP_ON, req)
    <3>1. api.loop /\ ~stopping /\ api.loop \in BOOLEAN
      BY <2>2, <2>3, TameCall
    <3>2. Arrives(LOOP_ON)
      BY <1>1, <2>2, <2>3, CodesTyped, EmitArrives
    <3>3. ~Ending(LOOP_ON)
      BY <3>1 DEF Ending
    <3>4. mode'.state = "loop" /\ mode'.req = req
      BY <2>3
    <3>5. QED
      BY <1>1, <2>1, <2>2, <3>1, <3>2, <3>3, <3>4, MultiArrival
  <2>4. CASE req.inv /\ ~req.loop /\ mode' = [state |-> "inventory", req |-> req]
             /\ UNCHANGED line
    <3>1. api.inv /\ ~stopping
      BY <2>2, <2>4, TameCall
    <3>2. mode'.state = "inventory" /\ mode'.req = req
      BY <2>4
    <3>3. ~Ending(Pass(SELECT_TAG))
      BY <1>1, <3>1 DEF Ending
    <3>4. QED
      BY <1>1, <2>1, <2>2, <2>4, <3>1, <3>2, <3>3, MultiArrival
  <2>5. ASSUME NEW code \in {Pass(SELECT_TAG), Fail(SELECT_TAG)},
               ~req.loop, ~req.inv, Emit(code, req), mode' = mode
        PROVE  CallInv'
    <3>1. Arrives(code)
      BY <1>1, <2>2, <2>5, CodesTyped, EmitArrives
    <3>2. CASE ~api.inv /\ ~api.loop
      <4>1. code \in SingleCodes
        BY <2>1, <2>2, <2>5 DEF SingleCodes
      <4>2. QED
        BY <2>1, <2>2, <2>5, <3>1, <3>2, <4>1, SingleArrival
    <3>3. CASE api.inv \/ api.loop
      <4>1. stopping
        BY <2>2, <2>5, <3>3, TameCall
      <4>2. ~Ending(code) /\ code # LOOP_OFF
        BY <1>1, <4>1 DEF Ending
      <4>3. QED
        BY <1>3, <2>1, <2>2, <2>5, <3>1, <3>3, <4>1, <4>2, MultiArrival
    <3>4. QED
      BY <3>2, <3>3
  <2>6. QED
    BY <1>6, <2>2, <2>3, <2>4, <2>5 DEF ReaderSelect
<1>7. CASE ReaderFind
  <2>1. /\ UNCHANGED <<hostVars, wire, mode>> /\ mode.state \in {"loop", "inventory"}
        /\ Emit(Pass(SELECT_TAG), mode.req)
    BY <1>7 DEF ReaderFind, readerVars
  <2>2. mode # Idle /\ (api.inv \/ api.loop) /\ mode.state # "idle"
    BY <1>2, <1>3, <2>1
  <2>3. Arrives(Pass(SELECT_TAG))
    BY <1>1, <1>2, <2>1, <2>2, CodesTyped, EmitArrives
  <2>4. ~Ending(Pass(SELECT_TAG))
    BY <1>1 DEF Ending
  <2>5. ~stopping => wire = <<>>
    BY <2>2, TameWire
  <2>6. QED
    BY <1>1, <1>2, <2>1, <2>2, <2>3, <2>4, <2>5, MultiArrival
<1>8. CASE ReaderInventoryDone
  <2>1. /\ UNCHANGED <<hostVars, wire>> /\ mode.state = "inventory"
        /\ mode' = Idle /\ Emit(INVENTORY_DONE, mode.req)
    BY <1>8 DEF ReaderInventoryDone
  <2>2. mode # Idle /\ (api.inv \/ api.loop)
    BY <1>2, <1>3, <2>1
  <2>3. Arrives(INVENTORY_DONE)
    BY <1>1, <1>2, <2>1, <2>2, CodesTyped, EmitArrives
  <2>4. Ending(INVENTORY_DONE) => ~stopping
    BY <1>1 DEF Ending
  <2>5. ~stopping => wire = <<>>
    BY <2>2, TameWire
  <2>6. QED
    BY <1>1, <1>2, <1>3, <2>1, <2>2, <2>3, <2>4, <2>5, MultiArrival
<1>9. QED
  BY <1>4, <1>5, <1>6, <1>7, <1>8 DEF Take

LEMMA NextKeepsCalls ==
  Tame => (TypeOK /\ SelectInv /\ CallInv /\ [Next]_vars => CallInv')
<1> SUFFICES ASSUME Tame, TypeOK, SelectInv, CallInv, [Next]_vars PROVE CallInv'
  OBVIOUS
<1>1. CASE UNCHANGED vars
  BY <1>1 DEF vars, hostVars, readerVars, CallInv, OwnRequest, OneRequest, OwnAnswers,
     QuietBetween, Quiet, SingleInv, SingleCodes, MultiInv, Ending
<1>2. QED
  BY <1>1, CallKeepsCalls, WriteKeepsCalls, ReadKeepsCalls, TimeoutKeepsCalls,
     HandleKeepsCalls, CallbackKeepsCalls, ReaderKeepsCalls DEF Next, Read

LEMMA CallsKept == Tame => (Spec => [](TypeOK /\ SelectInv /\ CallInv))
<1> SUFFICES ASSUME Tame PROVE Spec => [](TypeOK /\ SelectInv /\ CallInv)
  OBVIOUS
<1>1. Init => SelectInv
  BY DEF Init, SelectInv
<1>2. TypeOK /\ SelectInv /\ CallInv /\ [Next]_vars => SelectInv' /\ CallInv'
  BY SelectKept, NextKeepsCalls
<1>3. QED
  BY <1>1, <1>2, InitCalls, TypeCorrect, PTL DEF Spec

(* STPv3.c:1707, 1613: over a tame line a call leaves nothing behind for   *)
(* the next one: no frame, no request, and no loop or inventory running.   *)
THEOREM QuietBetweenCalls == Tame => (Spec => []QuietWhenIdle)
<1> SUFFICES ASSUME Tame PROVE Spec => []QuietWhenIdle
  OBVIOUS
<1>1. CallInv => QuietWhenIdle
  BY DEF CallInv, QuietBetween, Quiet, QuietWhenIdle
<1>2. QED
  BY <1>1, CallsKept, PTL

(* STPv3.c:1690: over a tame line every tag a call reports was found for   *)
(* that call.                                                              *)
THEOREM TagsAreOwn == Tame => (Spec => []OwnTags)
<1> SUFFICES ASSUME Tame PROVE Spec => []OwnTags
  OBVIOUS
<1>1. CallInv => OwnTags
  BY DEF CallInv, OwnAnswers, OwnTags
<1>2. QED
  BY <1>1, CallsKept, PTL

-----------------------------------------------------------------------------
(* What a call has had carried out, over a tame line *)

LEMMA InitEffect == Init => EffectInv
  BY DEF Init, EffectInv

LEMMA NextKeepsEffect ==
  Tame => (TypeOK /\ SelectInv /\ CallInv /\ EffectInv /\ [Next]_vars => EffectInv')
<1> SUFFICES ASSUME Tame, TypeOK, SelectInv, CallInv, EffectInv, [Next]_vars
             PROVE  EffectInv'
  OBVIOUS
<1>1. ncalls \in Nat /\ \A r \in executed : r.call \in Nat
  BY RequestFields
<1>2. ASSUME NEW c \in Calls, Call(c) PROVE EffectInv'
  <2>1. ncalls' = ncalls + 1 /\ UNCHANGED executed
    BY <1>2 DEF Call, readerVars
  <2>2. \A r \in executed : r.call <= ncalls' /\ r.call # ncalls'
    BY <1>1, <2>1 DEF EffectInv
  <2>3. QED
    BY <2>1, <2>2 DEF EffectInv
<1>3. CASE WriteRequest
  BY <1>3, WriteShape DEF EffectInv
<1>4. CASE ReadFrame
  <2>1. pc' # "write" /\ UNCHANGED <<api, ncalls, wire, executed>>
    BY <1>4, ReadShape
  <2>2. QED
    BY <2>1 DEF EffectInv
<1>5. CASE HostOnly
  <2>1. UNCHANGED <<api, ncalls, wire, executed>>
    BY <1>5, HostShape
  <2>2. pc' = "write" => api.cmd \notin Cmds
    <3>1. CASE HandleSend
      <4>1. /\ pc = "handle" /\ ~api.inv /\ ~api.loop
            /\ pc' = "write" => resp.st = "SUCCESS" /\ resp.code = LOOP_OFF
        BY <3>1, TameCall DEF HandleSend, Return, Goto
      <4>2. resp.st = "SUCCESS" => resp.code \in SingleCodes
        BY <4>1 DEF CallInv, SingleInv
      <4>3. LOOP_OFF \notin SingleCodes
        BY CodesDiffer, TameCall DEF SingleCodes, AllCmds
      <4>4. QED
        BY <4>1, <4>2, <4>3
    <3>2. ASSUME NEW again \in BOOLEAN, Callback(again) PROVE api.cmd \notin Cmds
      <4>1. api.fn = "SelectTags"
        BY <3>2 DEF Callback, SelectInv
      <4>2. QED
        BY <4>1, TameCall
    <3>3. CASE HandleSelect \/ HandleStop \/ HandleGetTags \/ ReadTimeout
      BY <3>3 DEF HandleSelect, HandleStop, HandleGetTags, ReadTimeout, Respond, Return, Goto
    <3>4. QED
      BY <1>5, <3>1, <3>2, <3>3 DEF HostOnly, Handle
  <2>3. QED
    BY <2>1, <2>2 DEF EffectInv
<1>6. CASE Take \/ ReaderFind \/ ReaderInventoryDone
  <2>1. /\ UNCHANGED <<pc, api, ncalls>>
        /\ wire' = wire \/ (wire # <<>> /\ wire' = Tail(wire))
    BY <1>6, TakeShape DEF hostVars
  <2>2. wire' # <<>> => wire # <<>>
    BY <2>1, TameWire
  <2>3. CASE UNCHANGED executed
    BY <2>1, <2>2, <2>3 DEF EffectInv
  <2>4. CASE /\ wire # <<>> /\ wire' = Tail(wire) /\ Head(wire).cmd \in Cmds
             /\ executed' = executed \cup {Head(wire)}
    <3>1. /\ wire' = <<>> /\ Head(wire) = req /\ req.call = ncalls
          /\ api.cmd \in Cmds /\ pc # "write"
      BY <2>4, TameWire
    <3>2. \A r \in executed : r.call # ncalls
      BY <2>4, <3>1 DEF EffectInv
    <3>3. QED
      BY <1>1, <2>1, <2>4, <3>1, <3>2 DEF EffectInv
  <2>5. QED
    BY <1>6, <2>3, <2>4, TakeShape
<1>7. CASE UNCHANGED vars
  BY <1>7 DEF vars, hostVars, readerVars, EffectInv
<1>8. QED
  BY <1>2, <1>3, <1>4, <1>5, <1>6, <1>7 DEF Next, Read, HostOnly

(* Success of a command means that its own answer is at hand, unless a     *)
(* function sent it that takes the refusal of a write for success.         *)
LEMMA SuccessIsAnswer ==
  ASSUME Tame, TypeOK, CallInv, HandleSend, ~Unchecked(api), pc' = "idle",
         ret'.st = "SUCCESS"
  PROVE  /\ pc = "handle" /\ resp.st = "SUCCESS" /\ resp.code = Pass(api.cmd)
         /\ ret' = [fn |-> api.fn, st |-> "SUCCESS", data |-> api.fn = "Get"]
<1>1. /\ pc = "handle" /\ api.cmd \in Cmds /\ ~api.inv /\ ~api.loop
      /\ api.cmd # SELECT_TAG
  BY TameCall DEF HandleSend, CallInv
<1>2. api.fn # "Write" => api.cmd \notin WriteCmds
  BY STPv3Assumption DEF CallInv, ApiCall, HandleSend, Unchecked
<1>3. resp.st = "SUCCESS" => resp.code \in SingleCodes
  BY <1>1 DEF CallInv, SingleInv
<1>4. CASE resp.st # "SUCCESS"
  BY <1>4 DEF HandleSend, Return, Goto
<1>5. CASE resp.st = "SUCCESS" /\ resp.code # Pass(api.cmd)
  <2>1. /\ resp.code = Fail(api.cmd) \/ (resp.code = INVENTORY_DONE /\ api.cmd \in WriteCmds)
    BY <1>1, <1>3, <1>5 DEF SingleCodes
  <2>2. CommandStatus(resp.code) = "FAILURE"
    BY <1>2, <2>1 DEF CommandStatus, GetStatus, Fail, Code, INVENTORY_DONE
  <2>3. ret'.st = CommandStatus(resp.code)
    BY <1>5 DEF HandleSend, Return, Goto
  <2>4. QED
    BY <2>2, <2>3
<1>6. CASE resp.st = "SUCCESS" /\ resp.code = Pass(api.cmd)
  BY <1>1, <1>6 DEF HandleSend, Return, Goto
<1>7. QED
  BY <1>4, <1>5, <1>6

LEMMA NextKeepsData ==
  Tame =>
    (TypeOK /\ SelectInv /\ CallInv /\ SuccessHasData /\ [Next]_vars => SuccessHasData')
<1> SUFFICES ASSUME Tame, TypeOK, SelectInv, CallInv, SuccessHasData,
                    [Next]_vars, pc' = "idle", ret'.fn = "Get", ret'.st = "SUCCESS"
             PROVE  ret'.data
  BY DEF SuccessHasData
<1>1. CASE HandleSend
  <2>1. api.fn = "Get"
    BY <1>1 DEF HandleSend, Return, Goto
  <2>2. ret' = [fn |-> api.fn, st |-> "SUCCESS", data |-> api.fn = "Get"]
    BY <1>1, <2>1, SuccessIsAnswer DEF Unchecked
  <2>3. QED
    BY <2>2
<1>2. CASE \/ HandleSelect \/ HandleStop \/ HandleGetTags
           \/ \E again \in BOOLEAN : Callback(again)
  <2>1. ret'.fn = api.fn /\ api.fn # "Get"
    BY <1>2 DEF HandleSelect, HandleStop, HandleGetTags, Callback, StopSelectLoop, Return,
       Goto, SelectInv
  <2>2. QED
    BY <2>1
<1>3. CASE WriteRequest \/ ReadFrame \/ ReadTimeout \/ (\E c \in Calls : Call(c))
  <2>1. pc' # "idle"
    BY <1>3 DEF WriteRequest, ReadFrame, ReadTimeout, Respond, Call
  <2>2. QED
    BY <2>1
<1>4. CASE Take \/ ReaderFind \/ ReaderInventoryDone \/ UNCHANGED vars
  <2>1. UNCHANGED <<pc, ret>>
    BY <1>4, TakeShape DEF vars, hostVars
  <2>2. QED
    BY <2>1 DEF SuccessHasData
<1>5. QED
  BY <1>1, <1>2, <1>3, <1>4 DEF Next, Read, Handle

(* SkyeTekAPI.h: over a tame line, a Get function that returns success has *)
(* allocated the data it promises (STPv3.c:853-905): the success code it   *)
(* was given is the answer to its own command, never the end of an         *)
(* inventory or the refusal of a write.                                    *)
THEOREM SuccessBringsData == Tame => (Spec => []SuccessHasData)
<1> SUFFICES ASSUME Tame PROVE Spec => []SuccessHasData
  OBVIOUS
<1>1. Init => SuccessHasData
  BY DEF Init, SuccessHasData
<1>2. TypeOK /\ SelectInv /\ CallInv /\ SuccessHasData /\ [Next]_vars => SuccessHasData'
  BY NextKeepsData
<1>3. Spec => [](TypeOK /\ SelectInv /\ CallInv)
  BY CallsKept
<1>4. QED
  BY <1>1, <1>2, <1>3, PTL DEF Spec

-----------------------------------------------------------------------------
(* An answer that a call takes was sent for this call. *)

LEMMA NextKeepsOwnData ==
  TypeOK /\ CallInv /\ AnswerInv /\ OwnData /\ [Next]_vars => OwnData'
<1> SUFFICES ASSUME TypeOK, CallInv, AnswerInv, OwnData, [Next]_vars PROVE OwnData'
  OBVIOUS
<1>1. CASE HandleSend
  <2>1. CASE UNCHANGED accepted
    BY <1>1, <2>1 DEF HandleSend, readerVars, OwnData
  <2>2. CASE /\ pc = "handle" /\ resp.st = "SUCCESS" /\ resp.code = Pass(api.cmd)
             /\ accepted' = accepted \cup
                  {[call |-> ncalls, cmd |-> api.cmd, id |-> resp.req.id]}
    <3>1. api.cmd \in Cmds
      BY <1>1, ApiFields DEF HandleSend, TypeOK
    <3>2. AtHand
      BY <2>2, <3>1, AnswerCodes DEF AtHand
    <3>3. resp.req \in executed /\ resp.req.call = ncalls
      BY <2>2, <3>2 DEF AnswerInv, RespInv, CallInv, OwnAnswers
    <3>4. UNCHANGED executed
      BY <1>1 DEF HandleSend, readerVars
    <3>5. QED
      BY <2>2, <3>3, <3>4 DEF OwnData
  <2>3. QED
    BY <1>1, <2>1, <2>2 DEF HandleSend
<1>2. CASE ~HandleSend
  <2>1. UNCHANGED accepted
    BY <1>2, TakeShape
    DEF Next, Call, WriteRequest, Read, ReadFrame, ReadTimeout, Handle, HandleSelect,
        HandleStop, HandleGetTags, Callback, hostVars, vars
  <2>2. executed \subseteq executed'
    BY <1>2, TakeShape
    DEF Next, Call, WriteRequest, Read, ReadFrame, ReadTimeout, Handle, HandleSelect,
        HandleStop, HandleGetTags, Callback, readerVars, vars
  <2>3. QED
    BY <2>1, <2>2 DEF OwnData
<1>3. QED
  BY <1>1, <1>2

(* STPv3.c:853: over a tame line, whatever requests and answers it loses   *)
(* or damages, the answer a call takes is the answer to a request of that  *)
(* very call, and the reader has carried this request out.                 *)
THEOREM DataIsOwn == Tame => (Spec => []OwnData)
<1> SUFFICES ASSUME Tame PROVE Spec => []OwnData
  OBVIOUS
<1>1. Init => OwnData
  BY DEF Init, OwnData
<1>2. TypeOK /\ CallInv /\ AnswerInv /\ OwnData /\ [Next]_vars => OwnData'
  BY NextKeepsOwnData
<1>3. Spec => [](TypeOK /\ SelectInv /\ CallInv)
  BY CallsKept
<1>4. QED
  BY <1>1, <1>2, <1>3, AnswersKept, PTL DEF Spec

-----------------------------------------------------------------------------
(* The engine is a ReaderService.                                          *)

Mapped == TypeOK /\ SelectInv /\ CallInv /\ EffectInv /\ AnswerInv

(* What was carried out for the call in progress. *)
Done == {r \in executed : r.call = ncalls}

LEMMA DoneCounts ==
  /\ Done = {} => Cardinality(Done) = 0
  /\ \A r : Done = {r} => Cardinality(Done) = 1
  BY FS_EmptySet, FS_Singleton

(* The initial states are initial states of the service. *)
LEMMA InitMaps == Init => Service!Init
<1> SUFFICES ASSUME Init PROVE Service!Init
  OBVIOUS
<1>1. {r \in executed : r.call = ncalls} = {}
  BY DEF Init
<1>2. /\ pc = "idle" /\ mode.state = "idle" /\ ret.st = "FAILURE"
  BY DEF Init, Idle
<1>3. \A a, b : (IF a THEN "select" ELSE IF b THEN "unchecked" ELSE "command")
                \in Service!Kinds
  BY DEF Service!Kinds
<1>4. ~(pc # "idle") /\ ~(mode.state # "idle") /\ ret.st \in Statuses
  BY <1>2 DEF Statuses
<1>5. QED
  BY <1>1, <1>3, <1>4, FS_EmptySet DEF Service!Init

(* A step within a call that neither carries anything out nor starts or    *)
(* ends a search is invisible to the caller.                               *)
LEMMA Invisible ==
  ASSUME UNCHANGED <<api, ncalls, executed, ret, mode>>, pc # "idle" <=> pc' # "idle"
  PROVE  UNCHANGED Service!vars
  BY DEF Service!vars

LEMMA CallMaps ==
  ASSUME Mapped, NEW c \in Calls, Call(c)
  PROVE  Service!Next
<1> DEFINE k == IF c.cmd = SELECT_TAG THEN "select"
                ELSE IF Unchecked(c) THEN "unchecked" ELSE "command"
<1>1. /\ pc = "idle" /\ pc' = "write" /\ api' = c /\ ncalls' = ncalls + 1
      /\ UNCHANGED <<executed, mode, ret>>
  BY DEF Call, readerVars
<1>2. ncalls \in Nat /\ \A r \in executed : r.call \in Nat /\ r.call <= ncalls
  BY RequestFields DEF Mapped, EffectInv
<1>3. {r \in executed' : r.call = ncalls'} = {}
  BY <1>1, <1>2
<1>4. Cardinality({r \in executed' : r.call = ncalls'}) = 0
  BY <1>3, FS_EmptySet
<1>5. Service!Begin(k)
  BY <1>1, <1>4 DEF Service!Begin
<1>6. k \in Service!Kinds
  BY DEF Service!Kinds
<1>7. QED
  BY <1>5, <1>6 DEF Service!Next

(* A call returns: the reader has come to rest, and a command that reports *)
(* success was carried out once, if a refused write is told from success.  *)
LEMMA ReturnMaps ==
  ASSUME Mapped, pc # "idle", pc' = "idle", CallInv',
         UNCHANGED <<api, ncalls, executed, mode>>,
         ret'.st \in Statuses,
         api.cmd # SELECT_TAG /\ ~Unchecked(api) /\ ret'.st = "SUCCESS" => \E r \in Done : TRUE
  PROVE  Service!Next
<1>1. mode.state = "idle"
  BY DEF CallInv, QuietBetween, Quiet, Idle
<1>2. api.cmd # SELECT_TAG /\ ~Unchecked(api) /\ ret'.st = "SUCCESS" => Cardinality(Done) = 1
  <2> SUFFICES ASSUME NEW r \in Done PROVE Cardinality(Done) = 1
    OBVIOUS
  <2>1. Done = {r}
    BY DEF Done, Mapped, EffectInv
  <2>2. QED
    BY <2>1, DoneCounts
<1>3. Service!End(ret'.st)
  BY <1>1, <1>2 DEF Service!End, Done
<1>4. QED
  BY <1>3 DEF Service!Next

LEMMA HostMaps ==
  ASSUME Tame, Mapped, CallInv', TypeOK', HostOnly
  PROVE  Service!Next \/ UNCHANGED Service!vars
<1>1. /\ pc # "idle" /\ UNCHANGED <<api, ncalls, executed, mode>>
  BY HostShape DEF Mapped
<1>2. CASE pc' # "idle"
  <2>1. UNCHANGED ret
    BY <1>2 DEF HostOnly, Handle, HandleSend, HandleSelect, HandleStop, HandleGetTags,
       Callback, StopSelectLoop, Return, Goto, ReadTimeout
  <2>2. QED
    BY <1>1, <1>2, <2>1, Invisible
<1>3. CASE pc' = "idle"
  <2>1. ret'.st \in Statuses
    BY DEF TypeOK
  <2>2. api.cmd # SELECT_TAG /\ ~Unchecked(api) /\ ret'.st = "SUCCESS" => \E r \in Done : TRUE
    <3> SUFFICES ASSUME api.cmd # SELECT_TAG, ~Unchecked(api), ret'.st = "SUCCESS"
                 PROVE  \E r \in Done : TRUE
      OBVIOUS
    <3>1. api.cmd \in Cmds /\ api.fn \in {"Send", "Get", "Write"}
      BY TameCall DEF Mapped, AllCmds
    <3>2. HandleSend
      BY <1>3, <3>1 DEF HostOnly, Handle, HandleSelect, HandleStop, HandleGetTags,
         Callback, ReadTimeout, Respond, Mapped, SelectInv
    <3>3. pc = "handle" /\ resp.st = "SUCCESS" /\ resp.code = Pass(api.cmd)
      BY <1>3, <3>2, SuccessIsAnswer DEF Mapped
    <3>4. AtHand
      BY <3>1, <3>3, AnswerCodes DEF AtHand
    <3>5. resp.req \in executed /\ resp.req.call = ncalls
      BY <3>3, <3>4 DEF Mapped, AnswerInv, RespInv, CallInv, OwnAnswers
    <3>6. QED
      BY <3>5 DEF Done
  <2>3. QED
    BY <1>1, <1>3, <2>1, <2>2, ReturnMaps
<1>4. QED
  BY <1>2, <1>3

LEMMA ReaderMaps ==
  ASSUME Tame, Mapped, Take \/ ReaderFind \/ ReaderInventoryDone
  PROVE  Service!Next \/ UNCHANGED Service!vars
<1>1. UNCHANGED <<pc, api, ncalls, ret>>
  BY TakeShape DEF Mapped, hostVars
<1>2. wire # <<>> => Head(wire) = req /\ pc # "idle" /\ req.cmd = api.cmd /\ req.call = ncalls
  BY TameWire DEF Mapped
<1>3. CASE ReaderEndLoop \/ ReaderInventoryDone
  <2>1. mode.state # "idle" /\ mode'.state = "idle" /\ UNCHANGED executed
    BY <1>3 DEF ReaderEndLoop, ReaderInventoryDone, Idle
  <2>2. Service!StopScan
    BY <1>1, <2>1 DEF Service!StopScan
  <2>3. QED
    BY <2>2 DEF Service!Next
<1>4. CASE ReaderFind
  BY <1>1, <1>4, Invisible DEF ReaderFind, readerVars
<1>5. CASE ReaderSelect
  <2>1. /\ wire # <<>> /\ Head(wire).cmd = SELECT_TAG /\ UNCHANGED executed
        /\ mode.state = "idle"
        /\ mode' = mode \/ mode'.state \in {"loop", "inventory"}
    BY <1>5 DEF ReaderSelect
  <2>2. CASE mode' = mode
    BY <1>1, <2>1, <2>2, Invisible
  <2>3. CASE mode'.state \in {"loop", "inventory"}
    <3>1. Service!StartScan
      BY <1>1, <1>2, <2>1, <2>3 DEF Service!StartScan
    <3>2. QED
      BY <3>1 DEF Service!Next
  <2>4. QED
    BY <2>1, <2>2, <2>3
<1>6. CASE ReaderExecute
  <2>1. /\ wire # <<>> /\ Head(wire).cmd \in Cmds /\ UNCHANGED mode
        /\ executed' = executed \cup {Head(wire)} \/ UNCHANGED executed
    BY <1>6 DEF ReaderExecute
  <2>2. CASE UNCHANGED executed
    BY <1>1, <2>1, <2>2, Invisible
  <2>3. CASE executed' = executed \cup {Head(wire)}
    <3>1. api.cmd \in Cmds /\ api.cmd # SELECT_TAG /\ pc # "idle"
      BY <1>2, <2>1, TameCall DEF Mapped
    <3>2. {r \in executed : r.call = ncalls} = {}
      BY <2>1, <3>1 DEF Mapped, EffectInv
    <3>3. {r \in executed' : r.call = ncalls'} = {req}
      BY <1>1, <1>2, <2>1, <2>3, <3>2
    <3>4. /\ Cardinality({r \in executed : r.call = ncalls}) = 0
          /\ Cardinality({r \in executed' : r.call = ncalls'}) = 1
      BY <3>2, <3>3, FS_EmptySet, FS_Singleton
    <3>5. Service!Execute
      BY <1>1, <2>1, <3>1, <3>4 DEF Service!Execute
    <3>6. QED
      BY <3>5 DEF Service!Next
  <2>4. QED
    BY <2>1, <2>2, <2>3
<1>7. QED
  BY <1>3, <1>4, <1>5, <1>6 DEF Take

(* Every step of the engine is a step of the service or invisible to it. *)
LEMMA NextMaps ==
  Tame =>
    (Mapped /\ CallInv' /\ TypeOK' /\ [Next]_vars => [Service!Next]_Service!vars)
<1> SUFFICES ASSUME Tame, Mapped, CallInv', TypeOK', [Next]_vars
             PROVE  [Service!Next]_Service!vars
  OBVIOUS
<1>1. ASSUME NEW c \in Calls, Call(c) PROVE [Service!Next]_Service!vars
  BY <1>1, CallMaps
<1>2. CASE WriteRequest
  <2>1. UNCHANGED <<api, ncalls, executed, ret, mode>> /\ pc # "idle" /\ pc' # "idle"
    BY <1>2 DEF WriteRequest, readerVars
  <2>2. QED
    BY <2>1, Invisible
<1>3. CASE ReadFrame
  <2>1. /\ UNCHANGED <<api, ncalls, executed, ret, mode>>
        /\ pc # "idle" /\ pc' # "idle"
    BY <1>3 DEF ReadFrame, Respond, readerVars
  <2>2. QED
    BY <2>1, Invisible
<1>4. CASE HostOnly
  BY <1>4, HostMaps
<1>5. CASE Take \/ ReaderFind \/ ReaderInventoryDone
  BY <1>5, ReaderMaps
<1>6. CASE UNCHANGED vars
  <2>1. UNCHANGED <<pc, api, ncalls, executed, ret, mode>>
    BY <1>6 DEF vars, hostVars, readerVars
  <2>2. QED
    BY <2>1, Invisible
<1>7. QED
  BY <1>1, <1>2, <1>3, <1>4, <1>5, <1>6 DEF Next, Read, HostOnly

(* STPv3.c:813-2149: over a tame line the engine is a ReaderService: a     *)
(* command is carried out at most once, while its call lasts, and once     *)
(* when the call reports success, except for a write that SendCommand or   *)
(* SendSetTagCommand sends; the reader searches for tags only while a      *)
(* select call lasts.                                                      *)
THEOREM EngineIsService == Tame => (Spec => ImplementsService)
<1> SUFFICES ASSUME Tame PROVE Spec => ImplementsService
  OBVIOUS
<1>1. TypeOK /\ SelectInv /\ CallInv /\ EffectInv /\ [Next]_vars => EffectInv'
  BY NextKeepsEffect
<1>2. Spec => [](TypeOK /\ SelectInv /\ CallInv)
  BY CallsKept
<1>3. Spec => []EffectInv
  BY <1>1, <1>2, InitEffect, PTL DEF Spec
<1>4. Spec => []Mapped
  BY <1>2, <1>3, AnswersKept, PTL DEF Mapped
<1>5. Mapped => TypeOK /\ CallInv
  BY DEF Mapped
<1>6. Mapped /\ CallInv' /\ TypeOK' /\ [Next]_vars => [Service!Next]_Service!vars
  BY NextMaps
<1>7. Spec => Service!Spec
  BY <1>4, <1>5, <1>6, InitMaps, PTL DEF Spec, Service!Spec
<1>8. QED
  BY <1>7 DEF ImplementsService
=============================================================================
