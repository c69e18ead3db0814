---------------------------- MODULE STPv3_proofs ----------------------------
(***************************************************************************)
(* Proofs about the protocol engine, for every set of commands and calls,  *)
(* every limit and every combination of line faults.                       *)
(***************************************************************************)
EXTENDS STPv3, SequenceTheorems, TLAPS

(* The fields of an API call, whichever of the three shapes it has. *)
LEMMA ApiFields ==
  ASSUME NEW c \in ApiCall
  PROVE  /\ c.cmd \in AllCmds
         /\ c.inv \in BOOLEAN
         /\ c.loop \in BOOLEAN
         /\ c.auto \in BOOLEAN
         /\ c.fn \in ApiFns
         /\ c.fn \in {"Send", "Get", "Write"} => c.cmd \in Cmds
  BY STPv3Assumption DEF ApiCall, ApiFns, AllCmds, SELECT_TAG

LEMMA RequestTyped ==
  ASSUME TypeOK
  PROVE  BuildRequest \in Request
  BY ApiFields DEF TypeOK, BuildRequest, Request

LEMMA CodesTyped ==
  /\ \A c \in AllCmds : Pass(c) \in Codes /\ Fail(c) \in Codes
  /\ LOOP_ON \in Codes /\ LOOP_OFF \in Codes /\ INVENTORY_DONE \in Codes
  /\ NoCode \in Codes /\ DamagedCode \in Codes
  /\ NoRequest \in Request
  BY DEF Codes, Pass, Fail, Code, LOOP_ON, LOOP_OFF, INVENTORY_DONE, NoCode,
         DamagedCode, NoRequest, Request, AllCmds, SELECT_TAG

(* A damaged or split frame, and junk, fail with a code that may be the    *)
(* frame's own; a whole frame has its own code.                            *)
LEMMA ParseShape ==
  ASSUME NEW f \in Frame, NEW r \in Request, NEW p \in Parse(f, r)
  PROVE  /\ p[1] \in Statuses
         /\ p[2] \in {f.code, DamagedCode, NoCode}
         /\ f.form # "ok" => p[1] # "SUCCESS"
         /\ f.form = "ok" => p[2] = f.code
         /\ f.form = "ok" /\ ~Mistyped(f, r) => p[1] = "SUCCESS"
         /\ f.form = "badcrc" => p[1] # "TIMEOUT"
<1>1. f.form \in Forms
  BY DEF Frame
<1>2. ASSUME NEW C, p \in {<<"INVALID_CRC", c>> : c \in C}
      PROVE  p[1] = "INVALID_CRC" /\ p[2] \in C
  BY <1>2
<1>3. ASSUME NEW C, p \in {<<"READER_PROTOCOL_ERROR", c>> : c \in C}
      PROVE  p[1] = "READER_PROTOCOL_ERROR" /\ p[2] \in C
  BY <1>3
<1>4. CASE f.form = "ok"
  BY <1>4 DEF Parse, Statuses
<1>5. CASE f.form = "badcrc"
  <2>1. \/ p \in {<<"INVALID_CRC", c>> : c \in Damaged(f.code)}
        \/ p \in {<<"READER_PROTOCOL_ERROR", c>> : c \in {f.code, DamagedCode}}
    BY <1>5 DEF Parse
  <2>2. \/ p[1] = "INVALID_CRC" /\ p[2] \in Damaged(f.code)
        \/ p[1] = "READER_PROTOCOL_ERROR" /\ p[2] \in {f.code, DamagedCode}
    BY <1>2, <1>3, <2>1, Zenon
  <2>3. QED
    BY <1>5, <2>2 DEF Damaged, Statuses
<1>6. CASE f.form = "split"
  <2>1. \/ p = <<"TIMEOUT", NoCode>>
        \/ p \in {<<"INVALID_CRC", c>> : c \in Damaged(f.code)}
        \/ p = <<"READER_PROTOCOL_ERROR", f.code>>
    BY <1>6 DEF Parse
  <2>2. \/ p[1] = "TIMEOUT" /\ p[2] = NoCode
        \/ p[1] = "INVALID_CRC" /\ p[2] \in Damaged(f.code)
        \/ p[1] = "READER_PROTOCOL_ERROR" /\ p[2] = f.code
    BY <1>2, <2>1
  <2>3. QED
    BY <1>6, <2>2 DEF Damaged, Statuses
<1>7. CASE f.form = "junk"
  BY <1>7 DEF Parse, Statuses
<1>8. QED
  BY <1>1, <1>4, <1>5, <1>6, <1>7 DEF Forms

(* A response has a status and a code, whatever the frame. *)
LEMMA ParseTyped ==
  ASSUME NEW f \in Frame, NEW r \in Request, NEW p \in Parse(f, r)
  PROVE  p[1] \in Statuses /\ p[2] \in Codes
<1>1. f.code \in Codes
  BY DEF Frame
<1>2. QED
  BY <1>1, ParseShape, CodesTyped

(* A Read takes the first frame off the line or turns frames into junk; it *)
(* invents none.                                                           *)
LEMMA RestTyped ==
  ASSUME line \in Seq(Frame), line # <<>>, NEW t \in RestOfLine
  PROVE  /\ t \in Seq(Frame)
         /\ \E k \in {0, 1} :
              /\ Len(t) = Len(line) - k
              /\ \A i \in 1..Len(t) : /\ t[i].code = line[i + k].code
                                      /\ t[i].req = line[i + k].req
              /\ Head(line).form \in {"ok", "badcrc"} => k = 1
<1> DEFINE rest == Tail(line)
           Junked(s) == [s EXCEPT ![1].form = "junk"]
<1>1. /\ Head(line) = line[1] /\ rest \in Seq(Frame)
      /\ Len(line) \in Nat \ {0}
      /\ Len(rest) = Len(line) - 1
      /\ \A i \in 1..Len(rest) : rest[i] = line[i + 1]
  OBVIOUS
<1>2. ASSUME NEW s \in Seq(Frame), s # <<>>
      PROVE  /\ Junked(s) \in Seq(Frame)
             /\ Len(Junked(s)) = Len(s)
             /\ \A i \in 1..Len(s) : /\ Junked(s)[i].code = s[i].code
                                     /\ Junked(s)[i].req = s[i].req
  <2>1. \A i \in 1..Len(s) : s[i] \in Frame
    BY <1>2
  <2>2. /\ DOMAIN Junked(s) = 1..Len(s)
        /\ \A i \in 1..Len(s) : /\ Junked(s)[i] \in Frame
                                /\ Junked(s)[i].code = s[i].code
                                /\ Junked(s)[i].req = s[i].req
    BY <1>2, <2>1 DEF Frame, Forms
  <2>3. QED
    BY <1>2, <2>2, LenProperties
<1>3. CASE Head(line).form = "split"
  <2>1. t = Junked(line)
    BY <1>3 DEF RestOfLine
  <2>2. /\ t \in Seq(Frame)
        /\ Len(t) = Len(line)
        /\ \A i \in 1..Len(line) : t[i].code = line[i].code /\ t[i].req = line[i].req
    BY <1>2, <2>1
  <2>3. /\ Len(t) = Len(line) - 0
        /\ \A i \in 1..Len(t) : t[i].code = line[i + 0].code /\ t[i].req = line[i + 0].req
    BY <1>1, <2>2
  <2>4. Head(line).form \notin {"ok", "badcrc"}
    BY <1>3
  <2>5. QED
    BY <2>2, <2>3, <2>4
<1>4. CASE t = rest
  BY <1>1, <1>4
<1>5. CASE Head(line).form = "junk" /\ rest # <<>> /\ t = Junked(rest)
  <2>1. /\ t \in Seq(Frame)
        /\ Len(t) = Len(rest)
        /\ \A i \in 1..Len(rest) : t[i].code = rest[i].code /\ t[i].req = rest[i].req
    BY <1>1, <1>2, <1>5
  <2>2. /\ Len(t) = Len(line) - 1
        /\ \A i \in 1..Len(t) : t[i].code = line[i + 1].code /\ t[i].req = line[i + 1].req
    BY <1>1, <2>1
  <2>3. QED
    BY <1>5, <2>1, <2>2
<1>6. CASE Head(line).form = "junk" /\ t = line
  <2>1. /\ Len(t) = Len(line) - 0
        /\ \A i \in 1..Len(t) : t[i].code = line[i + 0].code /\ t[i].req = line[i + 0].req
    BY <1>1, <1>6
  <2>2. QED
    BY <1>6, <2>1
<1>7. QED
  BY <1>3, <1>4, <1>5, <1>6 DEF RestOfLine

(* A frame that reaches the line is appended to it; nothing else changes.  *)
LEMMA EmitTyped ==
  ASSUME line \in Seq(Frame), NEW code \in Codes, NEW r \in Request, Emit(code, r)
  PROVE  /\ line' \in Seq(Frame)
         /\ \/ line' = line
            \/ /\ Len(line') = Len(line) + 1
               /\ \A i \in 1..Len(line) : line'[i] = line[i]
               /\ line'[Len(line) + 1].code = code
               /\ line'[Len(line) + 1].req = r
<1>1. CASE line' = line
  BY <1>1
<1>2. ASSUME NEW form \in Forms,
             line' = Append(line, [code |-> code, req |-> r, form |-> form])
      PROVE  /\ line' \in Seq(Frame)
             /\ Len(line') = Len(line) + 1
             /\ \A i \in 1..Len(line) : line'[i] = line[i]
             /\ line'[Len(line) + 1].code = code
             /\ line'[Len(line) + 1].req = r
  <2> DEFINE e == [code |-> code, req |-> r, form |-> form]
  <2>1. e \in Frame /\ e.code = code /\ e.req = r
    BY DEF Frame
  <2> HIDE DEF e
  <2>2. line' = Append(line, e)
    BY <1>2 DEF e
  <2>3. QED
    BY <2>1, <2>2, AppendProperties
<1>3. QED
  BY <1>1, <1>2 DEF Emit, Forms

-----------------------------------------------------------------------------
(* Type correctness *)

LEMMA InitTyped == Init => TypeOK
<1> SUFFICES ASSUME Init PROVE TypeOK
  OBVIOUS
<1>1. api \in ApiCall
  BY STPv3Assumption DEF Init
<1>2. resp \in Response /\ req \in Request /\ mode \in [state : {"idle", "loop", "inventory"}, req : Request]
  BY CodesTyped DEF Init, NoResponse, Response, Statuses, Idle
<1>3. count \in 0..MaxCount
  BY STPv3Assumption DEF Init
<1>4. ret \in [fn : ApiFns, st : Statuses, data : BOOLEAN]
  BY DEF Init, Statuses, ApiFns
<1>5. wire \in Seq(Request) /\ line \in Seq(Frame)
  BY DEF Init
<1>6. QED
  BY <1>1, <1>2, <1>3, <1>4, <1>5 DEF Init, TypeOK, Locations

(* The filter of ReadResponse keeps the counter within its limit. *)
LEMMA RespondTyped ==
  ASSUME TypeOK, pc = "read", NEW st \in Statuses, NEW code \in Codes, NEW r \in Request,
         Respond(st, code, r)
  PROVE  pc' \in Locations /\ resp' \in Response /\ count' \in 0..MaxCount
<1>1. CASE Matches(code) \/ count + 2 > MaxCount
  BY <1>1, STPv3Assumption DEF Respond, Response, Locations
<1>2. CASE ~(Matches(code) \/ count + 2 > MaxCount)
  BY <1>2, STPv3Assumption DEF Respond, TypeOK
<1>3. QED
  BY <1>1, <1>2

LEMMA ReturnTyped ==
  ASSUME TypeOK, NEW st \in Statuses, NEW data \in BOOLEAN, Return(st, data)
  PROVE  /\ pc' = "idle"
         /\ ret' \in [fn : ApiFns, st : Statuses, data : BOOLEAN]
  BY ApiFields DEF TypeOK, Return

LEMMA StatusTyped ==
  /\ \A code \in Codes : CommandStatus(code) \in Statuses
  /\ "SUCCESS" \in Statuses /\ "TIMEOUT" \in Statuses
  BY DEF CommandStatus, GetStatus, Statuses

LEMMA NextTyped == TypeOK /\ [Next]_vars => TypeOK'
<1> SUFFICES ASSUME TypeOK, [Next]_vars PROVE TypeOK'
  OBVIOUS
<1> USE DEF Locations
<1>1. ASSUME NEW c \in Calls, Call(c) PROVE TypeOK'
  <2>1. c \in ApiCall
    BY STPv3Assumption
  <2>2. pc' \in Locations /\ api' \in ApiCall /\ ncalls' \in Nat /\ stopping' \in BOOLEAN
    <3>1. pc' = "write" /\ api' = c /\ ncalls' = ncalls + 1 /\ stopping' = FALSE
      BY <1>1 DEF Call
    <3>2. ncalls \in Nat
      BY DEF TypeOK
    <3>3. pc' \in Locations /\ api' \in ApiCall /\ stopping' \in BOOLEAN
      BY <2>1, <3>1, Zenon
    <3>4. QED
      BY <3>1, <3>2, <3>3
  <2>3. UNCHANGED <<req, nreqs, count, resp, ret, accepted, wire, line, mode, executed, looped>>
    BY <1>1 DEF Call, readerVars
  <2>4. QED
    BY <2>2, <2>3 DEF TypeOK
<1>2. CASE WriteRequest
  <2>1. BuildRequest \in Request
    BY RequestTyped
  <2>2. wire' \in Seq(Request)
    BY <1>2, <2>1 DEF WriteRequest, TypeOK
  <2>3. count' \in 0..MaxCount
    BY <1>2, STPv3Assumption DEF WriteRequest
  <2>4. QED
    BY <1>2, <2>1, <2>2, <2>3 DEF WriteRequest, TypeOK, readerVars
<1>3. CASE ReadFrame
  <2>1. line' \in Seq(Frame)
    BY <1>3, RestTyped DEF ReadFrame, TypeOK
  <2>2. Head(line) \in Frame
    BY <1>3 DEF ReadFrame, TypeOK
  <2>3. PICK p \in Parse(Head(line), req) : Respond(p[1], p[2], Head(line).req)
    BY <1>3 DEF ReadFrame
  <2>4. p[1] \in Statuses /\ p[2] \in Codes /\ Head(line).req \in Request
    BY <2>2, ParseTyped DEF TypeOK, Frame
  <2>5. pc' \in Locations /\ resp' \in Response /\ count' \in 0..MaxCount
    BY <1>3, <2>3, <2>4, RespondTyped DEF ReadFrame
  <2>6. QED
    BY <1>3, <2>1, <2>5 DEF ReadFrame, TypeOK, readerVars
<1>4. CASE ReadTimeout
  <2>1. pc' \in Locations /\ resp' \in Response /\ count' \in 0..MaxCount
    BY <1>4, RespondTyped, CodesTyped, StatusTyped DEF ReadTimeout
  <2>2. QED
    BY <1>4, <2>1 DEF ReadTimeout, TypeOK, readerVars
<1>5. CASE HandleSend
  <2>1. /\ resp.st \in Statuses /\ resp.code \in Codes /\ resp.req.id \in Nat
        /\ api.cmd \in Cmds
    BY <1>5, ApiFields DEF HandleSend, TypeOK, Response, Request
  <2>2. accepted' \subseteq [call : Nat, cmd : Cmds, id : Nat]
    <3>1. [call |-> ncalls, cmd |-> api.cmd, id |-> resp.req.id]
            \in [call : Nat, cmd : Cmds, id : Nat]
      BY <2>1 DEF TypeOK
    <3>2. accepted \subseteq [call : Nat, cmd : Cmds, id : Nat]
      BY DEF TypeOK
    <3>3. QED
      BY <1>5, <3>1, <3>2 DEF HandleSend
  <2>3. /\ pc' \in Locations
        /\ ret' \in [fn : ApiFns, st : Statuses, data : BOOLEAN]
    <3>1. ASSUME NEW st \in Statuses, NEW data \in BOOLEAN, Return(st, data)
          PROVE  /\ pc' \in Locations
                 /\ ret' \in [fn : ApiFns, st : Statuses, data : BOOLEAN]
      BY <3>1, ReturnTyped
    <3>2. CASE Goto("write")
      BY <3>2 DEF Goto, TypeOK
    <3>3. (api.fn = "Get") \in BOOLEAN
      OBVIOUS
    <3>4. QED
      BY <1>5, <2>1, <3>1, <3>2, <3>3, StatusTyped DEF HandleSend
  <2>4. QED
    BY <1>5, <2>2, <2>3 DEF HandleSend, TypeOK, readerVars
<1>6. CASE HandleSelect
  <2>1. /\ pc' \in Locations
        /\ ret' \in [fn : ApiFns, st : Statuses, data : BOOLEAN]
    BY <1>6, ReturnTyped, StatusTyped DEF HandleSelect, Goto, TypeOK, Response
  <2>2. QED
    BY <1>6, <2>1 DEF HandleSelect, TypeOK, readerVars
<1>7. ASSUME NEW again \in BOOLEAN, Callback(again) PROVE TypeOK'
  <2>1. /\ pc' \in Locations /\ stopping' \in BOOLEAN
        /\ ret' \in [fn : ApiFns, st : Statuses, data : BOOLEAN]
    BY <1>7, ReturnTyped, StatusTyped DEF Callback, StopSelectLoop, Goto, TypeOK
  <2>2. QED
    BY <1>7, <2>1 DEF Callback, TypeOK, readerVars
<1>8. CASE HandleStop
  <2>1. /\ pc' \in Locations
        /\ ret' \in [fn : ApiFns, st : Statuses, data : BOOLEAN]
    BY <1>8, ReturnTyped, StatusTyped DEF HandleStop, Goto, TypeOK
  <2>2. QED
    BY <1>8, <2>1 DEF HandleStop, TypeOK, readerVars
<1>9. CASE HandleGetTags
  <2>1. (IF api.fn = "GetTags" THEN resp.st ELSE "SUCCESS") \in Statuses
    BY StatusTyped DEF TypeOK, Response
  <2>2. /\ pc' \in Locations
        /\ ret' \in [fn : ApiFns, st : Statuses, data : BOOLEAN]
    BY <1>9, <2>1, ReturnTyped, StatusTyped DEF HandleGetTags, Goto, TypeOK
  <2>3. QED
    BY <1>9, <2>2 DEF HandleGetTags, TypeOK, readerVars
<1>10. CASE Take
  <2>1. /\ wire # <<>> => Head(wire) \in Request /\ Tail(wire) \in Seq(Request)
        /\ \A r \in Request : r.cmd \in AllCmds
        /\ SELECT_TAG \in AllCmds /\ Cmds \subseteq AllCmds
    <3>1. wire # <<>> => Head(wire) \in Request /\ Tail(wire) \in Seq(Request)
      BY DEF TypeOK
    <3>2. QED
      BY <3>1 DEF Request, AllCmds
  <2>2. CASE ReaderEndLoop
    <3>1. line' \in Seq(Frame)
      BY <2>1, <2>2, EmitTyped, CodesTyped DEF ReaderEndLoop, TypeOK
    <3>2. QED
      BY <2>1, <2>2, <3>1, CodesTyped DEF ReaderEndLoop, TypeOK, hostVars, Idle
  <2>3. CASE ReaderExecute
    <3>1. line' \in Seq(Frame)
      BY <2>1, <2>3, EmitTyped, CodesTyped DEF ReaderExecute, TypeOK
    <3>2. QED
      BY <2>1, <2>3, <3>1 DEF ReaderExecute, TypeOK, hostVars
  <2>4. CASE ReaderSelect
    <3>1. line' \in Seq(Frame)
      BY <2>1, <2>4, EmitTyped, CodesTyped DEF ReaderSelect, TypeOK
    <3>2. mode' \in [state : {"idle", "loop", "inventory"}, req : Request]
      BY <2>1, <2>4 DEF ReaderSelect, TypeOK
    <3>3. QED
      BY <2>1, <2>4, <3>1, <3>2 DEF ReaderSelect, TypeOK, hostVars
  <2>5. QED
    BY <1>10, <2>2, <2>3, <2>4 DEF Take
<1>11. CASE ReaderFind
  <2>1. line' \in Seq(Frame)
    BY <1>11, EmitTyped, CodesTyped DEF ReaderFind, TypeOK, AllCmds
  <2>2. QED
    BY <1>11, <2>1 DEF ReaderFind, TypeOK, hostVars, readerVars
<1>12. CASE ReaderInventoryDone
  <2>1. line' \in Seq(Frame)
    BY <1>12, EmitTyped, CodesTyped DEF ReaderInventoryDone, TypeOK
  <2>2. QED
    BY <1>12, <2>1, CodesTyped DEF ReaderInventoryDone, TypeOK, hostVars, Idle
<1>13. CASE UNCHANGED vars
  BY <1>13 DEF TypeOK, vars, hostVars, readerVars
<1>14. QED
  BY <1>1, <1>2, <1>3, <1>4, <1>5, <1>6, <1>7, <1>8, <1>9, <1>10, <1>11, <1>12, <1>13
  DEF Next, Read, Handle

(* Every reachable state is well typed: in particular the counter of       *)
(* ReadResponse never leaves 0..MaxCount, whatever arrives on the line.    *)
THEOREM TypeCorrect == Spec => []TypeOK
  BY InitTyped, NextTyped, PTL DEF Spec

-----------------------------------------------------------------------------
(* Answers.  An answer to a command, on the line or at hand, is the answer *)
(* to a request of that command which the reader has carried out.          *)

IsAnswer(code) == code.kind = "PASS" /\ code.cmd \in Cmds
AtHand         == pc = "handle" /\ resp.st = "SUCCESS" /\ IsAnswer(resp.code)

LineInv ==
  \A i \in 1..Len(line) : IsAnswer(line[i].code) =>
    line[i].req \in executed /\ line[i].req.cmd = line[i].code.cmd

RespInv == AtHand => resp.req \in executed /\ resp.req.cmd = resp.code.cmd

AnswerInv == LineInv /\ RespInv /\ AnswerWasExecuted

(* Which codes are answers to a command. *)
LEMMA AnswerCodes ==
  /\ ~IsAnswer(NoCode) /\ ~IsAnswer(DamagedCode)
  /\ ~IsAnswer(LOOP_ON) /\ ~IsAnswer(LOOP_OFF) /\ ~IsAnswer(INVENTORY_DONE)
  /\ ~IsAnswer(Pass(SELECT_TAG))
  /\ \A c \in AllCmds : ~IsAnswer(Fail(c))
  /\ \A c \in Cmds : IsAnswer(Pass(c)) /\ Pass(c).cmd = c
  BY STPv3Assumption DEF IsAnswer, NoCode, DamagedCode, LOOP_ON, LOOP_OFF,
     INVENTORY_DONE, Pass, Fail, Code

(* A step that touches neither the line nor the history, and puts no new   *)
(* answer at hand.                                                         *)
LEMMA AnswersUndisturbed ==
  ASSUME AnswerInv, UNCHANGED <<line, executed, accepted>>,
         AtHand' => AtHand /\ resp' = resp
  PROVE  AnswerInv'
  BY DEF AnswerInv, LineInv, RespInv, AnswerWasExecuted, IsAnswer

(* A response at hand answers a command only if it was parsed from a whole *)
(* frame with that code.                                                   *)
LEMMA ParsedAnswer ==
  ASSUME NEW f \in Frame, NEW r \in Request, NEW p \in Parse(f, r),
         p[1] = "SUCCESS"
  PROVE  f.form = "ok" /\ p[2] = f.code
  BY ParseShape

(* The frame that becomes the response is the first one of the line. *)
LEMMA ReadKeepsAnswers ==
  ASSUME TypeOK, AnswerInv, ReadFrame
  PROVE  AnswerInv'
<1>1. PICK p \in Parse(Head(line), req) : Respond(p[1], p[2], Head(line).req)
  BY DEF ReadFrame
<1>2. /\ pc = "read" /\ line # <<>> /\ line' \in RestOfLine
      /\ UNCHANGED <<executed, accepted>>
  BY DEF ReadFrame, readerVars
<1>3. PICK k \in {0, 1} :
        /\ Len(line') = Len(line) - k
        /\ \A i \in 1..Len(line') : /\ line'[i].code = line[i + k].code
                                    /\ line'[i].req = line[i + k].req
  BY <1>2, RestTyped DEF TypeOK
<1>4. /\ Len(line) \in Nat \ {0} /\ Head(line) = line[1] /\ Head(line) \in Frame
      /\ req \in Request /\ 1 \in 1..Len(line)
      /\ \A i \in 1..Len(line') : i + k \in 1..Len(line)
  BY <1>2, <1>3 DEF TypeOK
<1>5. LineInv'
  BY <1>2, <1>3, <1>4 DEF AnswerInv, LineInv, IsAnswer
<1>6. AtHand' => /\ resp'.code = line[1].code /\ resp'.req = line[1].req
                 /\ IsAnswer(line[1].code)
  BY <1>1, <1>2, <1>4, ParsedAnswer DEF AtHand, Respond, IsAnswer
<1>7. RespInv'
  BY <1>2, <1>4, <1>6 DEF AnswerInv, LineInv, RespInv
<1>8. QED
  BY <1>2, <1>5, <1>7 DEF AnswerInv, AnswerWasExecuted

(* The answer at hand is taken as the result of the call. *)
LEMMA HandleSendKeepsAnswers ==
  ASSUME TypeOK, AnswerInv, HandleSend
  PROVE  AnswerInv'
<1>1. UNCHANGED <<line, executed>> /\ pc = "handle" /\ ~AtHand'
  BY DEF HandleSend, readerVars, Return, Goto, AtHand
<1>2. CASE accepted' = accepted
  BY <1>1, <1>2, AnswersUndisturbed
<1>3. CASE /\ resp.st = "SUCCESS"
           /\ resp.code = Pass(api.cmd)
           /\ accepted' = accepted \cup
                {[call |-> ncalls, cmd |-> api.cmd, id |-> resp.req.id]}
  <2>1. api.cmd \in Cmds
    BY ApiFields DEF HandleSend, TypeOK
  <2>2. resp.req \in executed /\ resp.req.cmd = api.cmd
    BY <1>1, <1>3, <2>1, AnswerCodes DEF AtHand, AnswerInv, RespInv
  <2>3. AnswerWasExecuted'
    BY <1>1, <1>3, <2>2 DEF AnswerInv, AnswerWasExecuted
  <2>4. LineInv' /\ RespInv'
    BY <1>1 DEF AnswerInv, LineInv, RespInv, IsAnswer
  <2>5. QED
    BY <2>3, <2>4 DEF AnswerInv
<1>4. QED
  BY <1>2, <1>3 DEF HandleSend

(* The reader takes at most the first request off the wire. *)
LEMMA WireTyped ==
  ASSUME TypeOK, wire' = wire \/ (wire # <<>> /\ wire' = Tail(wire))
  PROVE  \E k \in {0, 1} :
           /\ Len(wire') = Len(wire) - k
           /\ \A i \in 1..Len(wire') : /\ i + k \in 1..Len(wire)
                                       /\ wire'[i] = wire[i + k]
           /\ wire' # wire => k = 1
<1>1. wire \in Seq(Request) /\ Len(wire) \in Nat
  BY DEF TypeOK
<1>2. CASE wire' = wire
  <2>1. /\ Len(wire') = Len(wire) - 0
        /\ \A i \in 1..Len(wire') : i + 0 \in 1..Len(wire) /\ wire'[i] = wire[i + 0]
    BY <1>1, <1>2
  <2>2. QED
    BY <1>2, <2>1
<1>3. CASE wire # <<>> /\ wire' = Tail(wire)
  <2>1. /\ Len(wire') = Len(wire) - 1
        /\ \A i \in 1..Len(wire') : i + 1 \in 1..Len(wire) /\ wire'[i] = wire[i + 1]
    BY <1>1, <1>3
  <2>2. QED
    BY <2>1
<1>4. QED
  BY <1>2, <1>3

(* A step of the reader: the frame it sends, if it is an answer, answers a *)
(* request that the same step carries out.                                 *)
LEMMA ReaderKeepsAnswers ==
  ASSUME TypeOK, AnswerInv, UNCHANGED hostVars, executed \subseteq executed',
         \/ line' = line
         \/ /\ Len(line') = Len(line) + 1
            /\ \A i \in 1..Len(line) : line'[i] = line[i]
            /\ IsAnswer(line'[Len(line) + 1].code) =>
                 /\ line'[Len(line) + 1].req \in executed'
                 /\ line'[Len(line) + 1].req.cmd = line'[Len(line) + 1].code.cmd
  PROVE  AnswerInv'
<1>1. UNCHANGED <<accepted, resp, pc>> /\ Len(line) \in Nat
  BY DEF hostVars, TypeOK
<1>2. \A i \in 1..Len(line') : \/ i \in 1..Len(line) /\ line'[i] = line[i]
                               \/ i = Len(line) + 1 /\ line' # line
  BY <1>1
<1>3. LineInv'
  BY <1>1, <1>2 DEF AnswerInv, LineInv, IsAnswer
<1>4. RespInv' /\ AnswerWasExecuted'
  BY <1>1 DEF AnswerInv, RespInv, AtHand, IsAnswer, AnswerWasExecuted
<1>5. QED
  BY <1>3, <1>4 DEF AnswerInv

LEMMA InitAnswers == Init => AnswerInv
  BY DEF Init, AnswerInv, LineInv, RespInv, AnswerWasExecuted, AtHand

LEMMA NextKeepsAnswers == TypeOK /\ AnswerInv /\ [Next]_vars => AnswerInv'
<1> SUFFICES ASSUME TypeOK, AnswerInv, [Next]_vars PROVE AnswerInv'
  OBVIOUS
<1>1. ASSUME NEW c \in Calls, Call(c) PROVE AnswerInv'
  <2>1. UNCHANGED <<line, executed, accepted>> /\ ~AtHand'
    BY <1>1 DEF Call, readerVars, AtHand
  <2>2. QED
    BY <2>1, AnswersUndisturbed
<1>2. CASE WriteRequest
  <2>1. UNCHANGED <<line, executed, accepted>> /\ ~AtHand'
    BY <1>2 DEF WriteRequest, readerVars, AtHand
  <2>2. QED
    BY <2>1, AnswersUndisturbed
<1>3. CASE ReadFrame
  BY <1>3, ReadKeepsAnswers
<1>4. CASE ReadTimeout
  <2>1. UNCHANGED <<line, executed, accepted>> /\ ~AtHand'
    BY <1>4 DEF ReadTimeout, Respond, readerVars, AtHand
  <2>2. QED
    BY <2>1, AnswersUndisturbed
<1>5. CASE HandleSend
  BY <1>5, HandleSendKeepsAnswers
<1>6. CASE HandleSelect
  <2>1. UNCHANGED <<line, executed, accepted>> /\ ~AtHand'
    BY <1>6 DEF HandleSelect, Goto, Return, readerVars, AtHand
  <2>2. QED
    BY <2>1, AnswersUndisturbed
<1>7. ASSUME NEW again \in BOOLEAN, Callback(again) PROVE AnswerInv'
  <2>1. UNCHANGED <<line, executed, accepted>> /\ ~AtHand'
    BY <1>7 DEF Callback, StopSelectLoop, Goto, Return, readerVars, AtHand
  <2>2. QED
    BY <2>1, AnswersUndisturbed
<1>8. CASE HandleStop
  <2>1. UNCHANGED <<line, executed, accepted>> /\ ~AtHand'
    BY <1>8 DEF HandleStop, Goto, Return, readerVars, AtHand
  <2>2. QED
    BY <2>1, AnswersUndisturbed
<1>9. CASE HandleGetTags
  <2>1. UNCHANGED <<line, executed, accepted>> /\ ~AtHand'
    BY <1>9 DEF HandleGetTags, Goto, Return, readerVars, AtHand
  <2>2. QED
    BY <2>1, AnswersUndisturbed
<1>10. /\ wire # <<>> => Head(wire) \in Request /\ Head(wire).cmd \in AllCmds
       /\ line \in Seq(Frame) /\ mode.req \in Request /\ SELECT_TAG \in AllCmds
  <2>1. wire # <<>> => Head(wire) \in Request
    BY DEF TypeOK
  <2>2. line \in Seq(Frame) /\ mode.req \in Request
    BY DEF TypeOK
  <2>3. QED
    BY <2>1, <2>2 DEF Request, AllCmds
<1>11. ASSUME UNCHANGED <<hostVars, executed>>, NEW code \in Codes, ~IsAnswer(code),
              NEW r \in Request, Emit(code, r)
       PROVE  AnswerInv'
  BY <1>10, <1>11, EmitTyped, ReaderKeepsAnswers
<1>12. CASE Take
  <2>1. CASE ReaderEndLoop
    BY <1>10, <1>11, <2>1, CodesTyped, AnswerCodes DEF ReaderEndLoop
  <2>2. CASE ReaderExecute
    <3>1. UNCHANGED hostVars /\ wire # <<>> /\ Head(wire).cmd \in Cmds
      BY <2>2 DEF ReaderExecute
    <3>2. CASE executed' = executed \cup {Head(wire)} /\ Emit(Pass(Head(wire).cmd), Head(wire))
      BY <1>10, <3>1, <3>2, EmitTyped, CodesTyped, AnswerCodes, ReaderKeepsAnswers
    <3>3. CASE UNCHANGED executed /\ Emit(Fail(Head(wire).cmd), Head(wire))
      BY <1>10, <1>11, <3>1, <3>3, CodesTyped, AnswerCodes
    <3>4. CASE UNCHANGED executed /\ Emit(INVENTORY_DONE, Head(wire))
      BY <1>10, <1>11, <3>1, <3>4, CodesTyped, AnswerCodes
    <3>5. QED
      BY <2>2, <3>2, <3>3, <3>4 DEF ReaderExecute
  <2>3. CASE ReaderSelect
    <3>1. UNCHANGED <<hostVars, executed>> /\ wire # <<>>
      BY <2>3 DEF ReaderSelect
    <3>2. CASE \E code \in {LOOP_ON, Pass(SELECT_TAG), Fail(SELECT_TAG)} :
                 Emit(code, Head(wire))
      BY <1>10, <1>11, <3>1, <3>2, CodesTyped, AnswerCodes
    <3>3. CASE UNCHANGED line
      BY <3>1, <3>3, ReaderKeepsAnswers
    <3>4. QED
      BY <2>3, <3>2, <3>3 DEF ReaderSelect
  <2>4. QED
    BY <1>12, <2>1, <2>2, <2>3 DEF Take
<1>13. CASE ReaderFind
  BY <1>10, <1>11, <1>13, CodesTyped, AnswerCodes DEF ReaderFind, readerVars
<1>14. CASE ReaderInventoryDone
  BY <1>10, <1>11, <1>14, CodesTyped, AnswerCodes DEF ReaderInventoryDone
<1>15. CASE UNCHANGED vars
  BY <1>15, AnswersUndisturbed DEF vars, hostVars, readerVars, AtHand
<1>16. QED
  BY <1>1, <1>2, <1>3, <1>4, <1>5, <1>6, <1>7, <1>8, <1>9, <1>12, <1>13, <1>14, <1>15
  DEF Next, Read, Handle

(* AnswerInv holds in every reachable state, whatever the line loses,      *)
(* delays, splits or damages.                                              *)
LEMMA AnswersKept == Spec => []AnswerInv
<1>1. Spec => []TypeOK
  BY TypeCorrect
<1>2. QED
  BY <1>1, InitAnswers, NextKeepsAnswers, PTL DEF Spec

(* A call that hands out an answer hands out one that the reader sent for  *)
(* a request of the same command which it carried out (STPv3.c:853-858).   *)
THEOREM AnswersWereExecuted == Spec => []AnswerWasExecuted
<1>1. AnswerInv => AnswerWasExecuted
  BY DEF AnswerInv
<1>2. QED
  BY <1>1, AnswersKept, PTL
=============================================================================
