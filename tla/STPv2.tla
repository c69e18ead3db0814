------------------------------- MODULE STPv2 -------------------------------
(***************************************************************************)
(* The request/response engine of SkyeTek Protocol version 2               *)
(* (src/SkyeTekAPI/Protocol/STPv2.c): the host, a reader, and the two byte *)
(* streams between them.  It differs from version 3 in that codes have one *)
(* octet, the end of an inventory is SELECT_TAG_FAIL, stopping a select    *)
(* loop reads one response only, and the tag of an answer has no length    *)
(* field.                                                                  *)
(*                                                                         *)
(* As in STPv3 a frame carries the request it answers as history that no   *)
(* host action looks at.                                                   *)
(***************************************************************************)
EXTENDS Integers, Sequences

CONSTANTS
  V2MaxCount, \* the limit of ReadResponse on its counter (10 in the code)
  V2LineMax,  \* bound: frames buffered between the reader and the host
  V2Lines     \* the lines there are: what each may do to requests and frames

SELECT_TAG   == "SELECT_TAG"
READ_TAG     == "READ_TAG"
WRITE_TAG    == "WRITE_TAG"
READ_SYSTEM  == "READ_SYSTEM"
WRITE_SYSTEM == "WRITE_SYSTEM"
Cmds         == {SELECT_TAG, READ_TAG, WRITE_TAG, READ_SYSTEM, WRITE_SYSTEM}

(* The device takes no octet of a request; the line loses a request or an  *)
(* answer, damages it behind its header or in it, delivers it in two       *)
(* parts, or late.                                                         *)
FaultKinds == {"write", "request", "answer", "crc", "header", "split", "late"}

ASSUME STPv2Assumption ==
  /\ V2MaxCount \in Nat
  /\ V2LineMax \in Nat \ {0}
  /\ V2Lines \subseteq SUBSET FaultKinds

VARIABLES
  faulty,   \* what this line may do
  pc,       \* where the host is
  api,      \* the call of the protocol in progress, or the last one
  ncalls,   \* how many such calls were made; the number of the current one
  stopping, \* StopSelectLoop runs
  stopped,  \* history: it ran
  req,      \* the request last built
  nreqs,    \* how many requests were written
  count,    \* the counter of ReadResponse
  resp,     \* the response ReadResponse returned, with its status
  got,      \* GetTags has put a tag on its lists
  ret,      \* what the last call returned
  wire,     \* requests on their way to the reader
  line,     \* frames on their way to the host
  mode,     \* what the reader is doing
  executed, \* history: the requests the reader carried out (not SELECT_TAG)
  looped    \* history: the reader was in loop mode

v2host   == <<pc, api, ncalls, stopping, stopped, req, nreqs, count, resp, got, ret>>
v2reader == <<mode, executed, looped>>
v2vars   == <<faulty, v2host, wire, line, v2reader>>

-----------------------------------------------------------------------------
(* Codes, requests and frames *)

Code(k, c) == [kind |-> k, cmd |-> c]
Pass(c)     == Code("PASS", c)
Fail(c)     == Code("FAIL", c)
LOOP_ON     == Code("LOOP_ON", SELECT_TAG)
LOOP_OFF    == Code("LOOP_OFF", SELECT_TAG)
NoCode      == Code("ZERO", SELECT_TAG)     \* nothing was parsed
DamagedCode == Code("DAMAGED", SELECT_TAG)  \* bit 7 clear, no command's code

Codes == [kind : {"PASS", "FAIL"}, cmd : Cmds] \cup {LOOP_ON, LOOP_OFF, NoCode, DamagedCode}

IsErrorResponse(code) == code.kind \in {"FAIL", "LOOP_OFF"}   \* bit 7 is set

StatusWithoutBit7(code) ==  \* mutant: a failure is looked up as the success of its command
  IF code.kind \in {"PASS", "FAIL"} THEN "SUCCESS" ELSE "FAILURE"

(* The status table, and a failure for every code that is not in it. *)
GetStatus(code) == IF code.kind = "PASS" THEN "SUCCESS" ELSE "FAILURE"

Statuses == {"SUCCESS", "FAILURE", "TIMEOUT", "INVALID_CRC", "READER_PROTOCOL_ERROR",
             "READER_IN_BOOT_LOAD_MODE", "READER_IO_ERROR"}

(* A call of the protocol: the Send functions that carry an address and    *)
(* return data ("Get") or take data ("Set"), and the select functions.     *)
Fns == {"Get", "Set", "SelectTag", "SelectTags", "GetTags"}
ProtocolCall == [fn : Fns, cmd : Cmds, inv : BOOLEAN, loop : BOOLEAN, auto : BOOLEAN]

Request == [id : Nat, call : Nat, cmd : Cmds, inv : BOOLEAN, loop : BOOLEAN, auto : BOOLEAN]
NoRequest == [id |-> 0, call |-> 0, cmd |-> SELECT_TAG, inv |-> FALSE, loop |-> FALSE,
              auto |-> TRUE]

(* "split": a time limit passes in the middle; "junk": no frame starts here. *)
Frame == [code : Codes, req : Request, form : {"ok", "badcrc", "split", "junk"}]

(* whole: the tag type was parsed from an answer that has one.             *)
Response   == [st : Statuses, code : Codes, req : Request, whole : BOOLEAN]
NoResponse == [st |-> "TIMEOUT", code |-> NoCode, req |-> NoRequest, whole |-> TRUE]

Can(fault) == fault \in faulty

-----------------------------------------------------------------------------
(* Requests *)

V2Call(c) ==
  /\ pc = "idle"
  /\ pc' = "write"
  /\ api' = c
  /\ ncalls' = ncalls + 1
  /\ stopping' = FALSE
  /\ got' = FALSE
  /\ UNCHANGED <<faulty, stopped, req, nreqs, count, resp, ret, wire, line, v2reader>>

Return(st) == pc' = "idle" /\ ret' = st
Goto(l)    == pc' = l /\ UNCHANGED ret

(* The request of the call in progress.  StopSelectLoop builds its own,    *)
(* SELECT_TAG without flags and with tag type 0, which is auto-detect.     *)
BuildRequest ==
  [id |-> nreqs + 1, call |-> ncalls, cmd |-> api.cmd,
   inv |-> api.inv /\ ~stopping, loop |-> api.loop /\ ~stopping,
   auto |-> api.auto \/ stopping]

(* A negative result of Write is a large positive one here: only a Write   *)
(* that takes nothing fails.  SelectTags ignores a failed stop.            *)
WriteRequest ==
  /\ pc = "write"
  /\ req' = BuildRequest
  /\ nreqs' = nreqs + 1
  /\ count' = 0
  /\ \/ Goto("read") /\ wire' = Append(wire, BuildRequest)
     \/ Can("request") /\ Goto("read") /\ UNCHANGED wire
     \/ /\ Can("write")
        /\ Return(IF stopping THEN "SUCCESS" ELSE "READER_IO_ERROR")
        /\ UNCHANGED wire
  /\ UNCHANGED <<faulty, api, ncalls, stopping, stopped, resp, got, line, v2reader>>

-----------------------------------------------------------------------------
(* Responses *)

(* What ReadResponseImpl makes of a frame, as <<status, code>>.  It sets   *)
(* the code before it looks at the CRC.  A body that does not come leaves  *)
(* the code zero, and one that comes in part fails the CRC.                *)
Parse(f) ==
  CASE f.form = "ok"     -> {<<"SUCCESS", f.code>>}
    [] f.form = "badcrc" -> {<<"INVALID_CRC", f.code>>, <<"INVALID_CRC", DamagedCode>>}
    [] f.form = "split"  -> {<<"TIMEOUT", NoCode>>, <<"INVALID_CRC", NoCode>>,
                             <<"INVALID_CRC", f.code>>}
    [] f.form = "junk"   -> {<<"READER_PROTOCOL_ERROR", NoCode>>,
                             <<"READER_IN_BOOT_LOAD_MODE", NoCode>>}

RestOfLine ==
  LET rest == Tail(line)
  IN  CASE Head(line).form = "split" -> {[line EXCEPT ![1].form = "junk"]}
        [] Head(line).form = "junk"  -> {line, rest}
        [] OTHER -> {rest}

Matches(code) ==
  \/ code = NoCode
  \/ IsErrorResponse(code)
  \/ req.cmd = SELECT_TAG /\ code = LOOP_ON
  \/ code = Pass(req.cmd)

RespondUnlimited(st, code, f) ==  \* mutant: responses are skipped without limit
  IF Matches(code)
  THEN /\ Goto("handle")
       /\ resp' = [st |-> st, code |-> code, req |-> f.req, whole |-> f.req.auto = req.auto]
       /\ count' = 0
  ELSE /\ count' = count + 2
       /\ UNCHANGED <<pc, ret, resp>>

(* ReadResponse counts a response and counts it again when it is skipped.  *)
Respond(st, code, f) ==
  IF Matches(code) \/ count + 2 > V2MaxCount
  THEN /\ Goto("handle")
       /\ resp' = [st |-> st, code |-> code, req |-> f.req, whole |-> f.req.auto = req.auto]
       /\ count' = 0
  ELSE /\ count' = count + 2
       /\ UNCHANGED <<pc, ret, resp>>

ReadFrame ==
  /\ pc = "read"
  /\ line # <<>>
  /\ \E p \in Parse(Head(line)) : Respond(p[1], p[2], Head(line))
  /\ line' \in RestOfLine
  /\ UNCHANGED <<faulty, api, ncalls, stopping, stopped, req, nreqs, got, wire, v2reader>>

(* Nothing arrives within the time limit. *)
ReadTimeout ==
  /\ pc = "read"
  /\ line = <<>>
  /\ Can("late") \/ (wire = <<>> /\ mode.state # "inventory")
  /\ Goto("handle")
  /\ resp' = NoResponse
  /\ count' = 0
  /\ UNCHANGED <<faulty, api, ncalls, stopping, stopped, req, nreqs, got, wire, line,
                 v2reader>>

-----------------------------------------------------------------------------
(* What the functions do with a response *)

Ok(code) == resp.st = "SUCCESS" /\ resp.code = code

RetryTimeouts ==  \* mutant: a command without an answer is sent again
  \/ resp.st = "TIMEOUT" /\ Goto("write")
  \/ resp.st # "TIMEOUT" /\ Return(IF resp.st = "SUCCESS" THEN GetStatus(resp.code) ELSE resp.st)

(* The Send functions and SelectTag: LOOP_OFF resends, any other code goes *)
(* through the table.                                                      *)
SendResult ==
  \/ /\ resp.st # "SUCCESS"
     /\ Return(resp.st)
  \/ /\ Ok(LOOP_OFF)
     /\ Goto("write")
  \/ /\ resp.st = "SUCCESS"
     /\ resp.code # LOOP_OFF
     /\ Return(GetStatus(resp.code))

HandleSend ==
  /\ pc = "handle"
  /\ api.fn \in {"Get", "Set", "SelectTag"}
  /\ SendResult
  /\ UNCHANGED <<faulty, api, ncalls, stopping, stopped, req, nreqs, count, resp, got,
                 wire, line, v2reader>>

HandleSelect ==
  /\ pc = "handle"
  /\ api.fn = "SelectTags"
  /\ ~stopping
  /\ \/ /\ resp.st = "TIMEOUT" \/ Ok(Pass(SELECT_TAG))
        /\ Goto("callback")
     \/ /\ resp.st \notin {"SUCCESS", "TIMEOUT"}
        /\ Return(resp.st)
     \/ /\ Ok(LOOP_ON)
        /\ Goto("read")
     \/ /\ resp.st = "SUCCESS"
        /\ resp.code \notin {LOOP_ON, Pass(SELECT_TAG)}
        /\ Return("SUCCESS")
  /\ UNCHANGED <<faulty, api, ncalls, stopping, stopped, req, nreqs, count, resp, got,
                 wire, line, v2reader>>

(* The callback returns 0 to stop, 1 to go on. *)
Callback(again) ==
  /\ pc = "callback"
  /\ \/ /\ ~again
        /\ Goto("write")
        /\ stopping' = TRUE
        /\ stopped' = TRUE
     \/ /\ again
        /\ resp.st = "SUCCESS" /\ ~api.inv /\ ~api.loop
        /\ Return("SUCCESS")
        /\ UNCHANGED <<stopping, stopped>>
     \/ /\ again
        /\ resp.st = "TIMEOUT" \/ api.inv \/ api.loop
        /\ Goto("read")
        /\ UNCHANGED <<stopping, stopped>>
  /\ UNCHANGED <<faulty, api, ncalls, req, nreqs, count, resp, got, wire, line, v2reader>>

(* StopSelectLoop reads one response, whatever it is: tags that were on    *)
(* their way and LOOP_OFF stay for the next call.                          *)
StopForLoopOff ==  \* mutant: only LOOP_OFF ends the stopping
  IF Ok(LOOP_OFF) THEN Return("SUCCESS") ELSE Goto("read")

StopResult == Return("SUCCESS")

HandleStop ==
  /\ pc = "handle"
  /\ stopping
  /\ StopResult
  /\ UNCHANGED <<faulty, api, ncalls, stopping, stopped, req, nreqs, count, resp, got,
                 wire, line, v2reader>>

GetOneTag ==  \* mutant: GetTags returns with the first tag
  /\ pc = "handle"
  /\ api.fn = "GetTags"
  /\ Return("SUCCESS")
  /\ got' = Ok(Pass(SELECT_TAG))
  /\ UNCHANGED <<faulty, api, ncalls, stopping, stopped, req, nreqs, count, resp, wire,
                 line, v2reader>>

(* GetTags collects tags until SELECT_TAG_FAIL or a read that fails; with  *)
(* any other code it frees its lists and returns the status of the read,   *)
(* SUCCESS, with a count of 0 and the pointers to the lists.               *)
HandleGetTags ==
  /\ pc = "handle"
  /\ api.fn = "GetTags"
  /\ \/ /\ resp.st # "SUCCESS" \/ Ok(Fail(SELECT_TAG))
        /\ Return("SUCCESS")
        /\ UNCHANGED got
     \/ /\ Ok(Pass(SELECT_TAG))
        /\ Goto("read")
        /\ got' = TRUE
     \/ /\ resp.st = "SUCCESS"
        /\ resp.code \notin {Pass(SELECT_TAG), Fail(SELECT_TAG)}
        /\ Return("SUCCESS")
        /\ UNCHANGED got
  /\ UNCHANGED <<faulty, api, ncalls, stopping, stopped, req, nreqs, count, resp, wire,
                 line, v2reader>>

FreedAtTheEnd ==  \* mutant: the end of an inventory takes the error exit
  api.fn = "GetTags" /\ got /\ resp.st = "SUCCESS" /\ resp.code # Pass(SELECT_TAG)

(* The lists of the call that returned were freed by GetTags. *)
ListsFreed ==
  /\ api.fn = "GetTags" /\ got /\ resp.st = "SUCCESS"
  /\ resp.code \notin {Pass(SELECT_TAG), Fail(SELECT_TAG)}

-----------------------------------------------------------------------------
(* The reader (external), as the host code expects it to behave *)

Idle == [state |-> "idle", req |-> NoRequest]

Emit(code, r) ==
  /\ Len(line) < V2LineMax
  /\ \/ Can("answer") /\ UNCHANGED line
     \/ \E form \in {"ok"} \cup (IF Can("crc") THEN {"badcrc"} ELSE {})
                           \cup (IF Can("header") THEN {"junk"} ELSE {})
                           \cup (IF Can("split") THEN {"split"} ELSE {}) :
          line' = Append(line, [code |-> code, req |-> r, form |-> form])

(* In loop mode any request only ends the loop. *)
ReaderEndLoop ==
  /\ wire # <<>>
  /\ mode.state = "loop"
  /\ wire' = Tail(wire)
  /\ mode' = Idle
  /\ Emit(LOOP_OFF, Head(wire))
  /\ UNCHANGED <<faulty, v2host, executed, looped>>

ReaderExecute ==
  /\ wire # <<>>
  /\ mode.state = "idle"
  /\ Head(wire).cmd # SELECT_TAG
  /\ wire' = Tail(wire)
  /\ \/ executed' = executed \cup {Head(wire)} /\ Emit(Pass(Head(wire).cmd), Head(wire))
     \/ Emit(Fail(Head(wire).cmd), Head(wire)) /\ UNCHANGED executed
  /\ UNCHANGED <<faulty, v2host, mode, looped>>

ReaderSelect ==
  /\ wire # <<>>
  /\ mode.state = "idle"
  /\ Head(wire).cmd = SELECT_TAG
  /\ wire' = Tail(wire)
  /\ LET r == Head(wire)
     IN  \/ /\ r.loop
            /\ mode' = [state |-> "loop", req |-> r]
            /\ Emit(LOOP_ON, r)
         \/ /\ ~r.loop /\ r.inv
            /\ mode' = [state |-> "inventory", req |-> r]
            /\ UNCHANGED line
         \/ /\ ~r.loop /\ ~r.inv
            /\ Emit(Pass(SELECT_TAG), r) \/ Emit(Fail(SELECT_TAG), r)
            /\ UNCHANGED mode
  /\ looped' = (looped \/ Head(wire).loop)
  /\ UNCHANGED <<faulty, v2host, executed>>

ReaderFind ==
  /\ mode.state \in {"loop", "inventory"}
  /\ Emit(Pass(SELECT_TAG), mode.req)
  /\ UNCHANGED <<faulty, v2host, wire, v2reader>>

ReaderInventoryDone ==
  /\ mode.state = "inventory"
  /\ Emit(Fail(SELECT_TAG), mode.req)
  /\ mode' = Idle
  /\ UNCHANGED <<faulty, v2host, wire, executed, looped>>

-----------------------------------------------------------------------------
V2Init ==
  /\ faulty \in V2Lines
  /\ pc = "idle"
  /\ api = [fn |-> "Get", cmd |-> READ_TAG, inv |-> FALSE, loop |-> FALSE, auto |-> FALSE]
  /\ ncalls = 0 /\ nreqs = 0 /\ count = 0
  /\ stopping = FALSE /\ stopped = FALSE /\ got = FALSE
  /\ req = NoRequest
  /\ resp = NoResponse
  /\ ret = "SUCCESS"
  /\ wire = <<>> /\ line = <<>>
  /\ mode = Idle
  /\ executed = {}
  /\ looped = FALSE

V2Read   == ReadFrame \/ ReadTimeout
V2Handle == HandleSend \/ HandleSelect \/ HandleStop \/ HandleGetTags
V2Take   == ReaderEndLoop \/ ReaderExecute \/ ReaderSelect

(* Everything that happens within a call. *)
V2Step ==
  \/ WriteRequest
  \/ V2Read
  \/ V2Handle
  \/ \E again \in BOOLEAN : Callback(again)
  \/ V2Take
  \/ ReaderFind
  \/ ReaderInventoryDone

V2TypeOK ==
  /\ faulty \in V2Lines
  /\ pc \in {"idle", "write", "read", "handle", "callback"}
  /\ api \in ProtocolCall
  /\ ncalls \in Nat /\ nreqs \in Nat /\ count \in 0..V2MaxCount
  /\ stopping \in BOOLEAN /\ stopped \in BOOLEAN /\ got \in BOOLEAN
  /\ req \in Request
  /\ resp \in Response
  /\ ret \in Statuses
  /\ wire \in Seq(Request)
  /\ line \in Seq(Frame)
  /\ mode \in [state : {"idle", "loop", "inventory"}, req : Request]
  /\ executed \subseteq Request
  /\ looped \in BOOLEAN
=============================================================================
