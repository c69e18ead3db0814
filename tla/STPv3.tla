------------------------------- MODULE STPv3 -------------------------------
(***************************************************************************)
(* The request/response engine of SkyeTek Protocol version 3               *)
(* (src/SkyeTekAPI/Protocol/STPv3.c): one host thread that makes API calls *)
(* one after the other, a reader, and the two byte streams between them.   *)
(*                                                                         *)
(* A frame carries a code and no sequence number: the host decides which   *)
(* frames answer its request by their code alone.  What the model keeps    *)
(* besides the code - the request a frame answers - is history that no     *)
(* host action looks at.                                                   *)
(***************************************************************************)
EXTENDS Naturals, Sequences

CONSTANTS
  Cmds,      \* command codes other than SELECT_TAG
  WriteCmds, \* those that write to a tag; the reader may refuse them with INVENTORY_DONE
  Calls,     \* the API calls the client may make, a set of records (see ApiCall)
  MaxCount,  \* the limit of ReadResponse on its counter (10 in the code)
  MaxCalls,  \* bound: number of API calls of a behaviour
  LineMax,   \* bound: frames buffered between the reader and the host
  Faults     \* what the line may do to requests and frames

SELECT_TAG == "SELECT_TAG"
AllCmds    == Cmds \cup {SELECT_TAG}

(* What the line may do: lose a request or an answer, damage a frame behind *)
(* its header or in it, deliver a frame in two parts, deliver after the    *)
(* time limit.                                                             *)
FaultKinds == {"request", "answer", "crc", "header", "split", "late"}

(* A call of the C API: the Send*Command family ("Send" returns a status,  *)
(* "Get" also hands out data, "Write" is SendAddrSetTagCommand) or one of  *)
(* the three select functions.  Writes to a tag go through "Write"         *)
(* (WriteTagData, WriteFile) or through "Send" (WriteAFI, WriteDSFID,      *)
(* ChangeKey).  auto: the tag type of the request is one of the            *)
(* auto-detect types.                                                      *)
ApiFns == {"Send", "Get", "Write", "SelectTags", "GetTags", "GetTagsWithMask"}
ApiCall ==
  [fn : {"Send"}, cmd : Cmds, inv : {FALSE}, loop : {FALSE}, auto : BOOLEAN]
    \cup
  [fn : {"Get"}, cmd : Cmds \ WriteCmds, inv : {FALSE}, loop : {FALSE}, auto : BOOLEAN]
    \cup
  [fn : {"Write"}, cmd : WriteCmds, inv : {FALSE}, loop : {FALSE}, auto : BOOLEAN]
    \cup
  [fn : {"SelectTags"}, cmd : {SELECT_TAG}, inv : BOOLEAN, loop : BOOLEAN, auto : BOOLEAN]
    \cup
  [fn : {"GetTags", "GetTagsWithMask"}, cmd : {SELECT_TAG}, inv : {TRUE},
   loop : {FALSE}, auto : BOOLEAN]

ASSUME STPv3Assumption ==
  /\ SELECT_TAG \notin Cmds
  /\ WriteCmds \subseteq Cmds
  /\ Calls \subseteq ApiCall
  /\ MaxCount \in Nat
  /\ MaxCalls \in Nat
  /\ LineMax \in Nat \ {0}
  /\ Faults \subseteq FaultKinds

VARIABLES
  pc,        \* where the host is: see Locations
  api,       \* the API call in progress, or the last one
  ncalls,    \* how many API calls were made; the number of the current one
  stopping,  \* StopSelectLoop runs inside SelectTags
  req,       \* the request last built
  nreqs,     \* how many requests were written
  count,     \* the counter of ReadResponse
  resp,      \* the response ReadResponse returned, with its status
  ret,       \* what the last API call returned
  wire,      \* requests on their way to the reader
  line,      \* frames on their way to the host
  mode,      \* what the reader is doing
  executed,  \* history: the requests the reader carried out (not SELECT_TAG)
  looped,    \* history: the reader was in loop mode
  accepted   \* history: which call took the answer to which request

hostVars   == <<pc, api, ncalls, stopping, req, nreqs, count, resp, ret, accepted>>
readerVars == <<mode, executed, looped>>
vars       == <<hostVars, wire, line, readerVars>>

-----------------------------------------------------------------------------
(* Codes.  PASS, LOOP_ON: bit 15 clear.  The other kinds have it set.      *)

Code(k, c)     == [kind |-> k, cmd |-> c]
Pass(c)        == Code("PASS", c)
Fail(c)        == Code("FAIL", c)
LOOP_ON        == Code("LOOP_ON", SELECT_TAG)
LOOP_OFF       == Code("LOOP_OFF", SELECT_TAG)
INVENTORY_DONE == Code("INVENTORY_DONE", SELECT_TAG)
NoCode         == Code("ZERO", SELECT_TAG)     \* nothing was parsed
DamagedCode    == Code("DAMAGED", SELECT_TAG)  \* bit 15 clear, no command's code

Codes == [kind : {"PASS", "FAIL"}, cmd : AllCmds]
           \cup {LOOP_ON, LOOP_OFF, INVENTORY_DONE, NoCode, DamagedCode}

IsErrorResponse(code) == code.kind \in {"FAIL", "LOOP_OFF", "INVENTORY_DONE"}

Statuses == {"SUCCESS", "TIMEOUT", "INVALID_CRC", "READER_PROTOCOL_ERROR", "FAILURE"}

(* The status table: every PASS code and INVENTORY_DONE stand for success; *)
(* codes that are not in the table, LOOP_ON and LOOP_OFF among them, fail. *)
FailIsSuccess(code) ==  \* mutant: the FAIL codes fall through to success
  IF code.kind \in {"PASS", "FAIL", "INVENTORY_DONE"} THEN "SUCCESS" ELSE "FAILURE"

GetStatus(code) ==
  IF code.kind \in {"PASS", "INVENTORY_DONE"} THEN "SUCCESS" ELSE "FAILURE"

-----------------------------------------------------------------------------
(* Requests and frames *)

Request == [id : Nat, call : Nat, cmd : AllCmds, inv : BOOLEAN, loop : BOOLEAN,
            auto : BOOLEAN]
NoRequest == [id |-> 0, call |-> 0, cmd |-> SELECT_TAG, inv |-> FALSE,
              loop |-> FALSE, auto |-> TRUE]

(* "split": the time limit of a Read passes in the middle of the frame.    *)
(* "junk": bytes that do not start with a header.                          *)
Forms == {"ok", "badcrc", "split", "junk"}
Frame == [code : Codes, req : Request, form : Forms]

Response   == [st : Statuses, code : Codes, req : Request]
NoResponse == [st |-> "TIMEOUT", code |-> NoCode, req |-> NoRequest]

Locations == {"idle", "write", "read", "handle", "callback"}

-----------------------------------------------------------------------------
(* The host *)

(* The client enters the API. *)
Call(c) ==
  /\ pc = "idle"
  /\ ncalls < MaxCalls
  /\ pc' = "write"
  /\ api' = c
  /\ ncalls' = ncalls + 1
  /\ stopping' = FALSE
  /\ UNCHANGED <<req, nreqs, count, resp, ret, accepted, wire, line, readerVars>>

(* The request of the call in progress; StopSelectLoop builds its own,     *)
(* SELECT_TAG without flags and with tag type 0, which is auto-detect.     *)
BuildRequest ==
  [id   |-> nreqs + 1,
   call |-> ncalls,
   cmd  |-> api.cmd,
   inv  |-> api.inv /\ ~stopping,
   loop |-> api.loop /\ ~stopping,
   auto |-> api.auto \/ stopping]

(* WriteRequest reports success whether or not the bytes went out.         *)
WriteRequest ==
  /\ pc = "write"
  /\ req' = BuildRequest
  /\ nreqs' = nreqs + 1
  /\ \/ wire' = Append(wire, BuildRequest)
     \/ "request" \in Faults /\ UNCHANGED wire
  /\ pc' = "read"
  /\ count' = 0
  /\ UNCHANGED <<api, ncalls, stopping, resp, ret, accepted, line, readerVars>>

(* The tag type field of a SELECT_TAG answer is there when the request     *)
(* that caused it asked for auto-detection, and is parsed when the request *)
(* at hand does: when they differ the length field is read from the wrong  *)
(* place.                                                                  *)
Mistyped(f, r) == f.code = Pass(SELECT_TAG) /\ f.req.auto # r.auto

(* What a damaged code may look like: like itself, like no command's code, *)
(* or like one that is returned whatever the request was.                  *)
Damaged(code) == {code, DamagedCode, NoCode}

(* What ReadResponseImpl makes of a frame, as <<status, code>>.  Of a      *)
(* mistyped answer only a tag ID that looks like a short length gets       *)
(* through; a length that is too long is noticed before the CRC is.        *)
ParseMasked(f, r) ==  \* mutant: bit 15 of the code is masked away
  IF f.form = "ok"
  THEN {<<"SUCCESS", [f.code EXCEPT !.kind = IF @ = "FAIL" THEN "PASS" ELSE @]>>}
  ELSE {<<"TIMEOUT", NoCode>>}

Parse(f, r) ==
  CASE f.form = "ok" /\ Mistyped(f, r) ->
         {<<"READER_PROTOCOL_ERROR", f.code>>}
           \cup (IF r.auto THEN {<<"SUCCESS", f.code>>} ELSE {})
    [] f.form = "ok" /\ ~Mistyped(f, r) -> {<<"SUCCESS", f.code>>}
    [] f.form = "badcrc" ->
         {<<"INVALID_CRC", c>> : c \in Damaged(f.code)}
           \cup (IF IsErrorResponse(f.code) THEN {}
                 ELSE {<<"READER_PROTOCOL_ERROR", c>> : c \in {f.code, DamagedCode}})
    [] f.form = "split" ->
         {<<"TIMEOUT", NoCode>>}
           \cup {<<"INVALID_CRC", c>> : c \in Damaged(f.code)}
           \cup (IF Mistyped(f, r) THEN {<<"READER_PROTOCOL_ERROR", f.code>>} ELSE {})
    [] f.form = "junk" -> {<<"READER_PROTOCOL_ERROR", NoCode>>, <<"TIMEOUT", NoCode>>}

(* The frames left on the line after a Read: a split frame leaves its tail *)
(* behind, and three bytes of junk are no frame: more of it may be left,   *)
(* or they swallowed the next header.                                      *)
RestOfLine ==
  LET rest == Tail(line)
  IN  CASE Head(line).form = "split" -> {[line EXCEPT ![1].form = "junk"]}
        [] Head(line).form = "junk" ->
             {line, rest}
               \cup (IF rest = <<>> THEN {} ELSE {[rest EXCEPT ![1].form = "junk"]})
        [] OTHER -> {rest}

(* ReadResponse returns a response whose code is zero, has bit 15 set or   *)
(* matches the request.                                                    *)
Matches(code) ==
  \/ code = NoCode
  \/ IsErrorResponse(code)
  \/ req.cmd = SELECT_TAG /\ code = LOOP_ON
  \/ code = Pass(req.cmd)

(* A response that does not match is skipped, and counted twice, until the *)
(* counter passes its limit: then it is returned as it is.                 *)
RespondUnlimited(st, code, r) ==  \* mutant: the counter has no limit
  IF Matches(code)
  THEN /\ pc' = "handle"
       /\ resp' = [st |-> st, code |-> code, req |-> r]
       /\ count' = 0
  ELSE /\ count' = count + 2
       /\ UNCHANGED <<pc, resp>>

Respond(st, code, r) ==
  IF Matches(code) \/ count + 2 > MaxCount
  THEN /\ pc' = "handle"
       /\ resp' = [st |-> st, code |-> code, req |-> r]
       /\ count' = 0
  ELSE /\ count' = count + 2
       /\ UNCHANGED <<pc, resp>>

ReadFrame ==
  /\ pc = "read"
  /\ line # <<>>
  /\ \E p \in Parse(Head(line), req) : Respond(p[1], p[2], Head(line).req)
  /\ line' \in RestOfLine
  /\ UNCHANGED <<api, ncalls, stopping, req, nreqs, ret, accepted, wire, readerVars>>

(* Nothing arrives within the time limit.  Unless answers may be late, the *)
(* reader then has nothing to send.                                        *)
ReadTimeout ==
  /\ pc = "read"
  /\ line = <<>>
  /\ "late" \in Faults \/ (wire = <<>> /\ mode.state # "inventory")
  /\ Respond("TIMEOUT", NoCode, NoRequest)
  /\ UNCHANGED <<api, ncalls, stopping, req, nreqs, ret, accepted, wire, line, readerVars>>

-----------------------------------------------------------------------------
(* What the API functions do with a response *)

ReturnOrRetry(st, data) ==  \* mutant: a command without an answer is sent again
  IF api.fn \in {"Send", "Get", "Write"} /\ st \in {"TIMEOUT", "INVALID_CRC"}
  THEN pc' = "write" /\ UNCHANGED ret
  ELSE pc' = "idle" /\ ret' = [fn |-> api.fn, st |-> st, data |-> data]

Return(st, data) ==
  /\ pc' = "idle"
  /\ ret' = [fn |-> api.fn, st |-> st, data |-> data]

Goto(l) == pc' = l /\ UNCHANGED ret

TableOnly(code) == GetStatus(code)  \* mutant: no exception for writes

(* INVENTORY_DONE is a success of the table, but also the code with which  *)
(* the firmware reports a failed write; only Write makes the difference.   *)
CommandStatus(code) ==
  IF api.fn = "Write" /\ code = INVENTORY_DONE THEN "FAILURE" ELSE GetStatus(code)

(* The tail shared by SendCommand, SendGetCommand and their variants:      *)
(* LOOP_OFF resends, another code goes through the status table, and only  *)
(* the PASS code of the command itself hands out data.                     *)
HandleSend ==
  /\ pc = "handle"
  /\ api.fn \in {"Send", "Get", "Write"}
  /\ \/ /\ resp.st # "SUCCESS"
        /\ Return(resp.st, FALSE)
        /\ UNCHANGED accepted
     \/ /\ resp.st = "SUCCESS"
        /\ resp.code = LOOP_OFF
        /\ Goto("write")
        /\ UNCHANGED accepted
     \/ /\ resp.st = "SUCCESS"
        /\ resp.code \notin {LOOP_OFF, Pass(api.cmd)}
        /\ Return(CommandStatus(resp.code), FALSE)
        /\ UNCHANGED accepted
     \/ /\ resp.st = "SUCCESS"
        /\ resp.code = Pass(api.cmd)
        /\ Return("SUCCESS", api.fn = "Get")
        /\ accepted' = accepted \cup
                        {[call |-> ncalls, cmd |-> api.cmd, id |-> resp.req.id]}
  /\ UNCHANGED <<api, ncalls, stopping, req, nreqs, count, resp, wire, line, readerVars>>

(* SelectTags: no data within the time limit and a tag both go to the      *)
(* callback; an error leaves the function without StopSelectLoop.          *)
HandleSelect ==
  /\ pc = "handle"
  /\ api.fn = "SelectTags"
  /\ ~stopping
  /\ \/ /\ resp.st = "TIMEOUT"
        /\ Goto("callback")
     \/ /\ resp.st \notin {"SUCCESS", "TIMEOUT"}
        /\ Return(resp.st, FALSE)
     \/ /\ resp.st = "SUCCESS"
        /\ resp.code = LOOP_ON
        /\ Goto("read")
     \/ /\ resp.st = "SUCCESS"
        /\ resp.code = Pass(SELECT_TAG)
        /\ Goto("callback")
     \/ /\ resp.st = "SUCCESS"
        /\ resp.code \notin {LOOP_ON, Pass(SELECT_TAG)}
        /\ Return("SUCCESS", FALSE)
  /\ UNCHANGED <<api, ncalls, stopping, req, nreqs, count, resp, accepted, wire, line,
                 readerVars>>

StopSelectLoop ==
  /\ stopping' = TRUE
  /\ Goto("write")

(* The callback of SelectTags returns: 0 stops, also when the tag object   *)
(* could not be created; 1 goes on unless this was a single select.        *)
Callback(again) ==
  /\ pc = "callback"
  /\ \/ ~again /\ StopSelectLoop
     \/ /\ again
        /\ resp.st = "SUCCESS" /\ ~api.inv /\ ~api.loop
        /\ Return("SUCCESS", FALSE)
        /\ UNCHANGED stopping
     \/ /\ again
        /\ resp.st = "TIMEOUT" \/ api.inv \/ api.loop
        /\ Goto("read")
        /\ UNCHANGED stopping
  /\ UNCHANGED <<api, ncalls, req, nreqs, count, resp, accepted, wire, line, readerVars>>

StopEndsAtOnce == TRUE                         \* mutant: one answer is enough
StopEndsOnLoopOff ==                           \* mutant: failed reads are repeated
  resp.st = "SUCCESS" /\ resp.code = LOOP_OFF

StopEnds == resp.st # "SUCCESS" \/ resp.code = LOOP_OFF

(* StopSelectLoop reads on until LOOP_OFF or a failure; SelectTags ignores *)
(* its result.                                                             *)
HandleStop ==
  /\ pc = "handle"
  /\ stopping
  /\ IF StopEnds THEN Return("SUCCESS", FALSE) ELSE Goto("read")
  /\ UNCHANGED <<api, ncalls, stopping, req, nreqs, count, resp, accepted, wire, line,
                 readerVars>>

OneTag == FALSE              \* mutant: an inventory returns its first tag
TagOrFailure ==              \* mutant: failed reads are repeated
  resp.st # "SUCCESS" \/ resp.code = Pass(SELECT_TAG)

AnotherTag == resp.st = "SUCCESS" /\ resp.code = Pass(SELECT_TAG)

(* GetTags and GetTagsWithMask collect tags until any other code; a failed *)
(* read fails the first and is the normal end of the second.               *)
HandleGetTags ==
  /\ pc = "handle"
  /\ api.fn \in {"GetTags", "GetTagsWithMask"}
  /\ IF AnotherTag
     THEN Goto("read")
     ELSE Return(IF api.fn = "GetTags" THEN resp.st ELSE "SUCCESS", FALSE)
  /\ UNCHANGED <<api, ncalls, stopping, req, nreqs, count, resp, accepted, wire, line,
                 readerVars>>

-----------------------------------------------------------------------------
(* The reader (external), as the host code expects it to behave *)

Idle == [state |-> "idle", req |-> NoRequest]

(* A frame may get lost, damaged or split on its way. *)
Emit(code, r) ==
  /\ Len(line) < LineMax
  /\ \/ "answer" \in Faults /\ UNCHANGED line
     \/ \E form \in {"ok"} \cup (IF "crc" \in Faults THEN {"badcrc"} ELSE {})
                           \cup (IF "header" \in Faults THEN {"junk"} ELSE {})
                           \cup (IF "split" \in Faults THEN {"split"} ELSE {}) :
          line' = Append(line, [code |-> code, req |-> r, form |-> form])

(* In loop mode any request only ends the loop; the request is dropped.    *)
ReaderEndLoop ==
  /\ wire # <<>>
  /\ mode.state = "loop"
  /\ wire' = Tail(wire)
  /\ mode' = Idle
  /\ Emit(LOOP_OFF, Head(wire))
  /\ UNCHANGED <<hostVars, executed, looped>>

ReaderExecute ==
  /\ wire # <<>>
  /\ mode.state = "idle"
  /\ Head(wire).cmd \in Cmds
  /\ wire' = Tail(wire)
  /\ \/ /\ executed' = executed \cup {Head(wire)}
        /\ Emit(Pass(Head(wire).cmd), Head(wire))
     \/ /\ \/ Emit(Fail(Head(wire).cmd), Head(wire))
           \/ Head(wire).cmd \in WriteCmds /\ Emit(INVENTORY_DONE, Head(wire))
        /\ UNCHANGED executed
  /\ UNCHANGED <<hostVars, mode, looped>>

ReaderSelect ==
  /\ wire # <<>>
  /\ mode.state = "idle"
  /\ Head(wire).cmd = SELECT_TAG
  /\ wire' = Tail(wire)
  /\ LET r == Head(wire)
     IN  \/ /\ r.loop
            /\ mode' = [state |-> "loop", req |-> r]
            /\ Emit(LOOP_ON, r)
         \/ /\ ~r.loop /\ r.inv
            /\ mode' = [state |-> "inventory", req |-> r]
            /\ UNCHANGED line
         \/ /\ ~r.loop /\ ~r.inv
            /\ Emit(Pass(SELECT_TAG), r) \/ Emit(Fail(SELECT_TAG), r)
            /\ UNCHANGED mode
  /\ looped' = (looped \/ Head(wire).loop)
  /\ UNCHANGED <<hostVars, executed>>

(* A tag is found in loop or inventory mode. *)
ReaderFind ==
  /\ mode.state \in {"loop", "inventory"}
  /\ Emit(Pass(SELECT_TAG), mode.req)
  /\ UNCHANGED <<hostVars, wire, readerVars>>

ReaderInventoryDone ==
  /\ mode.state = "inventory"
  /\ Emit(INVENTORY_DONE, mode.req)
  /\ mode' = Idle
  /\ UNCHANGED <<hostVars, wire, executed, looped>>

-----------------------------------------------------------------------------
Init ==
  /\ pc = "idle"
  /\ api \in Calls
  /\ ncalls = 0
  /\ stopping = FALSE
  /\ req = NoRequest
  /\ nreqs = 0
  /\ count = 0
  /\ resp = NoResponse
  /\ ret = [fn |-> "Send", st |-> "FAILURE", data |-> FALSE]
  /\ wire = <<>>
  /\ line = <<>>
  /\ mode = Idle
  /\ executed = {}
  /\ looped = FALSE
  /\ accepted = {}

Read   == ReadFrame \/ ReadTimeout
Handle == HandleSend \/ HandleSelect \/ HandleStop \/ HandleGetTags
Take   == ReaderEndLoop \/ ReaderExecute \/ ReaderSelect

Next ==
  \/ \E c \in Calls : Call(c)
  \/ WriteRequest
  \/ Read
  \/ Handle
  \/ \E again \in BOOLEAN : Callback(again)
  \/ Take
  \/ ReaderFind
  \/ ReaderInventoryDone

Spec == Init /\ [][Next]_vars

(* The host thread runs and its Reads end, by an answer or by the time     *)
(* limit.  The reader looks at its input again and again, also while it    *)
(* reports tags, and an inventory comes to its end.                        *)
Fairness ==
  /\ WF_vars(WriteRequest)
  /\ WF_vars(Read)
  /\ WF_vars(Handle)
  /\ SF_vars(Take)
  /\ SF_vars(ReaderInventoryDone)

FairSpec == Spec /\ Fairness

-----------------------------------------------------------------------------
(* Properties *)

(* Every variable has its type. *)
TypeOK ==
  /\ pc \in Locations
  /\ api \in ApiCall
  /\ ncalls \in Nat
  /\ stopping \in BOOLEAN
  /\ req \in Request
  /\ nreqs \in Nat
  /\ count \in 0..MaxCount
  /\ resp \in Response
  /\ ret \in [fn : ApiFns, st : Statuses, data : BOOLEAN]
  /\ wire \in Seq(Request)
  /\ line \in Seq(Frame)
  /\ mode \in [state : {"idle", "loop", "inventory"}, req : Request]
  /\ executed \subseteq Request
  /\ looped \in BOOLEAN
  /\ accepted \subseteq [call : Nat, cmd : Cmds, id : Nat]

(* STPv3.c:853: the data a call hands out was sent by the reader for a     *)
(* request of the same command that it really carried out.                 *)
AnswerWasExecuted ==
  \A p \in accepted : \E r \in executed : r.id = p.id /\ r.cmd = p.cmd

(* STPv3.c:853: and this request was one of the call itself, not of an     *)
(* earlier call that left an answer behind.                                *)
OwnData ==
  \A p \in accepted : \E r \in executed : r.id = p.id /\ r.call = p.call

(* STPv3.c:842-857: unless a select loop was run, a command call is        *)
(* carried out at most once, however late, damaged or lost its answer:     *)
(* only LOOP_OFF makes the host resend.                                    *)
AtMostOnce ==
  ~looped => \A r, s \in executed : r.call = s.call => r = s

(* STPv3.c:1707, 1613: with no call in progress nothing is left over: the  *)
(* reader is out of loop mode, has no request to look at and no frame is   *)
(* on the line for the next call to trip over.                             *)
QuietWhenIdle ==
  pc = "idle" => /\ mode = Idle
                 /\ wire = <<>>
                 /\ line = <<>>

(* STPv3.c:1690: a tag handed to the callback or put on the tag list was   *)
(* found for this call, not for an earlier select loop or inventory.       *)
OwnTags ==
  (pc = "handle" /\ api.cmd = SELECT_TAG /\ resp.st = "SUCCESS"
     /\ resp.code = Pass(SELECT_TAG))
  => resp.req.call = ncalls

(* STPv3.c:853: a call resends only when the reader came out of loop mode, *)
(* so a call writes one request, one more for StopSelectLoop, and one for  *)
(* each loop that some SelectTags call started.                            *)
ResendsBounded == nreqs <= 3 * ncalls

(* SkyeTekAPI.h: a Get function that returns success has allocated the     *)
(* data it promises.                                                       *)
SuccessHasData ==
  (pc = "idle" /\ ret.fn = "Get" /\ ret.st = "SUCCESS") => ret.data

(* STPv3.c:813-1931: a call other than SelectTags always returns, whatever *)
(* became of its answer.                                                   *)
CallReturns ==
  (pc # "idle" /\ api.fn # "SelectTags") ~> (pc = "idle")

(* STPv3.c:1613: once the callback has returned 0, SelectTags returns.     *)
StopReturns == stopping ~> (pc = "idle")
=============================================================================
