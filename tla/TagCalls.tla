------------------------------ MODULE TagCalls ------------------------------
(***************************************************************************)
(* An application that calls the API, one call after the other: SkyeTekAPI,*)
(* the reader and tag modules (Dispatch), and the protocol, which is the   *)
(* engine of STPv2 for a reader of version 2 and, for one of version 3,    *)
(* an exchange with the outcomes the engine of STPv3 allows.               *)
(*                                                                         *)
(* A call of version 3 also says what the card may answer (replies).       *)
(***************************************************************************)
EXTENDS Dispatch, TagGrammar, STPv2

CONSTANTS
  Jobs,     \* the calls of the application, by the version of the protocol
  MaxCalls  \* bound: how many it makes, by the version

(* The numbers among the arguments of a call; all are unsigned or members  *)
(* of an enumeration in SkyeTekAPI.h, so that the int64 they are assigned  *)
(* to holds them.                                                          *)
NumbersOf(c) ==
  {c.number, c.version, c.access, c.frozen, c.createDelete, c.directory, c.masterChange,
   c.numKeys, c.type, c.comm, c.read, c.write, c.readWrite, c.change, c.fileSize,
   c.lowerLimit, c.upperLimit, c.value, c.limited, c.recordSize, c.maxRecords, c.start,
   c.amount, c.hmac, c.cipher, c.block, c.le, c.transaction}

ASSUME TagCallsAssumption ==
  /\ DOMAIN Jobs = {2, 3} /\ DOMAIN MaxCalls = {2, 3}
  /\ \A v \in {2, 3} : MaxCalls[v] \in Nat /\ Jobs[v] # {}
  /\ \A v \in {2, 3} : \A c \in Jobs[v] :
       /\ c.fn \in TagApi \cup ReaderApi /\ {c.inv, c.loop} \subseteq BOOLEAN
       /\ NumbersOf(c) \subseteq Nat
       /\ v = 3 => c.fn \notin TagListCalls  \* those are in STPv3

VARIABLES
  version,    \* of the protocol
  stage,      \* where the call is
  calls,      \* how many calls were made
  job,        \* the call in progress, or the last one
  sent,       \* the command the protocol was given
  carriedOut, \* history: the card carried the command out
  answer,     \* what the protocol returned
  status,     \* what the call returned
  out,        \* and the values it handed out
  freedTwice  \* history: blocks that were free were freed

callvars == <<version, stage, calls, job, sent, carriedOut, answer, status, out, freedTwice>>
vars     == <<callvars, v2vars>>

NoCommand == [cmd |-> "none", octets |-> <<>>, size |-> 0, address |-> 0, names |-> FALSE,
              session |-> FALSE]

(* has: the answer has data.  reply: what the card said with them. *)
NoReply   == [shape |-> "none", v |-> <<>>]
Answer(st, has, reply) == [st |-> st, has |-> has, reply |-> reply]

-----------------------------------------------------------------------------
(* The call, down to the protocol *)

Begin(c) ==
  /\ stage = "idle"
  /\ calls < MaxCalls[version]
  /\ c \in Jobs[version]
  /\ calls' = calls + 1
  /\ job' = c
  /\ carriedOut' = FALSE
  /\ answer' = Answer("none", FALSE, NoReply)
  /\ out' = <<>>
  /\ UNCHANGED <<version, freedTwice>>

Function(c) == FunctionOf(c, version)
Supported(c) == Function(c).cmd # "NOT_SUPPORTED"
Runs(c)      == c.handles /\ Function(c).valid /\ Supported(c)

(* The call ends before the protocol is called. *)
Refuse(c) ==
  /\ Begin(c)
  /\ \/ ~(c.handles /\ Function(c).valid) /\ status' = "INVALID_PARAMETER"
     \/ Runs(c) /\ Function(c).buffer > 0 /\ status' = "OUT_OF_MEMORY"
     \/ c.handles /\ ~Supported(c) /\ status' = "NOT_SUPPORTED"
  /\ UNCHANGED <<stage, sent, v2vars>>

(* The data of the command: the argument itself, or the buffer that was    *)
(* filled.                                                                 *)
Prepared(c) ==
  LET f == Function(c)
  IN  CASE f.buffer = 0   -> [size |-> Len(c.data), octets |-> c.data]
        [] f.raw # <<>>   -> [size |-> Len(f.raw), octets |-> f.raw]
        [] OTHER          -> Encode(f.writes, f.buffer)

Prepare(c) ==
  /\ Begin(c)
  /\ Runs(c)
  /\ stage' = "protocol"
  /\ sent' = [cmd |-> Function(c).cmd, octets |-> Prepared(c).octets,
              size |-> Prepared(c).size, address |-> AddressOf(c, version),
              names |-> FALSE, session |-> FALSE]
  /\ UNCHANGED <<status, v2vars>>

Answered(st, has, reply) ==
  /\ stage' = "answered"
  /\ answer' = Answer(st, has, reply)

-----------------------------------------------------------------------------
(* Version 3.  The tag was selected: its ID is known and it has a session. *)

Wrapper == STPV3[sent.cmd]

Filled ==
  [sent EXCEPT
     !.octets = IF Wrapper.send.data THEN @ ELSE <<>>,
     !.address = IF Wrapper.send.address THEN @ % 65536 ELSE 0,
     !.names = Wrapper.names,
     !.session = Wrapper.session]

(* The request goes out with the parts the Send function fills. *)
Exchange ==
  /\ stage = "protocol" /\ version = 3
  /\ IF ~Accepts(Wrapper.send, sent.size) \/ (Wrapper.send.data /\ sent.octets = <<>>)
     THEN /\ Answered("INVALID_PARAMETER", FALSE, NoReply)
          /\ UNCHANGED sent
     ELSE /\ stage' = "card"
          /\ sent' = Filled
          /\ UNCHANGED answer
  /\ UNCHANGED <<version, calls, job, carriedOut, status, out, freedTwice, v2vars>>

(* The reader and the card (external).  The host may lose the answer; a    *)
(* late answer of another command that has the same code makes a success   *)
(* without data.  Data of no octets are an error of the Send function.     *)
CardAnswers ==
  /\ stage = "card"
  /\ \/ /\ carriedOut' = TRUE
        /\ \/ Answered("TIMEOUT", FALSE, NoReply)
           \/ ~Wrapper.send.answer /\ Answered("SUCCESS", FALSE, NoReply)
           \/ /\ Wrapper.send.answer
              /\ \E r \in job.replies \cup {NoReply} :
                   IF r # NoReply /\ AnswerOctets(r) = <<>>
                   THEN Answered("INVALID_PARAMETER", TRUE, r)
                   ELSE Answered("SUCCESS", r # NoReply, r)
     \/ /\ UNCHANGED carriedOut
        /\ \E st \in {"FAILURE", "TIMEOUT"} : Answered(st, FALSE, NoReply)
  /\ UNCHANGED <<version, calls, job, sent, status, out, freedTwice, v2vars>>

-----------------------------------------------------------------------------
(* Version 2 *)

(* Only SelectTags can ask for a loop. *)
V2Select(c, fn, inv, loop) ==
  [fn |-> fn, cmd |-> SELECT_TAG, inv |-> inv, loop |-> loop, auto |-> c.tag = 0]
V2Send(fn, cmd) == [fn |-> fn, cmd |-> cmd, inv |-> FALSE, loop |-> FALSE, auto |-> FALSE]

V2Commands == {"SelectTag", "SelectTags", "GetTags", "ReadTagData", "WriteTagData",
               "GetSystemParameter", "SetSystemParameter"}

V2Function(c) ==
  CASE sent.cmd = "SelectTag"   -> V2Select(c, "SelectTag", FALSE, FALSE)
    [] sent.cmd = "SelectTags"  -> V2Select(c, "SelectTags", c.inv, c.loop)
    [] sent.cmd = "GetTags"     -> V2Select(c, "GetTags", TRUE, FALSE)
    [] sent.cmd = "ReadTagData" -> V2Send("Get", READ_TAG)
    [] sent.cmd = "WriteTagData" -> V2Send("Set", WRITE_TAG)
    [] sent.cmd = "GetSystemParameter" -> V2Send("Get", READ_SYSTEM)
    [] sent.cmd = "SetSystemParameter" -> V2Send("Set", WRITE_SYSTEM)

(* At most 1024 octets. *)
V2Refuses ==
  CASE sent.cmd \in V2Unsupported -> "NOT_SUPPORTED"
    [] sent.cmd \in {"WriteTagData", "SetSystemParameter"}
         /\ sent.size \notin 1..1024 -> "INVALID_PARAMETER"
    [] OTHER -> "no"

V2Start ==
  /\ stage = "protocol" /\ version = 2
  /\ IF V2Refuses # "no"
     THEN Answered(V2Refuses, FALSE, NoReply) /\ UNCHANGED v2vars
     ELSE stage' = "v2" /\ V2Call(V2Function(job)) /\ UNCHANGED answer
  /\ UNCHANGED <<version, calls, job, sent, carriedOut, status, out, freedTwice>>

V2Work == stage = "v2" /\ V2Step /\ UNCHANGED callvars

V2Done ==
  /\ stage = "v2" /\ pc = "idle"
  /\ Answered(ret, FALSE, NoReply)
  /\ UNCHANGED <<version, calls, job, sent, carriedOut, status, out, freedTwice, v2vars>>

-----------------------------------------------------------------------------
(* The call, back to the application *)

HandOut(f, octets) ==
  CASE f.ids = "octets"   -> [st |-> "SUCCESS", out |-> [ids |-> ApplicationIDs(octets)]]
    [] f.ids = "integers" -> [st |-> "SUCCESS", out |-> [ids |-> FileIDs(octets)]]
    [] f.ids = "none" /\ f.reads = <<>> -> [st |-> "SUCCESS", out |-> [data |-> octets]]
    [] OTHER ->
         LET d == Decode(f.mode, f.reads, octets)
         IN  [st  |-> IF f.checked /\ st_asn1_finalize(d.ctx) <= 0 THEN "FAILURE" ELSE d.st,
              out |-> d.out]

(* What the function makes of the answer. *)
Result ==
  LET f == Function(job)
  IN  CASE f.cmd = "ScanEAS" ->
             [st |-> ScanEASResult(answer.st).st,
              out |-> [state |-> <<ScanEASResult(answer.st).state>>]]
        [] f.cmd # "ScanEAS" /\ (answer.st # "SUCCESS" \/ ~f.answered \/ version = 2) ->
             [st |-> answer.st, out |-> <<>>]
        [] OTHER ->
             IF answer.has /\ Len(AnswerOctets(answer.reply)) \in f.sizes
             THEN HandOut(f, AnswerOctets(answer.reply))
             ELSE [st |-> f.empty, out |-> <<>>]

(* SkyeTekReader_GetTags frees the lists it got; GetTags of version 2 has  *)
(* freed them already when an unexpected code ended the inventory.         *)
Return_ ==
  /\ stage = "answered"
  /\ stage' = "idle"
  /\ status' = Result.st
  /\ out' = Result.out
  /\ freedTwice' = (freedTwice \/ (sent.cmd = "GetTags" /\ ListsFreed))
  /\ UNCHANGED <<version, calls, job, sent, carriedOut, answer, v2vars>>

-----------------------------------------------------------------------------
Init ==
  /\ version \in {2, 3}
  /\ V2Init /\ (version = 3 => faulty = {})
  /\ stage = "idle"
  /\ calls = 0
  /\ job \in {CHOOSE c \in Jobs[version] : TRUE}
  /\ sent = NoCommand
  /\ carriedOut = FALSE
  /\ answer = Answer("none", FALSE, NoReply)
  /\ status = "none"
  /\ out = <<>>
  /\ freedTwice = FALSE

Next ==
  \/ \E c \in Jobs[version] : Refuse(c) \/ Prepare(c)
  \/ Exchange
  \/ CardAnswers
  \/ V2Start
  \/ V2Work
  \/ V2Done
  \/ Return_

(* For version 2 (STPv3 has the fairness of version 3): the code runs on,  *)
(* a time limit ends every read, the reader takes what it is sent, and it  *)
(* does not find tags for ever.                                            *)
Engine(A) == stage = "v2" /\ A /\ UNCHANGED callvars

Fairness ==
  /\ WF_vars(version = 2 /\ (V2Start \/ V2Done \/ Return_))
  /\ WF_vars(Engine(WriteRequest \/ V2Read \/ V2Handle))
  /\ SF_vars(Engine(V2Take))
  /\ SF_vars(Engine(ReaderInventoryDone))

Spec == Init /\ [][Next]_vars /\ Fairness

-----------------------------------------------------------------------------
(* Properties *)

Outcomes == Statuses \cup
  {"none", "INVALID_PARAMETER", "OUT_OF_MEMORY", "NOT_SUPPORTED", "INVALID_FILE_TYPE",
   "NO_APPLICATION_PRESENT"}

(* The type invariant. *)
TypeOK ==
  /\ version \in {2, 3}
  /\ stage \in {"idle", "protocol", "card", "v2", "answered"}
  /\ calls \in 0..MaxCalls[version]
  /\ job \in Jobs[version]
  /\ sent.cmd \in {"none"} \cup (IF version = 2 THEN V2Commands \cup V2Unsupported
                                 ELSE DOMAIN STPV3)
  /\ carriedOut \in BOOLEAN /\ freedTwice \in BOOLEAN
  /\ answer.st \in Outcomes /\ answer.has \in BOOLEAN
  /\ status \in Outcomes
  /\ V2TypeOK

(* The data of the command are in the grammar for the call. *)
InGrammar ==
  \/ job.fn \in {"InitializeSecureMemoryTag", "SetupSecureMemoryTag", "InterfaceSend",
                 "TransportSend", "ComputePayment"}
  \/ job.tag = MIFARE_DESFIRE /\ Function(job).buffer > 0

(* A command that is carried out says what the caller asked for: the data  *)
(* parse in the grammar to the arguments of the call, or are the argument  *)
(* itself; nothing is cut off at the end of the buffer; the address is the *)
(* caller's; and the tag that was selected takes it for its own, because   *)
(* the command names it or belongs to its session (DesfireTag.c, asn1.c,   *)
(* GenericTag.c, the Send functions and the table of STPv3.c).             *)
CardUnderstands ==
  carriedOut =>
    /\ IF InGrammar THEN Elements[sent.octets] = Expects(job)
       ELSE sent.octets = (IF job.fn # "AuthenticateTag" THEN job.data
                           ELSE IF job.key = <<>> THEN <<job.version, job.number>>
                           ELSE <<job.version>> \o job.key)
    /\ Wrapper.send.address => sent.address = AddressOf(job, version)
    /\ job.fn \in TagApi \ {"ScanEAS"} => sent.names \/ sent.session

(* What the card said, in the type the API has for it. *)
UnsignedInts == {"fileSize", "lowerLimit", "upperLimit", "value", "recordSize",
                 "maxRecords", "numRecords", "numKeys"}
AsTyped(f, v) == IF f \in UnsignedInts THEN HighLow(v[1]) ELSE v

(* A call whose answer reached the protocol hands out what the card said,  *)
(* a number as the 32 bits of an unsigned int where the API has one;       *)
(* an answer of another kind (the settings of another kind of file, of the *)
(* card's master application) is never a success (the reading halves of    *)
(* DesfireTag.c and GenericTag.c).                                         *)
CallerGetsReply ==
  stage = "idle" /\ answer.has /\ answer.st = "SUCCESS" /\ answer.reply.shape # "other" =>
    IF Fits(job.fn, answer.reply.shape)
    THEN /\ status = "SUCCESS"
         /\ \A f \in DOMAIN out : out[f] = AsTyped(f, answer.reply.v[f])
         /\ job.fn # "GetCommonFileSettings" =>
              {f \in DOMAIN answer.reply.v : answer.reply.v[f] # <<>>} \subseteq DOMAIN out
    ELSE status # "SUCCESS"

(* A command of version 2 is carried out once, unless a select loop was    *)
(* started: no failure of the line makes the host repeat one (the Send     *)
(* functions, STPv2.c:474-1159).                                           *)
V2AtMostOnce ==
  ~looped => \A a, b \in executed : a.call = b.call => a = b

(* On a clean line, as long as no select loop was stopped from the         *)
(* callback, the response a function handles is one to its own request,    *)
(* with the tag type it asked for (ReadResponse, STPv2.c:422).             *)
Undisturbed == faulty = {} /\ ~stopped
V2OwnAnswers ==
  Undisturbed /\ pc = "handle" /\ resp.st = "SUCCESS" =>
    resp.req.call = ncalls /\ resp.whole

(* And a command that succeeds was carried out. *)
V2SuccessIsDone ==
  Undisturbed /\ stage = "idle" /\ version = 2 /\ status = "SUCCESS"
    /\ sent.cmd \in {"ReadTagData", "WriteTagData"} =>
    \E r \in executed : r.call = ncalls

(* GetTags does not hand out lists it has freed, unless a stopped loop or  *)
(* the line left an answer behind (STPv2.c:1373, SkyeTekReader.c:126).     *)
FreedOnce == Undisturbed => ~freedTwice

(* Every call of version 2 returns, a select loop once the callback has    *)
(* asked it to stop.  Only GetTags may collect for ever, the tags of a     *)
(* loop that a damaged frame ended on the host's side alone (the functions *)
(* of STPv2.c; StopSelectLoop, 1163; GetTags, 1295).                       *)
InCall == version = 2 /\ stage # "idle"
V2CallsReturn ==
  /\ (InCall /\ job.fn \notin {"SelectTags", "GetTags"}) ~> ~InCall
  /\ (InCall /\ job.fn = "GetTags") ~> (~InCall \/ looped)
  /\ (stage = "v2" /\ stopping) ~> ~InCall
=============================================================================
