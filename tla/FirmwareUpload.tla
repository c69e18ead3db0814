--------------------------- MODULE FirmwareUpload ---------------------------
(***************************************************************************)
(* The firmware upload (src/SkyeTekAPI/Protocol/STPv3.c, sendBLCommand and *)
(* STPV3_UploadFirmware): the host sends the bootloader one command after  *)
(* the other, each of them again and again until an answer with its code   *)
(* comes back, and calls the application after each.                       *)
(*                                                                         *)
(* The commands of an upload are numbered in the order of the program:     *)
(* 1 QUERY_BOOTLDR_VER, 2 SELECT_ENCRYPTION_SCHEME, 3 SETUP_BOOTLOADER,    *)
(* then a WRITE_DATA per block, a PROGRAM_DEFAULTS per parameter, and      *)
(* UPDATE_COMPLETE_RESET.  An answer carries the code, not the number.     *)
(***************************************************************************)
EXTENDS Naturals, Sequences

CONSTANTS
  Blocks,     \* how many data blocks the file holds
  Defaults,   \* how many default parameters
  MaxTries,   \* repetitions of a command (totalCount, 4 in the code)
  MaxReads,   \* reads of a header after the first (count, 5 in the code)
  MaxUploads, \* bound: uploads of a behaviour
  MaxJunk,    \* bound: how often junk of one answer is taken for a header
  MaxFaults,  \* bound: faults of a behaviour
  Faults      \* what may happen to commands, answers and the file

(* Lose or damage a command or an answer; damage the length of an answer;  *)
(* deliver it in two parts or after the time limit; find the file too      *)
(* short.                                                                  *)
FaultKinds == {"request", "answer", "length", "split", "late", "file"}

ASSUME FirmwareUploadAssumption ==
  /\ {Blocks, Defaults, MaxTries, MaxReads, MaxUploads, MaxJunk, MaxFaults} \subseteq Nat
  /\ MaxJunk > 0
  /\ Faults \subseteq FaultKinds

VARIABLES
  pc,       \* where the host is
  upload,   \* how many uploads were begun; the number of the current one
  only,     \* its argument defaultsOnly
  pos,      \* the command in progress
  tries,    \* totalCount of sendBLCommand
  reads,    \* count of sendBLCommand
  status,   \* what the last upload returned
  held,     \* the code in respString[2], which the next answer overwrites
  sends,    \* history: how often the command in progress was written
  wire,     \* commands on their way to the reader
  line,     \* answers on their way to the host
  done,     \* history: the commands the reader carried out
  last,     \* history: the last of them
  inStep,   \* history: no answer came late, in two parts or with a wrong length
  faults    \* how many faults happened

hostVars == <<pc, upload, only, pos, tries, reads, status, held, sends>>
vars     == <<hostVars, wire, line, done, last, inStep, faults>>

Locations == {"idle", "load", "send", "header", "callback"}
Statuses  == {"NONE", "SUCCESS", "CANCELED", "BAD_FILE", "READER_ERROR"}

-----------------------------------------------------------------------------
(* The commands *)

Setup     == 3
LastBlock == Setup + Blocks
Reset     == LastBlock + Defaults + 1
Positions == 1..Reset
IsBlock(p)   == p \in Setup + 1 .. LastBlock
IsDefault(p) == p \in LastBlock + 1 .. Reset - 1

CommandCode(p) ==
  CASE p = 1        -> "QUERY_BOOTLDR_VER"
    [] p = 2        -> "SELECT_ENCRYPTION_SCHEME"
    [] p = Setup    -> "SETUP_BOOTLOADER"
    [] IsBlock(p)   -> "WRITE_DATA"
    [] IsDefault(p) -> "PROGRAM_DEFAULTS"
    [] OTHER        -> "UPDATE_COMPLETE_RESET"

Codes == {"QUERY_BOOTLDR_VER", "SELECT_ENCRYPTION_SCHEME", "SETUP_BOOTLOADER",
          "WRITE_DATA", "PROGRAM_DEFAULTS", "UPDATE_COMPLETE_RESET", "NACK"}

(* Without data to write the bootloader is not set up. *)
WritesData == ~only /\ Blocks > 0
NextCommand(p) == IF p = 2 /\ ~WritesData THEN LastBlock + 1 ELSE p + 1

(* The commands of the current upload. *)
InProgram(p) == WritesData \/ p \notin Setup .. LastBlock

(* The data of these commands are read from the file first. *)
NeedsFile(p) == p = 2 \/ IsBlock(p) \/ IsDefault(p)

(* An answer may be damaged behind its length, or interrupted for longer   *)
(* than the time limit; "junk" are octets that do not begin with a right   *)
(* length: the rest of an answer, or one with a damaged length; "left" is  *)
(* how often they may yet be taken for a header.                           *)
Forms   == {"ok", "badcrc", "split", "junk"}
Command == [upload : Nat, pos : Positions, whole : BOOLEAN]
Answer  == [code : Codes, form : Forms, left : 0..MaxJunk]
Junk(n) == [code |-> "NACK", form |-> "junk", left |-> n]

-----------------------------------------------------------------------------
(* STPV3_UploadFirmware *)

Return(st) == pc' = "idle" /\ status' = st

(* The header of the file is read, with four calls of the callback.  The   *)
(* buffer for answers is not initialised.                                  *)
Begin(o) ==
  /\ pc = "idle"
  /\ upload < MaxUploads
  /\ upload' = upload + 1
  /\ only' = o
  /\ pos' = 1
  /\ held' = "unknown"
  /\ sends' = 0
  /\ \/ pc' = "load" /\ status' = "NONE"
     \/ Return("CANCELED")
     \/ "file" \in Faults /\ Return("BAD_FILE")
  /\ UNCHANGED <<tries, reads, wire, line, done, last, inStep, faults>>

Load ==
  /\ pc = "load"
  /\ \/ pc' = "send" /\ UNCHANGED status
     \/ "file" \in Faults /\ NeedsFile(pos) /\ Return("BAD_FILE")
  /\ UNCHANGED <<upload, only, pos, tries, reads, held, sends, wire, line, done, last,
                 inStep, faults>>

(* sendBLCommand returns; its counters are its own.                        *)
Leave == tries' = 0 /\ reads' = 0

(* A command was answered, so it seems.  The result of the last command    *)
(* and of the last call of the callback are ignored.                       *)
Accepted ==
  /\ IF pos = Reset THEN Return("SUCCESS") ELSE pc' = "callback" /\ UNCHANGED status
  /\ Leave

FailedIgnored == Return("SUCCESS") /\ Leave  \* mutant: no command's result is looked at

Failed == Return(IF pos = Reset THEN "SUCCESS" ELSE "READER_ERROR") /\ Leave

BlocksAgain(p) ==  \* mutant: the file is rewound after the blocks
  IF p = LastBlock /\ pos > Setup THEN Setup + 1 ELSE NextCommand(p)
Following(p) == NextCommand(p)

Callback(again) ==
  /\ pc = "callback"
  /\ IF again
     THEN pc' = "load" /\ pos' = Following(pos) /\ sends' = 0 /\ UNCHANGED status
     ELSE Return("CANCELED") /\ UNCHANGED <<pos, sends>>
  /\ UNCHANGED <<upload, only, tries, reads, held, wire, line, done, last, inStep, faults>>

-----------------------------------------------------------------------------
(* sendBLCommand *)

Fault(kind) ==
  /\ kind \in Faults
  /\ faults < MaxFaults
  /\ faults' = faults + 1

Written(whole) == [upload |-> upload, pos |-> pos, whole |-> whole]

SendCommand ==
  /\ pc = "send"
  /\ \/ wire' = Append(wire, Written(TRUE)) /\ UNCHANGED faults
     \/ Fault("request") /\ UNCHANGED wire
     \/ Fault("request") /\ wire' = Append(wire, Written(FALSE))
  /\ sends' = sends + 1
  /\ reads' = 0
  /\ pc' = "header"
  /\ UNCHANGED <<upload, only, pos, tries, status, held, line, done, last, inStep>>

(* The command is repeated as a whole. *)
RetryUnlimited ==  \* mutant: the limit is not looked at
  /\ pc' = "send"
  /\ tries' = tries + 1
  /\ UNCHANGED <<reads, status>>

Retry ==
  IF tries + 1 > MaxTries
  THEN Failed
  ELSE pc' = "send" /\ tries' = tries + 1 /\ UNCHANGED <<reads, status>>

(* A Read of the header gave n bytes instead of two: it is repeated, in    *)
(* the end n is returned, and anything but zero is taken for success.      *)
ReadAgain(n) ==  \* mutant: reads of the header are not counted
  UNCHANGED <<pc, reads, tries, status>>

ShortHeader(n) ==
  IF reads + 1 <= MaxReads
  THEN reads' = reads + 1 /\ UNCHANGED <<pc, status, tries>>
  ELSE IF n = 0 THEN Failed ELSE Accepted

ReadTimeout ==
  /\ pc = "header"
  /\ line = <<>>
  /\ \/ wire = <<>> /\ UNCHANGED <<faults, inStep>>
     \/ wire # <<>> /\ Fault("late") /\ inStep' = FALSE
  /\ ShortHeader(0)
  /\ UNCHANGED <<upload, only, pos, held, sends, wire, line, done, last>>

AnyCode(code) == TRUE  \* mutant: only the CRC is checked
CodeFits(code) == code = CommandCode(pos)

(* The answer is read with its length, its CRC verified, and its code.     *)
TakeWhole ==
  LET f == Head(line)
  IN  /\ f.form \in {"ok", "badcrc"}
      /\ IF f.form = "ok" /\ CodeFits(f.code)
         THEN Accepted
         ELSE Retry
      /\ held' = IF f.form = "ok" THEN f.code ELSE "unknown"
      /\ line' = Tail(line)

(* Octets of the answer's beginning are read, and the rest becomes junk.   *)
Cut(l) ==
  IF l = <<>> THEN l
  ELSE LET n == IF Head(l).form = "junk" THEN Head(l).left - 1 ELSE MaxJunk
       IN  IF n > 0 THEN <<Junk(n)>> \o Tail(l) ELSE Tail(l)

TakePart ==
  /\ Head(line).form = "split"
  /\ \/ Retry /\ held' \in {held, Head(line).code}
     \/ ShortHeader(1) /\ UNCHANGED held
  /\ line' = Cut(line)

(* A wrong length ends the answer too early or swallows octets of those    *)
(* that follow; the CRC does not fit.                                      *)
Misread ==
  /\ Retry
  /\ held' = "unknown"
  /\ \E i \in 1 .. Len(line) + 1 :
       LET left == SubSeq(line, i, Len(line))
       IN  line' = Cut(left) \/ (i > 1 /\ line' = left)

(* The length is zero, in both octets: the CRC of nothing is zero too and  *)
(* fits, and what is compared is the code of an earlier answer.            *)
MisreadEmpty ==
  /\ \/ held \in {CommandCode(pos), "unknown"} /\ Accepted
     \/ held # CommandCode(pos) /\ Retry
  /\ UNCHANGED held
  /\ line' \in {Cut(line), Tail(line)}

ReadAnswer ==
  /\ pc = "header"
  /\ line # <<>>
  /\ \/ TakeWhole
     \/ TakePart
     \/ Head(line).form = "junk" /\ (Misread \/ MisreadEmpty)
     \/ /\ Head(line).form = "junk" /\ Len(line) = 1
        /\ ShortHeader(1)
        /\ line' = <<>>
        /\ UNCHANGED held
  /\ UNCHANGED <<upload, only, pos, sends, wire, done, last, inStep, faults>>

-----------------------------------------------------------------------------
(* The bootloader (external): it carries out a command that arrives whole  *)
(* and answers with its code, and any other with NACK.                     *)

Emit(code) ==
  LET Comes(f) == line' = Append(line, f)
      As(form) == [code |-> code, form |-> form, left |-> 0]
  IN  \/ Comes(As("ok")) /\ UNCHANGED <<faults, inStep>>
      \/ Fault("answer") /\ (UNCHANGED line \/ Comes(As("badcrc"))) /\ UNCHANGED inStep
      \/ Fault("split") /\ Comes(As("split")) /\ inStep' = FALSE
      \/ Fault("length") /\ Comes(Junk(MaxJunk)) /\ inStep' = FALSE

Execute ==
  /\ wire # <<>>
  /\ Head(wire).whole
  /\ LET c == Head(wire)
     IN  /\ done' = done \cup {<<c.upload, c.pos>>}
         /\ last' = <<c.upload, c.pos>>
         /\ Emit(CommandCode(c.pos))
  /\ wire' = Tail(wire)
  /\ UNCHANGED hostVars

Reject ==
  /\ wire # <<>>
  /\ ~Head(wire).whole
  /\ Emit("NACK")
  /\ wire' = Tail(wire)
  /\ UNCHANGED <<hostVars, done, last>>

-----------------------------------------------------------------------------
Init ==
  /\ pc = "idle"
  /\ upload = 0
  /\ only = FALSE
  /\ pos = 1
  /\ tries = 0
  /\ reads = 0
  /\ status = "NONE"
  /\ held = "unknown"
  /\ sends = 0
  /\ wire = <<>>
  /\ line = <<>>
  /\ done = {}
  /\ last = <<0, 1>>
  /\ inStep = TRUE
  /\ faults = 0

HostStep ==
  \/ Load \/ SendCommand \/ ReadTimeout \/ ReadAnswer
  \/ \E again \in BOOLEAN : Callback(again)

Next ==
  \/ \E o \in BOOLEAN : Begin(o)
  \/ HostStep
  \/ Execute \/ Reject

Spec == Init /\ [][Next]_vars

(* The host runs, its Reads end by an answer or by their time limit, and   *)
(* the callback returns; the bootloader takes what arrives.                *)
FairSpec == Spec /\ WF_vars(HostStep) /\ WF_vars(Execute \/ Reject)

-----------------------------------------------------------------------------
(* Properties *)

(* Every variable has its type. *)
TypeOK ==
  /\ pc \in Locations
  /\ upload \in Nat
  /\ only \in BOOLEAN
  /\ pos \in Positions
  /\ tries \in 0..MaxTries
  /\ reads \in 0..MaxReads
  /\ status \in Statuses
  /\ held \in Codes \cup {"unknown"}
  /\ sends \in Nat
  /\ wire \in Seq(Command)
  /\ line \in Seq(Answer)
  /\ done \subseteq Nat \X Positions
  /\ last \in Nat \X Positions
  /\ inStep \in BOOLEAN
  /\ faults \in Nat

(* STPv3.c:2440-2457: the reader never gets a block, a parameter or the    *)
(* reset before the commands that come before it in the program, however   *)
(* many commands were lost or damaged and repeated, and however many       *)
(* answers were lost or damaged behind their length; an answer that comes  *)
(* late, in two parts or with a wrong length ends the promise.             *)
NoGaps ==
  inStep =>
    \A p, q \in Positions :
      p < q /\ InProgram(p) /\ <<upload, q>> \in done => <<upload, p>> \in done

(* STPv3.c:2523: when the upload returns success, the reader wrote every   *)
(* block and every parameter, unless an answer came late, in two parts or  *)
(* with a wrong length.  (Not so the reset: its result is ignored.)        *)
SuccessMeansWritten ==
  inStep /\ pc = "idle" /\ status = "SUCCESS" =>
    \A p \in 1 .. Reset - 1 : InProgram(p) => <<upload, p>> \in done

(* SkyeTekAPI.h:645: the callback is called when a block was written.      *)
CallbackMeansWritten ==
  (pc = "callback" /\ IsBlock(pos)) => <<upload, pos>> \in done

(* STPv3.c:797: repetitions never make the reader go back in the program:  *)
(* what it carries out is the last command again or a later one, also when *)
(* late answers make the host repeat commands that were carried out.       *)
Before(a, b) == a[1] < b[1] \/ (a[1] = b[1] /\ a[2] <= b[2])
NeverBack    == [][Before(last, last')]_last

(* STPv3.c:793-806: no command is written more than MaxTries + 1 times,    *)
(* whether answers with another code or with a wrong CRC make it repeat    *)
(* it, or both in turn.                                                    *)
SendsBounded == sends <= MaxTries + 1

(* STPv3.c:2151-2524: an upload ends, whatever the line does.              *)
UploadEnds == pc # "idle" ~> pc = "idle"
=============================================================================
