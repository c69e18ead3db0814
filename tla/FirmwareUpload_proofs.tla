------------------------ MODULE FirmwareUpload_proofs ------------------------
(***************************************************************************)
(* Theorems about the firmware upload, for any number of blocks, default   *)
(* parameters, repetitions and uploads.                                    *)
(***************************************************************************)
EXTENDS FirmwareUpload, SequenceTheorems, TLAPS

-----------------------------------------------------------------------------
(* Types *)

LEMMA Numbers ==
  /\ Positions = 1..Reset
  /\ Setup = 3 /\ LastBlock \in Nat /\ LastBlock >= 3
  /\ Reset \in Nat /\ Reset > LastBlock
  BY FirmwareUploadAssumption DEF Setup, LastBlock, Reset, Positions

LEMMA FollowingTyped ==
  ASSUME NEW p \in Positions, p # Reset
  PROVE  Following(p) \in Positions /\ Following(p) > p
  BY Numbers DEF Following, NextCommand

LEMMA CodeTyped == \A p : CommandCode(p) \in Codes \ {"NACK"}
  BY DEF CommandCode, Codes

(* However sendBLCommand ends or goes on, the host's types are kept, and   *)
(* only the last command is followed by success without the callback.      *)
HostResult ==
  /\ pc' \in {"header", "send", "idle", "callback"}
  /\ pc' = "callback" => pos # Reset
  /\ tries' \in 0..MaxTries
  /\ reads' \in 0..MaxReads
  /\ status' \in Statuses
  /\ pc' = "idle" /\ status' = "SUCCESS" => pos = Reset

LEMMA AcceptedTyped ==
  ASSUME TypeOK, Accepted
  PROVE  HostResult
  BY FirmwareUploadAssumption DEF TypeOK, Accepted, Leave, Return, HostResult, Statuses

LEMMA FailedTyped ==
  ASSUME TypeOK, Failed
  PROVE  HostResult
  BY FirmwareUploadAssumption DEF TypeOK, Failed, Leave, Return, HostResult, Statuses

LEMMA RetryTyped ==
  ASSUME TypeOK, Retry
  PROVE  HostResult
<1>1. CASE tries + 1 > MaxTries
  BY <1>1, FailedTyped DEF Retry
<1>2. CASE ~(tries + 1 > MaxTries)
  BY <1>2, FirmwareUploadAssumption DEF TypeOK, Retry, HostResult
<1>3. QED
  BY <1>1, <1>2

LEMMA ShortHeaderTyped ==
  ASSUME TypeOK, pc = "header", NEW n \in {0, 1}, ShortHeader(n)
  PROVE  HostResult
<1>1. CASE reads + 1 <= MaxReads
  BY <1>1, FirmwareUploadAssumption DEF TypeOK, ShortHeader, HostResult
<1>2. CASE ~(reads + 1 <= MaxReads)
  BY <1>2, AcceptedTyped, FailedTyped DEF ShortHeader
<1>3. QED
  BY <1>1, <1>2

LEMMA CutTyped ==
  ASSUME NEW s \in Seq(Answer)
  PROVE  Cut(s) \in Seq(Answer)
<1>1. CASE s = <<>>
  BY <1>1 DEF Cut
<1>2. CASE s # <<>>
  <2>1. Head(s) \in Answer /\ Tail(s) \in Seq(Answer)
    BY <1>2
  <2> DEFINE n == IF Head(s).form = "junk" THEN Head(s).left - 1 ELSE MaxJunk
  <2>2. CASE ~(n > 0)
    BY <1>2, <2>1, <2>2 DEF Cut
  <2>3. CASE n > 0
    <3>0. Head(s).left \in 0..MaxJunk /\ MaxJunk \in Nat
      BY <2>1, FirmwareUploadAssumption DEF Answer
    <3>1. n \in 0..MaxJunk
      BY <2>3, <3>0
    <3>2. Junk(n) \in Answer
      BY <3>1 DEF Answer, Junk, Codes, Forms
    <3>3. Cut(s) = <<Junk(n)>> \o Tail(s)
      BY <1>2, <2>3 DEF Cut
    <3>4. <<Junk(n)>> \in Seq(Answer)
      BY <3>2
    <3>5. QED
      BY <2>1, <3>3, <3>4, ConcatProperties
  <2>4. QED
    BY <2>2, <2>3
<1>3. QED
  BY <1>1, <1>2

LEMMA ReadAnswerTyped ==
  TypeOK /\ ReadAnswer =>
    HostResult /\ line' \in Seq(Answer) /\ held' \in Codes \cup {"unknown"}
<1> SUFFICES ASSUME TypeOK, ReadAnswer
             PROVE  HostResult /\ line' \in Seq(Answer) /\ held' \in Codes \cup {"unknown"}
  OBVIOUS
<1>1. line \in Seq(Answer) /\ line # <<>> /\ pc = "header" /\ held \in Codes \cup {"unknown"}
  BY DEF TypeOK, ReadAnswer
<1>2. Tail(line) \in Seq(Answer) /\ Head(line) \in Answer
  BY <1>1
<1>3. Cut(line) \in Seq(Answer)
  BY <1>1, CutTyped
<1>4. CASE TakeWhole
  BY <1>1, <1>2, <1>4, AcceptedTyped, RetryTyped DEF TakeWhole, Answer
<1>5. CASE TakePart
  BY <1>1, <1>2, <1>3, <1>5, RetryTyped, ShortHeaderTyped DEF TakePart, Answer
<1>6. CASE Misread
  <2>1. PICK i \in 1 .. Len(line) + 1 :
          \/ line' = Cut(SubSeq(line, i, Len(line)))
          \/ line' = SubSeq(line, i, Len(line))
    BY <1>6 DEF Misread
  <2>2. SubSeq(line, i, Len(line)) \in Seq(Answer)
    BY <1>1, SubSeqProperties
  <2>3. QED
    BY <1>6, <2>1, <2>2, CutTyped, RetryTyped DEF Misread
<1>7. CASE MisreadEmpty
  BY <1>1, <1>2, <1>3, <1>7, AcceptedTyped, RetryTyped DEF MisreadEmpty
<1>8. CASE ShortHeader(1) /\ line' = <<>> /\ UNCHANGED held
  BY <1>1, <1>8, ShortHeaderTyped
<1>9. QED
  BY <1>4, <1>5, <1>6, <1>7, <1>8 DEF ReadAnswer

LEMMA EmitTyped ==
  ASSUME TypeOK, NEW code \in Codes, Emit(code)
  PROVE  line' \in Seq(Answer) /\ faults' \in Nat /\ inStep' \in BOOLEAN
<1> DEFINE As(form) == [code |-> code, form |-> form, left |-> 0]
<1>1. As("ok") \in Answer /\ As("badcrc") \in Answer /\ As("split") \in Answer
  BY FirmwareUploadAssumption DEF Answer, Forms
<1>2. Junk(MaxJunk) \in Answer
  BY FirmwareUploadAssumption DEF Answer, Junk, Forms, Codes
<1>3. line \in Seq(Answer) /\ faults \in Nat
  BY DEF TypeOK
<1>4. faults' = faults \/ faults' = faults + 1
  BY DEF Emit, Fault
<1>5. line' = line \/ \E f \in Answer : line' = Append(line, f)
  BY <1>1, <1>2 DEF Emit
<1>6. inStep' \in BOOLEAN
  BY DEF Emit, TypeOK
<1>7. QED
  BY <1>3, <1>4, <1>5, <1>6, AppendProperties

LEMMA InitTyped == Init => TypeOK
<1> SUFFICES ASSUME Init PROVE TypeOK
  OBVIOUS
<1>1. 0 \in Nat /\ 0 \in 0..MaxTries /\ 0 \in 0..MaxReads /\ 1 \in Positions
  BY Numbers, FirmwareUploadAssumption
<1>2. wire \in Seq(Command) /\ line \in Seq(Answer)
  BY DEF Init
<1>3. last \in Nat \X Positions /\ done \subseteq Nat \X Positions
  BY <1>1 DEF Init
<1>4. QED
  BY <1>1, <1>2, <1>3 DEF Init, TypeOK, Locations, Statuses

(* The inductive form: the callback is not called for the last command, so *)
(* there is always a command that follows.                                 *)
TypeInv == TypeOK /\ (pc = "callback" => pos # Reset)

LEMMA NextTyped == TypeInv /\ [Next]_vars => TypeInv'
<1> SUFFICES ASSUME TypeInv, [Next]_vars PROVE TypeInv'
  OBVIOUS
<1>0. TypeOK
  BY DEF TypeInv
<1> USE DEF Locations
<1>1. ASSUME NEW o \in BOOLEAN, Begin(o) PROVE TypeInv'
  BY <1>0, <1>1, Numbers DEF TypeInv, TypeOK, Begin, Return, Statuses
<1>2. CASE Load
  BY <1>0, <1>2, FirmwareUploadAssumption DEF TypeInv, TypeOK, Load, Return, Statuses
<1>3. CASE SendCommand
  <2>1. \A b \in BOOLEAN : Written(b) \in Command
    BY <1>0 DEF TypeOK, Written, Command
  <2>2. wire' \in Seq(Command)
    <3>1. wire \in Seq(Command)
      BY <1>0 DEF TypeOK
    <3>2. wire' = wire \/ \E b \in BOOLEAN : wire' = Append(wire, Written(b))
      BY <1>3 DEF SendCommand
    <3>3. QED
      BY <2>1, <3>1, <3>2, AppendProperties
  <2>3. faults' \in Nat
    <3>1. faults' = faults \/ faults' = faults + 1
      BY <1>3 DEF SendCommand, Fault
    <3>2. QED
      BY <1>0, <3>1 DEF TypeOK
  <2>4. QED
    BY <1>0, <1>3, <2>2, <2>3, FirmwareUploadAssumption DEF TypeInv, TypeOK, SendCommand
<1>4. CASE ReadTimeout
  <2>1. HostResult
    BY <1>0, <1>4, ShortHeaderTyped DEF ReadTimeout
  <2>2. faults' \in Nat /\ inStep' \in BOOLEAN
    <3>1. faults \in Nat /\ inStep \in BOOLEAN
      BY <1>0 DEF TypeOK
    <3>2. \/ faults' = faults /\ inStep' = inStep
          \/ faults' = faults + 1 /\ inStep' = FALSE
      BY <1>4 DEF ReadTimeout, Fault
    <3>3. faults + 1 \in Nat
      BY <3>1
    <3>4. faults' \in Nat
      BY <3>1, <3>2, <3>3, Zenon
    <3>5. inStep' \in BOOLEAN
      BY <3>1, <3>2, Zenon
    <3>6. QED
      BY <3>4, <3>5, Zenon
  <2>3. QED
    BY <1>0, <1>4, <2>1, <2>2 DEF ReadTimeout, HostResult, TypeInv, TypeOK
<1>5. CASE ReadAnswer
  <2>1. HostResult /\ line' \in Seq(Answer) /\ held' \in Codes \cup {"unknown"}
    BY <1>0, <1>5, ReadAnswerTyped
  <2>2. QED
    BY <1>0, <1>5, <2>1 DEF ReadAnswer, HostResult, TypeInv, TypeOK
<1>6. ASSUME NEW again \in BOOLEAN, Callback(again) PROVE TypeInv'
  <2>1. pos # Reset
    BY <1>6 DEF TypeInv, Callback
  <2>2. pos' \in Positions /\ sends' \in Nat
    BY <1>0, <1>6, <2>1, FollowingTyped DEF Callback, TypeOK
  <2>3. QED
    BY <1>0, <1>6, <2>2 DEF Callback, TypeInv, TypeOK, Return, Statuses
<1>7. CASE Execute \/ Reject
  <2>1. /\ Head(wire) \in Command
        /\ Tail(wire) \in Seq(Command)
    BY <1>0, <1>7 DEF TypeOK, Execute, Reject
  <2>2. line' \in Seq(Answer) /\ faults' \in Nat /\ inStep' \in BOOLEAN
    <3>1. \A p : CommandCode(p) \in Codes
      BY CodeTyped
    <3>2. "NACK" \in Codes
      BY DEF Codes
    <3>3. QED
      BY <1>0, <1>7, <2>1, <3>1, <3>2, EmitTyped DEF Execute, Reject
  <2>3. done' \subseteq Nat \X Positions /\ last' \in Nat \X Positions
    BY <1>0, <1>7, <2>1 DEF Execute, Reject, TypeOK, Command
  <2>4. QED
    BY <1>0, <1>7, <2>1, <2>2, <2>3 DEF Execute, Reject, TypeInv, TypeOK, hostVars
<1>8. CASE UNCHANGED vars
  BY <1>0, <1>8 DEF TypeInv, TypeOK, vars, hostVars
<1>9. QED
  BY <1>1, <1>2, <1>3, <1>4, <1>5, <1>6, <1>7, <1>8 DEF Next, HostStep

(* Type correctness, with the counters of sendBLCommand in their ranges.   *)
THEOREM TypeCorrect == Spec => []TypeOK
<1>1. Init => TypeInv
  BY InitTyped DEF Init, TypeInv
<1>2. Spec => []TypeInv
  BY <1>1, NextTyped, PTL DEF Spec
<1>3. TypeInv => TypeOK
  BY DEF TypeInv
<1>4. QED
  BY <1>2, <1>3, PTL

LEMMA AlwaysTypeInv == Spec => []TypeInv
<1>1. Init => TypeInv
  BY InitTyped DEF Init, TypeInv
<1>2. QED
  BY <1>1, NextTyped, PTL DEF Spec

-----------------------------------------------------------------------------
(* The reader never goes back *)

(* The inductive form of NeverBack: the commands on the wire are in order, *)
(* after the last one carried out and not after the one in progress.       *)
Number(c) == <<c.upload, c.pos>>
Current   == <<upload, pos>>

OrderInv ==
  /\ Before(last, Current)
  /\ \A i \in 1..Len(wire) :
       /\ Before(last, Number(wire[i]))
       /\ Before(Number(wire[i]), Current)
       /\ \A j \in i..Len(wire) : Before(Number(wire[i]), Number(wire[j]))

LEMMA BeforeOrders ==
  /\ \A a \in Nat \X Positions : Before(a, a)
  /\ \A a, b, c \in Nat \X Positions : Before(a, b) /\ Before(b, c) => Before(a, c)
  BY Numbers DEF Before

LEMMA NumbersTyped ==
  ASSUME TypeOK
  PROVE  /\ Current \in Nat \X Positions
         /\ last \in Nat \X Positions
         /\ Len(wire) \in Nat
         /\ \A i \in 1..Len(wire) : wire[i] \in Command /\ Number(wire[i]) \in Nat \X Positions
<1>1. \A c \in Command : Number(c) \in Nat \X Positions
  BY DEF Command, Number
<1>2. QED
  BY <1>1 DEF TypeOK, Current

(* What keeps the wire and moves the host forward keeps the order.         *)
LEMMA ForwardKeepsOrder ==
  ASSUME TypeOK, TypeOK', OrderInv, UNCHANGED <<wire, last>>, Before(Current, Current')
  PROVE  OrderInv'
<1>1. Current' \in Nat \X Positions
  BY DEF Current, TypeOK
<1>2. QED
  BY <1>1, NumbersTyped, BeforeOrders DEF OrderInv

LEMMA TakenKeepsOrder ==
  ASSUME TypeOK, OrderInv, wire # <<>>, wire' = Tail(wire), UNCHANGED <<upload, pos>>,
         last' = last \/ last' = Number(Head(wire))
  PROVE  OrderInv' /\ Before(last, last')
<1>1. Head(wire) = wire[1] /\ Len(wire) \in Nat \ {0}
  BY DEF TypeOK
<1>2. /\ Len(wire') = Len(wire) - 1
      /\ \A i \in 1..Len(wire') : wire'[i] = wire[i + 1]
  BY <1>1 DEF TypeOK
<1>3. Before(last, last') /\ Before(last', Current)
  BY <1>1, NumbersTyped, BeforeOrders DEF OrderInv
<1>4. Current' = Current
  BY DEF Current
<1>5. \A i \in 1..Len(wire') : i + 1 \in 1..Len(wire) /\ i + 1 # 1
  BY <1>1, <1>2
<1>6. ASSUME NEW i \in 1..Len(wire')
      PROVE  /\ Before(last', Number(wire'[i]))
             /\ Before(Number(wire'[i]), Current')
             /\ \A j \in i..Len(wire') : Before(Number(wire'[i]), Number(wire'[j]))
  <2>1. Before(last, Number(wire[i + 1])) /\ Before(Number(wire[1]), Number(wire[i + 1]))
    BY <1>1, <1>2, <1>5 DEF OrderInv
  <2>2. ASSUME NEW j \in i..Len(wire')
        PROVE  Before(Number(wire[i + 1]), Number(wire[j + 1]))
    <3>1. i + 1 \in 1..Len(wire) /\ j + 1 \in i + 1 .. Len(wire)
      BY <1>1, <1>2
    <3>2. QED
      BY <3>1 DEF OrderInv
  <2>3. \A j \in i..Len(wire') : wire'[j] = wire[j + 1]
    BY <1>1, <1>2
  <2>4. QED
    BY <1>1, <1>2, <1>4, <1>5, <2>1, <2>2, <2>3 DEF OrderInv
<1>7. QED
  BY <1>3, <1>4, <1>6 DEF OrderInv

LEMMA WriteKeepsOrder ==
  ASSUME TypeOK, OrderInv, NEW b \in BOOLEAN, wire' = Append(wire, Written(b)),
         UNCHANGED <<upload, pos, last>>
  PROVE  OrderInv'
<1>1. /\ Len(wire) \in Nat
      /\ Len(wire') = Len(wire) + 1
      /\ \A i \in 1..Len(wire) : wire'[i] = wire[i]
      /\ wire'[Len(wire) + 1] = Written(b)
  BY DEF TypeOK
<1>2. Number(Written(b)) = Current /\ Current' = Current
  BY DEF Number, Written, Current
<1>3. \A i \in 1..Len(wire') : \/ i \in 1..Len(wire)
                               \/ i = Len(wire) + 1
  BY <1>1
<1>4. \A i \in 1..Len(wire') : /\ Before(last, Number(wire'[i]))
                               /\ Before(Number(wire'[i]), Current)
  BY <1>1, <1>2, <1>3, NumbersTyped, BeforeOrders DEF OrderInv
<1>5. ASSUME NEW i \in 1..Len(wire'), NEW j \in i..Len(wire')
      PROVE  Before(Number(wire'[i]), Number(wire'[j]))
  <2>1. CASE j = Len(wire) + 1
    BY <1>1, <1>2, <1>4, <2>1
  <2>2. CASE j # Len(wire) + 1
    <3>1. i \in 1..Len(wire) /\ j \in i..Len(wire) /\ j \in 1..Len(wire)
      BY <1>1, <2>2
    <3>2. QED
      BY <1>1, <3>1 DEF OrderInv
  <2>3. QED
    BY <2>1, <2>2
<1>6. QED
  BY <1>2, <1>4, <1>5 DEF OrderInv

LEMMA NextKeepsOrder ==
  TypeInv /\ TypeInv' /\ OrderInv /\ [Next]_vars => OrderInv' /\ Before(last, last')
<1> SUFFICES ASSUME TypeInv, TypeInv', OrderInv, [Next]_vars
             PROVE  OrderInv' /\ Before(last, last')
  OBVIOUS
<1>0. TypeOK /\ TypeOK' /\ Before(last, last) /\ Before(Current, Current)
  BY NumbersTyped, BeforeOrders DEF TypeInv
<1>1. ASSUME NEW o \in BOOLEAN, Begin(o) PROVE OrderInv' /\ Before(last, last')
  <2>1. Before(Current, Current') /\ UNCHANGED <<wire, last>>
    BY <1>0, <1>1 DEF Begin, Before, Current, TypeOK
  <2>2. QED
    BY <1>0, <2>1, ForwardKeepsOrder
<1>2. ASSUME UNCHANGED <<upload, pos, wire, last>> PROVE OrderInv' /\ Before(last, last')
  BY <1>0, <1>2, ForwardKeepsOrder DEF Current
<1>3. CASE SendCommand
  <2>1. UNCHANGED wire \/ \E b \in BOOLEAN : wire' = Append(wire, Written(b))
    BY <1>3 DEF SendCommand
  <2>2. UNCHANGED <<upload, pos, last>>
    BY <1>3 DEF SendCommand
  <2>3. QED
    BY <1>0, <1>2, <2>1, <2>2, WriteKeepsOrder
<1>4. ASSUME NEW again \in BOOLEAN, Callback(again) PROVE OrderInv' /\ Before(last, last')
  <2>1. pos' = pos \/ pos' > pos
    BY <1>0, <1>4, FollowingTyped DEF Callback, TypeInv, TypeOK
  <2>2. Before(Current, Current')
    BY <1>0, <1>4, <2>1, Numbers DEF Callback, Before, Current, TypeOK
  <2>3. QED
    BY <1>0, <1>4, <2>2, ForwardKeepsOrder DEF Callback
<1>5. CASE Execute \/ Reject
  BY <1>0, <1>5, TakenKeepsOrder DEF Execute, Reject, hostVars, Number
<1>6. CASE Load \/ ReadTimeout \/ ReadAnswer
  BY <1>2, <1>6 DEF Load, ReadTimeout, ReadAnswer
<1>7. CASE UNCHANGED vars
  BY <1>2, <1>7 DEF vars, hostVars
<1>8. QED
  BY <1>1, <1>3, <1>4, <1>5, <1>6, <1>7 DEF Next, HostStep

(* The order of commands on the wire.                                      *)
LEMMA WireInOrder == Spec => []OrderInv
<1>1. Init => OrderInv
  BY DEF Init, OrderInv, Before, Current
<1>2. QED
  BY <1>1, NextKeepsOrder, AlwaysTypeInv, PTL DEF Spec

(* The reader goes through the program forwards, whatever is lost, late or *)
(* repeated.                                                               *)
THEOREM NeverGoesBack == Spec => NeverBack
<1>1. TypeInv /\ TypeInv' /\ OrderInv /\ [Next]_vars => [Before(last, last')]_last
  BY NextKeepsOrder
<1>2. QED
  BY <1>1, WireInOrder, AlwaysTypeInv, PTL DEF Spec, NeverBack

-----------------------------------------------------------------------------
(* Nothing is left out, as long as answers come in one piece, in time and  *)
(* with the right length                                                   *)

(* The inductive form of NoGaps and SuccessMeansWritten.  While the line   *)
(* is in step, at most one command or answer is on its way, it is that of  *)
(* the command in progress, and a good answer was given by a reader that   *)
(* carried the command out.                                                *)
DoneInv ==
  /\ InProgram(pos)
  /\ \A p \in Positions : p < pos /\ InProgram(p) => <<upload, p>> \in done
  /\ \A d \in done : d[1] < upload \/ (d[1] = upload /\ d[2] <= pos /\ InProgram(d[2]))
  /\ pc = "callback" => Current \in done
  /\ pc = "idle" /\ status = "SUCCESS" => pos = Reset

LineInv ==
  /\ pc # "header" => wire = <<>> /\ line = <<>>
  /\ wire # <<>> => Len(wire) = 1 /\ line = <<>> /\ Number(wire[1]) = Current
  /\ line # <<>> => /\ Len(line) = 1
                    /\ line[1].form \in {"ok", "badcrc"}
                    /\ line[1].code = "NACK" \/ Current \in done

UploadInv == inStep => DoneInv /\ LineInv

LEMMA OfLengthOne ==
  ASSUME NEW S, NEW q \in Seq(S)
  PROVE  /\ Len(q) \in Nat
         /\ q # <<>> => Head(q) = q[1] /\ q[1] \in S
         /\ Len(q) = 1 => Tail(q) = <<>>
<1>1. Len(q) \in Nat /\ (q # <<>> => Head(q) = q[1] /\ q[1] \in S)
  OBVIOUS
<1>2. ASSUME Len(q) = 1 PROVE Tail(q) = <<>>
  <2>1. q # <<>>
    BY <1>2
  <2>2. Len(Tail(q)) = 0 /\ Tail(q) \in Seq(S)
    BY <1>2, <2>1
  <2>3. \A t \in Seq(S) : Len(t) = 0 => t = <<>>
    OBVIOUS
  <2>4. QED
    BY <2>2, <2>3
<1>3. QED
  BY <1>1, <1>2

LEMMA Shapes ==
  ASSUME TypeOK
  PROVE  /\ pos \in Positions /\ upload \in Nat /\ only \in BOOLEAN
         /\ Len(wire) \in Nat /\ Len(line) \in Nat
         /\ wire # <<>> => Head(wire) = wire[1] /\ wire[1] \in Command
         /\ line # <<>> => Head(line) = line[1] /\ line[1] \in Answer
         /\ Len(wire) = 1 => Tail(wire) = <<>>
         /\ Len(line) = 1 => Tail(line) = <<>>
<1>1. wire \in Seq(Command) /\ line \in Seq(Answer)
  BY DEF TypeOK
<1>2. QED
  BY <1>1, OfLengthOne DEF TypeOK

(* The command in progress and the commands carried out stay: then where   *)
(* the host goes decides.                                                  *)
LEMMA HostKeepsDone ==
  ASSUME DoneInv, UNCHANGED <<upload, only, pos, done>>,
         pc' = "callback" => Current \in done,
         pc' = "idle" /\ status' = "SUCCESS" => pos = Reset
  PROVE  DoneInv'
<1>1. Current' = Current /\ (\A p : InProgram(p)' <=> InProgram(p))
  BY DEF Current, InProgram, WritesData
<1>2. QED
  BY <1>1 DEF DoneInv

LEMMA FollowingInProgram ==
  ASSUME TypeOK, pos # Reset, InProgram(pos)
  PROVE  /\ InProgram(Following(pos))
         /\ \A p \in Positions : pos < p /\ p < Following(pos) => ~InProgram(p)
  BY Numbers DEF TypeOK, Following, NextCommand, InProgram

(* What Accepted, Failed, Retry and ShortHeader make of the host.          *)
LEMMA HostGoesOn ==
  ASSUME pc = "header",
         \/ Failed
         \/ Retry
         \/ ShortHeader(0)
         \/ Accepted /\ Current \in done
  PROVE  /\ pc' = "callback" => Current \in done
         /\ pc' = "idle" /\ status' = "SUCCESS" => pos = Reset
<1>1. CASE Failed
  BY <1>1 DEF Failed, Return
<1>2. CASE Retry
  BY <1>1, <1>2 DEF Retry, Failed, Return
<1>3. CASE ShortHeader(0)
  BY <1>1, <1>3 DEF ShortHeader, Failed, Return
<1>4. CASE Accepted /\ Current \in done
  BY <1>4 DEF Accepted, Return
<1>5. QED
  BY <1>1, <1>2, <1>3, <1>4

LEMMA InitUpload == Init => UploadInv
  BY Numbers DEF Init, UploadInv, DoneInv, LineInv, InProgram

(* What brought the line out of step is not forgotten.                     *)
LEMMA InStepBefore ==
  ASSUME [Next]_vars, inStep', TypeOK
  PROVE  inStep
<1>1. CASE Execute \/ Reject
  <2>1. PICK code : Emit(code)
    BY <1>1 DEF Execute, Reject
  <2>2. QED
    BY <2>1 DEF Emit, TypeOK
<1>2. CASE ReadTimeout
  BY <1>2 DEF ReadTimeout, TypeOK
<1>3. CASE UNCHANGED inStep
  BY <1>3
<1>4. CASE Load \/ SendCommand \/ ReadAnswer
  BY <1>3, <1>4 DEF Load, SendCommand, ReadAnswer
<1>5. CASE (\E o \in BOOLEAN : Begin(o)) \/ (\E again \in BOOLEAN : Callback(again))
  BY <1>3, <1>5 DEF Begin, Callback
<1>6. CASE UNCHANGED vars
  BY <1>3, <1>6 DEF vars
<1>7. QED
  BY <1>1, <1>2, <1>4, <1>5, <1>6 DEF Next, HostStep

LEMMA NextKeepsUpload ==
  TypeInv /\ TypeInv' /\ UploadInv /\ [Next]_vars => UploadInv'
<1> SUFFICES ASSUME TypeInv, TypeInv', UploadInv, [Next]_vars, inStep'
             PROVE  UploadInv'
  BY DEF UploadInv
<1>0. TypeOK /\ TypeOK' /\ DoneInv /\ LineInv
  BY InStepBefore DEF TypeInv, UploadInv
<1>1. ASSUME NEW o \in BOOLEAN, Begin(o) PROVE UploadInv'
  <2>1. /\ upload' = upload + 1 /\ pos' = 1 /\ UNCHANGED <<wire, line, done>>
        /\ pc' \in {"load", "idle"} /\ pc = "idle"
        /\ status' # "SUCCESS"
    BY <1>1 DEF Begin, Return
  <2>2. InProgram(1)'
    BY Numbers DEF InProgram, WritesData, Setup
  <2>3. \A d \in done : d[1] < upload'
    BY SMTT(30), <1>0, <2>1 DEF DoneInv, TypeOK
  <2>4. DoneInv'
    BY <1>0, <2>1, <2>2, <2>3, Numbers DEF DoneInv
  <2>5. LineInv'
    BY <1>0, <2>1 DEF LineInv
  <2>6. QED
    BY <2>4, <2>5 DEF UploadInv
<1>2. CASE Load
  <2>1. /\ UNCHANGED <<upload, only, pos, done, wire, line>>
        /\ pc' \in {"send", "idle"} /\ (pc' = "idle" => status' = "BAD_FILE") /\ pc = "load"
    BY <1>2 DEF Load, Return
  <2>2. DoneInv'
    BY <1>0, <2>1, HostKeepsDone
  <2>3. LineInv'
    BY <1>0, <2>1 DEF LineInv
  <2>4. QED
    BY <2>2, <2>3 DEF UploadInv
<1>3. CASE SendCommand
  <2>1. /\ UNCHANGED <<upload, only, pos, done, line, status>>
        /\ pc = "send" /\ pc' = "header"
        /\ wire' = wire \/ \E b \in BOOLEAN : wire' = Append(wire, Written(b))
    BY <1>3 DEF SendCommand
  <2>2. DoneInv'
    BY <1>0, <2>1, HostKeepsDone
  <2>3. wire = <<>> /\ line = <<>>
    BY <1>0, <2>1 DEF LineInv
  <2>4. \A b \in BOOLEAN :
          /\ Len(Append(wire, Written(b))) = 1
          /\ Number(Append(wire, Written(b))[1]) = Current
    BY <2>3 DEF Number, Written, Current
  <2>5. LineInv'
    BY <2>1, <2>3, <2>4 DEF LineInv, Current
  <2>6. QED
    BY <2>2, <2>5 DEF UploadInv
<1>4. CASE ReadTimeout
  <2>1. /\ UNCHANGED <<upload, only, pos, done, wire, line>>
        /\ pc = "header" /\ ShortHeader(0) /\ wire = <<>> /\ line = <<>>
    BY <1>4 DEF ReadTimeout
  <2>2. DoneInv'
    BY <1>0, <2>1, HostGoesOn, HostKeepsDone
  <2>3. LineInv'
    BY <2>1 DEF LineInv
  <2>4. QED
    BY <2>2, <2>3 DEF UploadInv
<1>5. CASE ReadAnswer
  <2>1. /\ UNCHANGED <<upload, only, pos, done, wire>>
        /\ pc = "header" /\ line # <<>>
    BY <1>5 DEF ReadAnswer
  <2>2. /\ wire = <<>> /\ Len(line) = 1 /\ Head(line) = line[1] /\ Tail(line) = <<>>
        /\ line[1].form \in {"ok", "badcrc"}
        /\ line[1].code = "NACK" \/ Current \in done
    BY <1>0, <2>1, Shapes DEF LineInv
  <2>3. /\ line' = <<>>
        /\ Retry \/ (Accepted /\ CodeFits(line[1].code))
    BY <1>5, <2>2 DEF ReadAnswer, TakeWhole, TakePart
  <2>4. CodeFits(line[1].code) => line[1].code # "NACK"
    BY CodeTyped DEF CodeFits
  <2>5. DoneInv'
    BY <1>0, <2>1, <2>2, <2>3, <2>4, HostGoesOn, HostKeepsDone
  <2>6. LineInv'
    BY <2>1, <2>2, <2>3 DEF LineInv
  <2>7. QED
    BY <2>5, <2>6 DEF UploadInv
<1>6. ASSUME NEW again \in BOOLEAN, Callback(again) PROVE UploadInv'
  <2>1. /\ UNCHANGED <<upload, only, done, wire, line>>
        /\ pc = "callback" /\ pc' \in {"load", "idle"}
        /\ \/ pos' = Following(pos) /\ pc' = "load"
           \/ pos' = pos /\ status' = "CANCELED"
    BY <1>6 DEF Callback, Return
  <2>2. pos # Reset /\ Current \in done /\ InProgram(pos)
    BY <1>0, <2>1 DEF TypeInv, DoneInv
  <2>3. \A p : InProgram(p)' <=> InProgram(p)
    BY <2>1 DEF InProgram, WritesData
  <2>4. DoneInv'
    <3>1. CASE pos' = Following(pos) /\ pc' = "load"
      <4>1. Following(pos) \in Positions /\ Following(pos) > pos
        BY <1>0, <2>2, FollowingTyped DEF TypeOK
      <4>2. \A p \in Positions : p < Following(pos) /\ InProgram(p) => p < pos \/ p = pos
        <5>1. pos \in 1..Reset /\ Following(pos) \in 1..Reset /\ Reset \in Nat
          BY <1>0, <4>1, Numbers DEF TypeOK, Positions
        <5>2. ASSUME NEW p \in Positions, p < Following(pos), InProgram(p)
              PROVE  p < pos \/ p = pos
          <6>1. p \in 1..Reset
            BY DEF Positions
          <6>2. ~(pos < p)
            BY <1>0, <2>2, <5>2, FollowingInProgram
          <6>3. QED
            BY <5>1, <6>1, <6>2
        <5>3. QED
          BY <5>2
      <4>3. \A p \in Positions : p < pos' /\ InProgram(p) => <<upload, p>> \in done
        BY <1>0, <2>2, <3>1, <4>2 DEF DoneInv, Current
      <4>4. \A d \in done : d[1] < upload \/ (d[1] = upload /\ d[2] <= pos' /\ InProgram(d[2]))
        <5>1. ASSUME NEW d \in done
              PROVE  d[1] < upload \/ (d[1] = upload /\ d[2] <= pos' /\ InProgram(d[2]))
          <6>1. d[2] \in 1..Reset /\ pos \in 1..Reset /\ pos' \in 1..Reset /\ Reset \in Nat
            BY <1>0, <3>1, <4>1, Numbers DEF TypeOK, Positions
          <6>2. d[1] < upload \/ (d[1] = upload /\ d[2] <= pos /\ InProgram(d[2]))
            BY <1>0 DEF DoneInv
          <6>3. d[2] <= pos => d[2] <= pos'
            BY <3>1, <4>1, <6>1
          <6>4. QED
            BY <6>2, <6>3
        <5>2. QED
          BY <5>1
      <4>5. InProgram(pos')
        BY <1>0, <2>2, <3>1, FollowingInProgram
      <4>6. QED
        BY <2>1, <2>3, <3>1, <4>3, <4>4, <4>5 DEF DoneInv
    <3>2. CASE pos' = pos /\ status' = "CANCELED"
      BY <1>0, <2>1, <3>2, HostKeepsDone
    <3>3. QED
      BY <2>1, <3>1, <3>2
  <2>5. LineInv'
    BY <1>0, <2>1 DEF LineInv
  <2>6. QED
    BY <2>4, <2>5 DEF UploadInv
<1>7. CASE Execute \/ Reject
  <2>1. /\ UNCHANGED <<pc, upload, only, pos, status>>
        /\ wire # <<>> /\ wire' = Tail(wire)
    BY <1>7 DEF Execute, Reject, hostVars
  <2>2. /\ pc = "header" /\ line = <<>> /\ Len(wire) = 1 /\ wire' = <<>>
        /\ Head(wire) = wire[1] /\ Number(wire[1]) = Current
    BY <1>0, <2>1, Shapes DEF LineInv
  <2>3. done' = done \cup {Current} \/ done' = done
    BY <1>7, <2>2 DEF Execute, Reject, Number
  <2>4. DoneInv'
    <3>1. \A p : InProgram(p)' <=> InProgram(p)
      BY <2>1 DEF InProgram, WritesData
    <3>2. \A d \in done' :
            d[1] < upload \/ (d[1] = upload /\ d[2] <= pos /\ InProgram(d[2]))
      <4>1. ASSUME NEW d \in done' PROVE d \in done \/ d = Current
        BY <2>3
      <4>2. \A d \in done :
              d[1] < upload \/ (d[1] = upload /\ d[2] <= pos /\ InProgram(d[2]))
        BY <1>0 DEF DoneInv
      <4>3. /\ Current[1] = upload /\ Current[2] = pos
            /\ pos <= pos /\ InProgram(pos)
        BY <1>0, Numbers DEF DoneInv, Current, TypeOK, Positions
      <4>4. QED
        BY <4>1, <4>2, <4>3
    <3>3. QED
      BY <1>0, <2>1, <2>2, <2>3, <3>1, <3>2 DEF DoneInv, Current
  <2>5. line' # <<>> =>
          /\ Len(line') = 1
          /\ line'[1].form \in {"ok", "badcrc"}
          /\ line'[1].code = "NACK" \/ Current \in done'
    <3>1. PICK code : Emit(code) /\ (code = "NACK" \/ Current \in done')
      BY <1>7, <2>2 DEF Execute, Reject, Number
    <3> DEFINE As(form) == [code |-> code, form |-> form, left |-> 0]
    <3>2. \/ line' = line
          \/ line' = Append(line, As("ok"))
          \/ line' = Append(line, As("badcrc"))
      BY <3>1 DEF Emit
    <3>3. \A form : /\ Len(Append(line, As(form))) = 1
                    /\ Append(line, As(form))[1].form = form
                    /\ Append(line, As(form))[1].code = code
      BY <2>2
    <3>4. QED
      BY <2>2, <3>1, <3>2, <3>3
  <2>6. LineInv'
    BY <2>1, <2>2, <2>5 DEF LineInv, Current
  <2>7. QED
    BY <2>4, <2>6 DEF UploadInv
<1>8. CASE UNCHANGED vars
  <2>1. UNCHANGED <<pc, upload, only, pos, status, wire, line, done>>
    BY <1>8 DEF vars, hostVars
  <2>2. QED
    BY <1>0, <2>1 DEF UploadInv, DoneInv, LineInv, InProgram, WritesData, Current
<1>9. QED
  BY <1>1, <1>2, <1>3, <1>4, <1>5, <1>6, <1>7, <1>8 DEF Next, HostStep

(* The bookkeeping of an upload, while the line is in step.                *)
LEMMA UploadKept == Spec => []UploadInv
<1>1. TypeInv /\ TypeInv' /\ UploadInv /\ [Next]_vars => UploadInv'
  BY NextKeepsUpload
<1>2. QED
  BY <1>1, InitUpload, AlwaysTypeInv, PTL DEF Spec

(* The reader gets the commands of an upload without gaps, although        *)
(* commands are lost and damaged, and answers lost or damaged behind their *)
(* length.                                                                 *)
THEOREM WithoutGaps == Spec => []NoGaps
<1>1. TypeInv /\ UploadInv => NoGaps
  <2> SUFFICES ASSUME TypeInv, UploadInv, inStep, NEW p \in Positions, NEW q \in Positions,
                      p < q, InProgram(p), <<upload, q>> \in done
               PROVE  <<upload, p>> \in done
    BY DEF NoGaps
  <2>1. q <= pos
    BY DEF UploadInv, DoneInv, TypeInv, TypeOK
  <2>2. p < pos
    BY <2>1, Numbers DEF TypeInv, TypeOK
  <2>3. QED
    BY <2>2 DEF UploadInv, DoneInv
<1>2. QED
  BY <1>1, UploadKept, AlwaysTypeInv, PTL

(* An upload that reports success has written everything, unless an answer *)
(* came late, in two parts or with a wrong length.                         *)
THEOREM SuccessIsComplete == Spec => []SuccessMeansWritten
<1>1. UploadInv => SuccessMeansWritten
  BY Numbers DEF UploadInv, DoneInv, SuccessMeansWritten
<1>2. QED
  BY <1>1, UploadKept, PTL

(* The callback is called for blocks that were written, until an answer    *)
(* comes late, in two parts or with a wrong length: then it may be called  *)
(* for one that was not.                                                   *)
THEOREM CallbackIsRight == Spec => [](inStep => CallbackMeansWritten)
<1>1. UploadInv => (inStep => CallbackMeansWritten)
  BY DEF UploadInv, DoneInv, CallbackMeansWritten, Current
<1>2. QED
  BY <1>1, UploadKept, PTL
-----------------------------------------------------------------------------
(* How often a command is written *)

(* The inductive form: one write for each try.                             *)
SendsInv ==
  /\ pc = "load"   => sends = 0 /\ tries = 0
  /\ pc = "send"   => sends = tries
  /\ pc = "header" => sends = tries + 1
  /\ pc \in {"callback", "idle"} => sends <= MaxTries + 1 /\ tries = 0

LEMMA ReadCounts ==
  ASSUME TypeOK, SendsInv, pc = "header", UNCHANGED sends,
         Accepted \/ Retry \/ \E n \in {0, 1} : ShortHeader(n)
  PROVE  SendsInv'
<1>1. sends = tries + 1 /\ tries \in 0..MaxTries /\ MaxTries \in Nat
  BY FirmwareUploadAssumption DEF SendsInv, TypeOK
<1>2. \/ pc' = "send" /\ tries' = tries + 1
      \/ pc' = "header" /\ tries' = tries
      \/ pc' \in {"callback", "idle"} /\ tries' = 0
  BY DEF Accepted, Retry, ShortHeader, Failed, Leave, Return
<1>3. QED
  BY <1>1, <1>2 DEF SendsInv

LEMMA NextCounts == TypeOK /\ SendsInv /\ [Next]_vars => SendsInv'
<1> SUFFICES ASSUME TypeOK, SendsInv, [Next]_vars PROVE SendsInv'
  OBVIOUS
<1>0. MaxTries \in Nat
  BY FirmwareUploadAssumption
<1>1. ASSUME NEW o \in BOOLEAN, Begin(o) PROVE SendsInv'
  BY <1>0, <1>1 DEF Begin, Return, SendsInv
<1>2. CASE Load
  BY <1>0, <1>2 DEF Load, Return, SendsInv
<1>3. CASE SendCommand
  BY <1>3 DEF SendCommand, SendsInv
<1>4. CASE ReadTimeout
  BY <1>4, ReadCounts DEF ReadTimeout
<1>5. CASE ReadAnswer
  BY <1>5, ReadCounts DEF ReadAnswer, TakeWhole, TakePart, Misread, MisreadEmpty
<1>6. ASSUME NEW again \in BOOLEAN, Callback(again) PROVE SendsInv'
  BY <1>6 DEF Callback, Return, SendsInv
<1>7. CASE UNCHANGED <<pc, tries, sends>>
  BY <1>7 DEF SendsInv
<1>8. QED
  BY <1>1, <1>2, <1>3, <1>4, <1>5, <1>6, <1>7
     DEF Next, HostStep, Execute, Reject, hostVars, vars

(* No line makes the host write a command more than MaxTries + 1 times.    *)
THEOREM WritesAreBounded == Spec => []SendsBounded
<1>1. Init => SendsInv
  BY FirmwareUploadAssumption DEF Init, SendsInv
<1>2. TypeOK /\ SendsInv => SendsBounded
  BY FirmwareUploadAssumption DEF TypeOK, Locations, SendsInv, SendsBounded
<1>3. QED
  BY <1>1, <1>2, NextCounts, TypeCorrect, PTL DEF Spec
=============================================================================
