---------------------------- MODULE STPv2_proofs ----------------------------
(***************************************************************************)
(* Facts about the engine of version 2, for any line, any limit of         *)
(* ReadResponse, and calls of the protocol as the functions of STPv2.c     *)
(* make them; TagCalls_proofs draws the theorems from them.                *)
(***************************************************************************)
EXTENDS STPv2, TLAPS

(* The calls there are: the select functions build SELECT_TAG, the flag of *)
(* a loop is set by SelectTags only, that of an inventory by SelectTags    *)
(* and, always, by GetTags.                                                *)
GoodCall(c) ==
  /\ c \in ProtocolCall
  /\ c.fn \in {"SelectTag", "SelectTags", "GetTags"} <=> c.cmd = SELECT_TAG
  /\ c.loop => c.fn = "SelectTags"
  /\ c.inv => c.fn \in {"SelectTags", "GetTags"}
  /\ c.fn = "GetTags" => c.inv

V2Next == V2Step \/ (\E c : GoodCall(c) /\ V2Call(c))

-----------------------------------------------------------------------------
(* Sequences *)

LEMMA TailFacts ==
  ASSUME NEW S, NEW s \in Seq(S), s # <<>>
  PROVE  /\ Tail(s) \in Seq(S) /\ Head(s) \in S /\ Head(s) = s[1]
         /\ Len(s) \in Nat /\ Len(s) >= 1 /\ Len(Tail(s)) = Len(s) - 1
         /\ \A i \in 1..Len(Tail(s)) : Tail(s)[i] = s[i + 1] /\ i + 1 \in 1..Len(s)
  OBVIOUS

LEMMA AppendFacts ==
  ASSUME NEW S, NEW s \in Seq(S), NEW e \in S
  PROVE  /\ Append(s, e) \in Seq(S) /\ Append(s, e) # <<>>
         /\ Len(s) \in Nat /\ Len(Append(s, e)) = Len(s) + 1
         /\ \A i \in 1..Len(s) : Append(s, e)[i] = s[i]
         /\ Append(s, e)[Len(s) + 1] = e
         /\ \A i \in 1..Len(Append(s, e)) : i \in 1..Len(s) \/ i = Len(s) + 1
<1>1. Append(s, e) \in Seq(S) /\ Len(Append(s, e)) = Len(s) + 1 /\ Len(s) \in Nat
  OBVIOUS
<1>2. Append(s, e) # <<>>
  BY <1>1
<1>3. \A i \in 1..Len(s) : Append(s, e)[i] = s[i]
  OBVIOUS
<1>4. Append(s, e)[Len(s) + 1] = e
  OBVIOUS
<1>5. \A i \in 1..Len(Append(s, e)) : i \in 1..Len(s) \/ i = Len(s) + 1
  BY <1>1
<1>6. QED
  BY <1>1, <1>2, <1>3, <1>4, <1>5

LEMMA EmptyFacts ==
  ASSUME NEW S, NEW s \in Seq(S)
  PROVE  Len(s) \in Nat /\ (s = <<>> <=> Len(s) = 0)
  OBVIOUS

-----------------------------------------------------------------------------
(* What is put on the line, and what is left of it *)

FrameOf(code, r, form) == [code |-> code, req |-> r, form |-> form]

LEMMA EmitPuts ==
  ASSUME NEW code \in Codes, NEW r \in Request, Emit(code, r), line \in Seq(Frame)
  PROVE  /\ line' \in Seq(Frame)
         /\ \/ line' = line
            \/ \E f \in Frame : line' = Append(line, f) /\ f.code = code /\ f.req = r
         /\ faulty = {} => line' = Append(line, FrameOf(code, r, "ok"))
<1>1. \A form \in {"ok", "badcrc", "split", "junk"} : FrameOf(code, r, form) \in Frame
  BY DEF FrameOf, Frame
<1>2. \/ line' = line
      \/ \E form \in {"ok", "badcrc", "split", "junk"} : line' = Append(line, FrameOf(code, r, form))
  BY DEF Emit, FrameOf
<1>3. faulty = {} => line' = Append(line, FrameOf(code, r, "ok"))
  BY DEF Emit, FrameOf, Can
<1>4. \/ line' = line
      \/ \E f \in Frame : line' = Append(line, f) /\ f.code = code /\ f.req = r
  BY <1>1, <1>2 DEF FrameOf
<1>5. line' \in Seq(Frame)
  BY <1>4, AppendFacts
<1>6. QED
  BY <1>3, <1>4, <1>5

LEMMA JunkFrame ==
  ASSUME NEW s \in Seq(Frame), s # <<>>
  PROVE  /\ [s EXCEPT ![1].form = "junk"] \in Seq(Frame)
         /\ Len([s EXCEPT ![1].form = "junk"]) = Len(s)
         /\ \A i \in 1..Len(s) : /\ [s EXCEPT ![1].form = "junk"][i].code = s[i].code
                                 /\ [s EXCEPT ![1].form = "junk"][i].req = s[i].req
<1> DEFINE t == [s EXCEPT ![1].form = "junk"]
<1>1. Len(s) \in Nat /\ DOMAIN s = 1..Len(s) /\ \A i \in 1..Len(s) : s[i] \in Frame
  OBVIOUS
<1>2. DOMAIN t = 1..Len(s)
  BY <1>1
<1>3. \A i \in 1..Len(s) : t[i] = IF i = 1 THEN [s[1] EXCEPT !.form = "junk"] ELSE s[i]
  BY <1>1
<1>4. \A f \in Frame : /\ [f EXCEPT !.form = "junk"] \in Frame
                       /\ [f EXCEPT !.form = "junk"].code = f.code
                       /\ [f EXCEPT !.form = "junk"].req = f.req
  BY DEF Frame
<1>5. \A i \in 1..Len(s) : t[i] \in Frame /\ t[i].code = s[i].code /\ t[i].req = s[i].req
  BY <1>1, <1>3, <1>4
<1>6. t = [i \in 1..Len(s) |-> t[i]]
  BY <1>2
<1>7. t \in Seq(Frame) /\ Len(t) = Len(s)
  BY <1>1, <1>2, <1>5
<1>8. QED
  BY <1>5, <1>7

(* A frame that is left was there before, with its code and its request.   *)
FromLine(l, k) ==
  \A i \in 1..Len(k) : \E j \in 1..Len(l) : k[i].code = l[j].code /\ k[i].req = l[j].req

LEMMA RestLeft ==
  ASSUME line \in Seq(Frame), line # <<>>, NEW rest \in RestOfLine
  PROVE  /\ rest \in Seq(Frame)
         /\ FromLine(line, rest)
         /\ Head(line).form = "ok" => rest = Tail(line)
<1>1. /\ Tail(line) \in Seq(Frame)
      /\ Len(line) \in Nat
      /\ \A i \in 1..Len(Tail(line)) : Tail(line)[i] = line[i + 1] /\ i + 1 \in 1..Len(line)
  BY TailFacts
<1>2. FromLine(line, Tail(line)) /\ FromLine(line, line)
  BY <1>1 DEF FromLine
<1>3. FromLine(line, [line EXCEPT ![1].form = "junk"])
  BY JunkFrame DEF FromLine
<1>4. \/ rest = Tail(line)
      \/ rest = line /\ Head(line).form = "junk"
      \/ rest = [line EXCEPT ![1].form = "junk"] /\ Head(line).form = "split"
  BY DEF RestOfLine
<1>5. QED
  BY <1>1, <1>2, <1>3, <1>4, JunkFrame

-----------------------------------------------------------------------------
(* Types *)

(* StopSelectLoop runs for SelectTags only, the callback too.              *)
V2Typed ==
  /\ V2TypeOK
  /\ GoodCall(api)
  /\ pc = "callback" => api.fn = "SelectTags"
  /\ stopping => stopped /\ api.fn = "SelectTags"

LEMMA CodesTyped ==
  /\ \A c \in Cmds : Pass(c) \in Codes /\ Fail(c) \in Codes
  /\ LOOP_ON \in Codes /\ LOOP_OFF \in Codes /\ NoCode \in Codes /\ DamagedCode \in Codes
  /\ SELECT_TAG \in Cmds
  BY DEF Codes, Pass, Fail, Code, LOOP_ON, LOOP_OFF, NoCode, DamagedCode, Cmds

LEMMA ParseTyped ==
  ASSUME NEW f \in Frame, NEW p \in Parse(f)
  PROVE  p[1] \in Statuses /\ p[2] \in Codes
  BY CodesTyped DEF Parse, Frame, Statuses

LEMMA RespondTyped ==
  ASSUME V2TypeOK, NEW st \in Statuses, NEW code \in Codes, NEW f \in Frame,
         pc = "read", Respond(st, code, f)
  PROVE  /\ pc' \in {"read", "handle"} /\ count' \in 0..V2MaxCount
         /\ resp' \in Response /\ UNCHANGED ret
<1>1. [st |-> st, code |-> code, req |-> f.req, whole |-> f.req.auto = req.auto] \in Response
  BY DEF Response, Frame
<1>2. CASE Matches(code) \/ count + 2 > V2MaxCount
  BY <1>1, <1>2, STPv2Assumption DEF Respond, Goto
<1>3. CASE ~(Matches(code) \/ count + 2 > V2MaxCount)
  BY <1>3, STPv2Assumption DEF Respond, V2TypeOK
<1>4. QED
  BY <1>2, <1>3

LEMMA RequestTyped ==
  ASSUME V2TypeOK
  PROVE  BuildRequest \in Request
  BY DEF V2TypeOK, BuildRequest, Request, ProtocolCall

LEMMA TakenTyped ==
  ASSUME V2TypeOK, wire # <<>>, NEW code \in Codes, Emit(code, Head(wire))
  PROVE  line' \in Seq(Frame) /\ Head(wire) \in Request /\ Tail(wire) \in Seq(Request)
<1>1. Head(wire) \in Request /\ Tail(wire) \in Seq(Request) /\ line \in Seq(Frame)
  BY DEF V2TypeOK
<1>2. QED
  BY <1>1, EmitPuts

LEMMA NoRequestTyped == NoRequest \in Request /\ NoResponse \in Response /\ Idle.req \in Request
  BY CodesTyped DEF NoRequest, NoResponse, Idle, Request, Response, Statuses

LEMMA InitV2Typed == V2Init => V2Typed
<1> SUFFICES ASSUME V2Init PROVE V2Typed
  OBVIOUS
<1>1. api \in ProtocolCall /\ GoodCall(api)
  BY DEF V2Init, ProtocolCall, GoodCall, Fns, Cmds, READ_TAG, SELECT_TAG
<1>2. wire \in Seq(Request) /\ line \in Seq(Frame) /\ executed \subseteq Request
  BY DEF V2Init
<1>3. mode \in [state : {"idle", "loop", "inventory"}, req : Request]
  BY NoRequestTyped DEF V2Init, Idle
<1>4. count \in 0..V2MaxCount /\ ret \in Statuses
  BY STPv2Assumption DEF V2Init, Statuses
<1>5. QED
  BY <1>1, <1>2, <1>3, <1>4, NoRequestTyped DEF V2Init, V2Typed, V2TypeOK

LEMMA NextV2Typed == V2Typed /\ (V2Next \/ UNCHANGED v2vars) => V2Typed'
<1> SUFFICES ASSUME V2Typed, V2Next \/ UNCHANGED v2vars PROVE V2Typed'
  OBVIOUS
<1>0. V2TypeOK /\ GoodCall(api)
  BY DEF V2Typed
<1> USE DEF v2reader, v2host
<1>1. ASSUME NEW c, GoodCall(c), V2Call(c) PROVE V2Typed'
  <2>1. /\ pc' = "write" /\ api' = c /\ ncalls' = ncalls + 1 /\ stopping' = FALSE /\ got' = FALSE
        /\ UNCHANGED <<faulty, stopped, req, nreqs, count, resp, ret, wire, line, mode,
                       executed, looped>>
    BY <1>1 DEF V2Call
  <2>2. api' \in ProtocolCall /\ GoodCall(api')
    BY <1>1, <2>1 DEF GoodCall
  <2>3. V2TypeOK'
    <3>1. ncalls' \in Nat
      BY <1>0, <2>1 DEF V2TypeOK
    <3>2. /\ pc' \in {"idle", "write", "read", "handle", "callback"}
          /\ stopping' \in BOOLEAN /\ got' \in BOOLEAN
      BY <2>1
    <3>3. QED
      BY <1>0, <2>1, <2>2, <3>1, <3>2 DEF V2TypeOK
  <2>4. GoodCall(api)'
    BY <2>2 DEF GoodCall
  <2>5. QED
    BY <2>1, <2>3, <2>4 DEF V2Typed
<1>2. CASE WriteRequest
  <2>1. BuildRequest \in Request
    BY <1>0, RequestTyped
  <2>2. wire' \in Seq(Request)
    <3>1. wire \in Seq(Request)
      BY <1>0 DEF V2TypeOK
    <3>2. wire' = wire \/ wire' = Append(wire, BuildRequest)
      BY <1>2 DEF WriteRequest
    <3>3. QED
      BY <2>1, <3>1, <3>2, AppendFacts
  <2>3. pc' \in {"read", "idle"} /\ ret' \in Statuses
    BY <1>0, <1>2 DEF WriteRequest, Goto, Return, Statuses, V2TypeOK
  <2>4. QED
    BY <1>0, <1>2, <2>1, <2>2, <2>3, STPv2Assumption DEF WriteRequest, V2Typed, V2TypeOK
<1>3. CASE ReadFrame
  <2>1. line \in Seq(Frame) /\ line # <<>> /\ Head(line) \in Frame
    BY <1>0, <1>3 DEF ReadFrame, V2TypeOK
  <2>2. PICK p \in Parse(Head(line)) : Respond(p[1], p[2], Head(line))
    BY <1>3 DEF ReadFrame
  <2>3. p[1] \in Statuses /\ p[2] \in Codes
    BY <2>1, ParseTyped
  <2>4. /\ pc' \in {"read", "handle"} /\ count' \in 0..V2MaxCount
        /\ resp' \in Response /\ UNCHANGED ret
    BY <1>0, <1>3, <2>1, <2>2, <2>3, RespondTyped DEF ReadFrame
  <2>5. line' \in Seq(Frame)
    BY <1>3, <2>1, RestLeft DEF ReadFrame
  <2>6. QED
    BY <1>0, <1>3, <2>4, <2>5 DEF ReadFrame, V2Typed, V2TypeOK
<1>4. CASE ReadTimeout
  BY <1>0, <1>4, NoRequestTyped, STPv2Assumption DEF ReadTimeout, Goto, V2Typed, V2TypeOK
<1>5. CASE HandleSend
  <2>1. pc' \in {"idle", "write"} /\ ret' \in Statuses
    BY <1>0, <1>5 DEF HandleSend, SendResult, Return, Goto, GetStatus, Statuses, V2TypeOK, Response
  <2>2. QED
    BY <1>0, <1>5, <2>1 DEF HandleSend, V2Typed, V2TypeOK
<1>6. CASE HandleSelect
  <2>1. pc' \in {"idle", "read", "callback"} /\ ret' \in Statuses /\ api.fn = "SelectTags"
    BY <1>0, <1>6 DEF HandleSelect, Return, Goto, Statuses, V2TypeOK, Response
  <2>2. QED
    BY <1>0, <1>6, <2>1 DEF HandleSelect, V2Typed, V2TypeOK
<1>7. CASE HandleStop
  BY <1>0, <1>7 DEF HandleStop, StopResult, Return, Statuses, V2Typed, V2TypeOK
<1>8. CASE HandleGetTags
  <2>1. pc' \in {"idle", "read"} /\ ret' \in Statuses /\ got' \in BOOLEAN
    BY <1>0, <1>8 DEF HandleGetTags, Return, Goto, Statuses, V2TypeOK
  <2>2. QED
    BY <1>0, <1>8, <2>1 DEF HandleGetTags, V2Typed, V2TypeOK
<1>9. ASSUME NEW again \in BOOLEAN, Callback(again) PROVE V2Typed'
  <2>1. /\ pc' \in {"idle", "read", "write"} /\ ret' \in Statuses /\ api.fn = "SelectTags"
    BY <1>0, <1>9 DEF Callback, Return, Goto, Statuses, V2Typed, V2TypeOK
  <2>2. \/ stopping' = TRUE /\ stopped' = TRUE
        \/ stopping' = stopping /\ stopped' = stopped
    BY <1>9 DEF Callback
  <2>3. stopping' \in BOOLEAN /\ stopped' \in BOOLEAN /\ (stopping' => stopped')
    <3>1. stopping \in BOOLEAN /\ stopped \in BOOLEAN /\ (stopping => stopped)
      BY <1>0 DEF V2Typed, V2TypeOK
    <3>2. CASE stopping' = TRUE /\ stopped' = TRUE
      BY <3>2
    <3>3. CASE stopping' = stopping /\ stopped' = stopped
      BY <3>1, <3>3
    <3>4. QED
      BY <2>2, <3>2, <3>3
  <2>4. QED
    BY <1>0, <1>9, <2>1, <2>3 DEF Callback, V2Typed, V2TypeOK
<1>10. CASE ReaderEndLoop
  <2>1. line' \in Seq(Frame) /\ Tail(wire) \in Seq(Request)
    BY <1>0, <1>10, CodesTyped, TakenTyped DEF ReaderEndLoop
  <2>2. QED
    BY <1>0, <1>10, <2>1, NoRequestTyped DEF ReaderEndLoop, Idle, V2Typed, V2TypeOK
<1>11. CASE ReaderExecute
  <2>1. Head(wire) \in Request /\ Head(wire).cmd \in Cmds
    <3>1. wire \in Seq(Request) /\ wire # <<>>
      BY <1>0, <1>11 DEF ReaderExecute, V2TypeOK
    <3>2. Head(wire) \in Request
      BY <3>1
    <3>3. QED
      BY <3>2 DEF Request
  <2>2. /\ line' \in Seq(Frame) /\ Tail(wire) \in Seq(Request)
        /\ executed' \subseteq Request
    BY <1>0, <1>11, <2>1, CodesTyped, TakenTyped DEF ReaderExecute, V2TypeOK
  <2>3. QED
    BY <1>0, <1>11, <2>2 DEF ReaderExecute, V2Typed, V2TypeOK
<1>12. CASE ReaderSelect
  <2>1. /\ Head(wire) \in Request /\ Tail(wire) \in Seq(Request)
        /\ Head(wire).loop \in BOOLEAN
    <3>1. wire \in Seq(Request) /\ wire # <<>>
      BY <1>0, <1>12 DEF ReaderSelect, V2TypeOK
    <3>2. Head(wire) \in Request /\ Tail(wire) \in Seq(Request)
      BY <3>1
    <3>3. QED
      BY <3>2 DEF Request
  <2>2. line' \in Seq(Frame)
    <3>1. line' = line \/ \E code \in Codes : Emit(code, Head(wire))
      BY <1>12, CodesTyped DEF ReaderSelect
    <3>2. QED
      BY <1>0, <1>12, <3>1, TakenTyped DEF ReaderSelect, V2TypeOK
  <2>3. mode' \in [state : {"idle", "loop", "inventory"}, req : Request]
    BY <1>0, <1>12, <2>1 DEF ReaderSelect, V2TypeOK
  <2>4. QED
    BY <1>0, <1>12, <2>1, <2>2, <2>3 DEF ReaderSelect, V2Typed, V2TypeOK
<1>13. CASE ReaderFind \/ ReaderInventoryDone
  <2>1. mode.req \in Request /\ line \in Seq(Frame)
    BY <1>0 DEF V2TypeOK
  <2>2. line' \in Seq(Frame)
    BY <1>13, <2>1, CodesTyped, EmitPuts DEF ReaderFind, ReaderInventoryDone
  <2>3. mode' \in [state : {"idle", "loop", "inventory"}, req : Request]
    BY <1>0, <1>13, NoRequestTyped DEF ReaderFind, ReaderInventoryDone, Idle, V2TypeOK
  <2>4. QED
    BY <1>0, <1>13, <2>2, <2>3 DEF ReaderFind, ReaderInventoryDone, V2Typed, V2TypeOK
<1>14. CASE UNCHANGED v2vars
  BY <1>0, <1>14 DEF v2vars, V2Typed, V2TypeOK
<1>15. QED
  BY <1>1, <1>2, <1>3, <1>4, <1>5, <1>6, <1>7, <1>8, <1>9, <1>10, <1>11, <1>12, <1>13, <1>14
     DEF V2Next, V2Step, V2Read, V2Handle, V2Take

-----------------------------------------------------------------------------
(* What a command has left behind, as long as no select loop was started   *)

Plain(r) == r.cmd # SELECT_TAG

Known(ex, w, n) ==
  /\ \A r \in ex : Plain(r) /\ r.call <= n
  /\ \A i \in 1..Len(w) : w[i].call <= n

(* One request of each call: on the wire or carried out.                   *)
OneEach(ex, w) ==
  /\ \A r, s \in ex : r.call = s.call => r = s
  /\ \A i \in 1..Len(w) : Plain(w[i]) => \A r \in ex : r.call # w[i].call
  /\ \A i, j \in 1..Len(w) : Plain(w[i]) /\ Plain(w[j]) /\ w[i].call = w[j].call => i = j

NotYet(ex, w, n) ==
  /\ \A r \in ex : r.call # n
  /\ \A i \in 1..Len(w) : w[i].call # n

NoLoopOff(l) == \A i \in 1..Len(l) : l[i].code # LOOP_OFF

(* Without a loop there is no LOOP_OFF, so that no command is repeated.    *)
OnceInv ==
  /\ Known(executed, wire, ncalls)
  /\ ~looped => /\ mode.state # "loop" /\ resp.code # LOOP_OFF /\ NoLoopOff(line)
                /\ OneEach(executed, wire)
                /\ pc = "write" /\ Plain(api) => NotYet(executed, wire, ncalls)

LEMMA CodesDiffer ==
  /\ \A c \in Cmds : Pass(c) # LOOP_OFF /\ Fail(c) # LOOP_OFF
  /\ LOOP_ON # LOOP_OFF /\ NoCode # LOOP_OFF /\ DamagedCode # LOOP_OFF
  /\ \A c, d \in Cmds : Pass(c) # Fail(d) /\ (Pass(c) = Pass(d) => c = d) /\ Pass(c) # LOOP_ON
  BY DEF Pass, Fail, Code, LOOP_ON, LOOP_OFF, NoCode, DamagedCode

LEMMA TakeKeepsOne ==
  ASSUME NEW ex, NEW w \in Seq(Request), w # <<>>, NEW n, Known(ex, w, n), NEW ex2,
         ex2 = ex \/ (ex2 = ex \cup {Head(w)} /\ Plain(Head(w)))
  PROVE  /\ Known(ex2, Tail(w), n)
         /\ OneEach(ex, w) => OneEach(ex2, Tail(w))
<1>1. /\ Head(w) = w[1] /\ 1 \in 1..Len(w) /\ Len(w) \in Nat
      /\ \A i \in 1..Len(Tail(w)) : Tail(w)[i] = w[i + 1] /\ i + 1 \in 1..Len(w) /\ i + 1 # 1
  BY TailFacts
<1>2. Known(ex2, Tail(w), n)
  BY <1>1 DEF Known
<1>3. ASSUME OneEach(ex, w) PROVE OneEach(ex2, Tail(w))
  <2>1. \A r, s \in ex2 : r.call = s.call => r = s
    BY <1>1, <1>3 DEF OneEach
  <2>2. \A i \in 1..Len(Tail(w)) : Plain(Tail(w)[i]) => \A r \in ex2 : r.call # Tail(w)[i].call
    BY <1>1, <1>3 DEF OneEach
  <2>3. ASSUME NEW i \in 1..Len(Tail(w)), NEW j \in 1..Len(Tail(w)),
               Plain(Tail(w)[i]), Plain(Tail(w)[j]), Tail(w)[i].call = Tail(w)[j].call
        PROVE  i = j
    <3>1. i + 1 = j + 1
      BY <1>1, <1>3, <2>3 DEF OneEach
    <3>2. QED
      BY <3>1
  <2>4. QED
    BY <2>1, <2>2, <2>3 DEF OneEach
<1>4. QED
  BY <1>2, <1>3

LEMMA AppendKeepsOne ==
  ASSUME NEW ex, NEW w \in Seq(Request), NEW r \in Request, NEW n, Known(ex, w, n), r.call = n,
         n \in Nat
  PROVE  /\ Known(ex, Append(w, r), n)
         /\ OneEach(ex, w) /\ (Plain(r) => NotYet(ex, w, n)) => OneEach(ex, Append(w, r))
<1>1. /\ Len(w) \in Nat
      /\ \A i \in 1..Len(w) : Append(w, r)[i] = w[i]
      /\ Append(w, r)[Len(w) + 1] = r
      /\ \A i \in 1..Len(Append(w, r)) : i \in 1..Len(w) \/ i = Len(w) + 1
  BY AppendFacts
<1>2. Known(ex, Append(w, r), n)
  BY <1>1 DEF Known
<1>3. ASSUME OneEach(ex, w), Plain(r) => NotYet(ex, w, n) PROVE OneEach(ex, Append(w, r))
  <2>1. \A i \in 1..Len(Append(w, r)) :
          Plain(Append(w, r)[i]) => \A s \in ex : s.call # Append(w, r)[i].call
    BY <1>1, <1>3 DEF OneEach, NotYet
  <2>2. \A i, j \in 1..Len(Append(w, r)) :
          Plain(Append(w, r)[i]) /\ Plain(Append(w, r)[j])
            /\ Append(w, r)[i].call = Append(w, r)[j].call => i = j
    BY <1>1, <1>3 DEF OneEach, NotYet
  <2>3. QED
    BY <1>3, <2>1, <2>2 DEF OneEach
<1>4. QED
  BY <1>2, <1>3

(* Frames that are put on the line keep LOOP_OFF away, if they are none.   *)
LEMMA LineKeepsOff ==
  ASSUME NEW l \in Seq(Frame), NoLoopOff(l), NEW k,
         \/ k = l
         \/ FromLine(l, k)
         \/ \E f \in Frame : k = Append(l, f) /\ f.code # LOOP_OFF
  PROVE  NoLoopOff(k)
<1>1. CASE \E f \in Frame : k = Append(l, f) /\ f.code # LOOP_OFF
  <2>1. PICK f \in Frame : k = Append(l, f) /\ f.code # LOOP_OFF
    BY <1>1
  <2>2. /\ \A i \in 1..Len(l) : Append(l, f)[i] = l[i]
        /\ Append(l, f)[Len(l) + 1] = f
        /\ \A i \in 1..Len(Append(l, f)) : i \in 1..Len(l) \/ i = Len(l) + 1
    BY AppendFacts
  <2>3. QED
    BY <2>1, <2>2 DEF NoLoopOff
<1>2. QED
  BY <1>1 DEF NoLoopOff, FromLine

LEMMA InitOnce == V2Init => OnceInv
  BY CodesDiffer DEF V2Init, OnceInv, Known, OneEach, NoLoopOff, NoResponse, Idle

LEMMA NextOnce ==
  ASSUME V2Typed, OnceInv, V2Next \/ UNCHANGED v2vars
  PROVE  OnceInv'
<1> USE DEF v2reader, v2host
<1>0. /\ V2TypeOK /\ GoodCall(api) /\ line \in Seq(Frame) /\ wire \in Seq(Request)
      /\ ncalls \in Nat /\ Known(executed, wire, ncalls)
  BY DEF V2Typed, V2TypeOK, OnceInv
(* What the host does to a call that goes on. *)
<1>1. ASSUME UNCHANGED <<executed, wire, ncalls, looped, mode, api>>,
             ~looped => (pc' = "write" /\ Plain(api) => pc = "write"),
             ~looped => resp'.code # LOOP_OFF /\ NoLoopOff(line')
      PROVE  OnceInv'
  BY <1>0, <1>1 DEF OnceInv
<1>2. ASSUME NEW c, GoodCall(c), V2Call(c) PROVE OnceInv'
  <2>1. ncalls' = ncalls + 1 /\ UNCHANGED <<executed, wire, looped, mode, resp, line>>
    BY <1>2 DEF V2Call
  <2>2. \A r \in executed : r.call \in Nat
    BY <1>0 DEF V2TypeOK, Request
  <2>3. \A i \in 1..Len(wire) : wire[i].call \in Nat
    <3>1. \A i \in 1..Len(wire) : wire[i] \in Request
      BY <1>0
    <3>2. QED
      BY <3>1 DEF Request
  <2>4. Known(executed, wire, ncalls + 1) /\ NotYet(executed, wire, ncalls + 1)
    <3>1. \A n \in Nat : n <= ncalls => n <= ncalls + 1 /\ n # ncalls + 1
      BY <1>0
    <3>2. \A r \in executed : Plain(r) /\ r.call <= ncalls + 1 /\ r.call # ncalls + 1
      BY <1>0, <2>2, <3>1 DEF Known
    <3>3. \A i \in 1..Len(wire) : wire[i].call <= ncalls + 1 /\ wire[i].call # ncalls + 1
      BY <1>0, <2>3, <3>1 DEF Known
    <3>4. QED
      BY <3>2, <3>3 DEF Known, NotYet
  <2>5. QED
    BY <2>1, <2>4 DEF OnceInv
<1>3. CASE WriteRequest
  <2>1. /\ pc = "write"
        /\ wire' = wire \/ wire' = Append(wire, BuildRequest)
        /\ UNCHANGED <<executed, ncalls, looped, mode, resp, line, api>>
    BY <1>3 DEF WriteRequest
  <2>2. BuildRequest \in Request /\ BuildRequest.call = ncalls /\ BuildRequest.cmd = api.cmd
    BY <1>0, RequestTyped DEF BuildRequest
  <2>3. /\ Known(executed, Append(wire, BuildRequest), ncalls)
        /\ ~looped => OneEach(executed, Append(wire, BuildRequest))
    <3>1. ~looped => /\ OneEach(executed, wire)
                     /\ Plain(BuildRequest) => NotYet(executed, wire, ncalls)
      BY <2>1, <2>2 DEF OnceInv, Plain
    <3>2. QED
      BY <1>0, <2>2, <3>1, AppendKeepsOne
  <2>4. pc' # "write"
    BY <1>3 DEF WriteRequest, Return, Goto
  <2>5. QED
    BY <1>0, <2>1, <2>3, <2>4 DEF OnceInv
<1>4. CASE ReadFrame
  <2>1. /\ UNCHANGED <<executed, wire, ncalls, looped, mode, api>> /\ line # <<>>
        /\ pc = "read" /\ line' \in RestOfLine
    BY <1>4 DEF ReadFrame
  <2>2. FromLine(line, line') /\ Head(line) = line[1] /\ 1 \in 1..Len(line)
    BY <1>0, <2>1, RestLeft, TailFacts
  <2>3. PICK p \in Parse(Head(line)) : Respond(p[1], p[2], Head(line))
    BY <1>4 DEF ReadFrame
  <2>4. p[2] \in {NoCode, DamagedCode, Head(line).code}
    <3>1. Head(line) \in Frame
      BY <1>0, <2>1
    <3>2. QED
      BY <3>1 DEF Parse, Frame
  <2>5. pc' # "write" /\ resp'.code \in {resp.code, p[2]}
    BY <2>1, <2>3 DEF Respond, Goto
  <2>6. ~looped => p[2] # LOOP_OFF /\ resp.code # LOOP_OFF /\ NoLoopOff(line)
    BY <2>2, <2>4, CodesDiffer DEF OnceInv, NoLoopOff
  <2>7. ~looped => NoLoopOff(line')
    BY <1>0, <2>2, <2>6, LineKeepsOff
  <2>8. QED
    BY <1>1, <2>1, <2>5, <2>6, <2>7
<1>5. CASE ReadTimeout
  BY <1>1, <1>5, CodesDiffer DEF ReadTimeout, Goto, NoResponse, OnceInv
<1>6. CASE HandleSend
  <2>1. ~looped => ~Ok(LOOP_OFF)
    BY DEF OnceInv, Ok
  <2>2. ~looped => pc' # "write"
    BY <1>6, <2>1 DEF HandleSend, SendResult, Return
  <2>3. QED
    BY <1>1, <1>6, <2>2 DEF HandleSend, OnceInv
<1>7. CASE HandleSelect \/ HandleStop \/ HandleGetTags
  <2>1. pc' # "write"
    BY <1>7 DEF HandleSelect, HandleStop, HandleGetTags, StopResult, Return, Goto
  <2>2. UNCHANGED <<executed, wire, ncalls, looped, mode, api, resp, line>>
    BY <1>7 DEF HandleSelect, HandleStop, HandleGetTags
  <2>3. QED
    BY <1>1, <2>1, <2>2 DEF OnceInv
<1>8. ASSUME NEW again \in BOOLEAN, Callback(again) PROVE OnceInv'
  <2>1. ~Plain(api)
    BY <1>0, <1>8 DEF V2Typed, GoodCall, Callback, Plain
  <2>2. UNCHANGED <<executed, wire, ncalls, looped, mode, api, resp, line>>
    BY <1>8 DEF Callback
  <2>3. QED
    BY <1>1, <2>1, <2>2 DEF OnceInv
<1>9. CASE ReaderEndLoop
  <2>1. /\ looped' = looped /\ mode.state = "loop" /\ wire' = Tail(wire) /\ wire # <<>>
        /\ UNCHANGED <<executed, ncalls>>
    BY <1>9 DEF ReaderEndLoop
  <2>2. Known(executed, Tail(wire), ncalls)
    BY <1>0, <2>1, TakeKeepsOne
  <2>3. looped
    BY <2>1 DEF OnceInv
  <2>4. QED
    BY <2>1, <2>2, <2>3 DEF OnceInv
<1>10. ASSUME wire # <<>>, wire' = Tail(wire), UNCHANGED <<pc, api, ncalls, resp>>,
              executed' = executed \/ (executed' = executed \cup {Head(wire)} /\ Plain(Head(wire))),
              ~looped' => /\ ~looped /\ mode'.state # "loop"
                          /\ \/ line' = line
                             \/ \E f \in Frame : line' = Append(line, f) /\ f.code # LOOP_OFF
       PROVE  OnceInv'
  <2>1. /\ Known(executed', wire', ncalls)
        /\ OneEach(executed, wire) => OneEach(executed', wire')
    BY <1>0, <1>10, TakeKeepsOne
  <2>2. ~looped' => NoLoopOff(line')
    BY <1>0, <1>10, LineKeepsOff DEF OnceInv
  <2>3. NotYet(executed, wire, ncalls) => NotYet(executed', wire', ncalls)
    <3>1. /\ Head(wire) = wire[1] /\ 1 \in 1..Len(wire)
          /\ \A i \in 1..Len(Tail(wire)) : Tail(wire)[i] = wire[i + 1] /\ i + 1 \in 1..Len(wire)
      BY <1>0, <1>10, TailFacts
    <3>2. QED
      BY <1>10, <3>1 DEF NotYet
  <2>4. QED
    BY <1>10, <2>1, <2>2, <2>3 DEF OnceInv
<1>11. CASE ReaderExecute
  <2>1. /\ Head(wire) \in Request /\ Head(wire).cmd \in Cmds /\ Plain(Head(wire))
        /\ mode.state = "idle" /\ wire # <<>> /\ wire' = Tail(wire)
        /\ UNCHANGED <<pc, api, ncalls, resp, looped, mode>>
    <3>1. wire # <<>> /\ Head(wire) \in Request
      BY <1>0, <1>11 DEF ReaderExecute
    <3>2. QED
      BY <1>11, <3>1 DEF ReaderExecute, Plain, Request
  <2>2. \E code \in Codes : code # LOOP_OFF /\ Emit(code, Head(wire))
    BY <1>11, <2>1, CodesTyped, CodesDiffer DEF ReaderExecute
  <2>3. line' = line \/ \E f \in Frame : line' = Append(line, f) /\ f.code # LOOP_OFF
    BY <1>0, <2>1, <2>2, EmitPuts
  <2>4. executed' = executed \/ executed' = executed \cup {Head(wire)}
    BY <1>11 DEF ReaderExecute
  <2>5. QED
    BY <1>10, <2>1, <2>3, <2>4
<1>12. CASE ReaderSelect
  <2>1. /\ wire # <<>> /\ wire' = Tail(wire) /\ mode.state = "idle" /\ Head(wire) \in Request
        /\ UNCHANGED <<pc, api, ncalls, resp, executed>>
    BY <1>0, <1>12 DEF ReaderSelect
  <2>2. looped' = (looped \/ Head(wire).loop) /\ (mode'.state = "loop" => Head(wire).loop)
    BY <1>12, <2>1 DEF ReaderSelect
  <2>3. ~looped' => ~looped /\ mode'.state # "loop"
    BY <2>2
  <2>4. line' = line \/ \E code \in Codes : code # LOOP_OFF /\ Emit(code, Head(wire))
    BY <1>12, CodesTyped, CodesDiffer DEF ReaderSelect
  <2>5. line' = line \/ \E f \in Frame : line' = Append(line, f) /\ f.code # LOOP_OFF
    BY <1>0, <2>1, <2>4, EmitPuts
  <2>6. QED
    BY <1>10, <2>1, <2>3, <2>5
<1>13. CASE ReaderFind \/ ReaderInventoryDone
  <2>1. /\ UNCHANGED <<pc, api, ncalls, resp, executed, wire, looped>>
        /\ mode'.state = "loop" => mode.state = "loop"
    BY <1>13 DEF ReaderFind, ReaderInventoryDone, Idle
  <2>2. mode.req \in Request
    BY <1>0 DEF V2TypeOK
  <2>3. \E code \in Codes : code # LOOP_OFF /\ Emit(code, mode.req)
    BY <1>13, CodesTyped, CodesDiffer DEF ReaderFind, ReaderInventoryDone
  <2>4. line' = line \/ \E f \in Frame : line' = Append(line, f) /\ f.code # LOOP_OFF
    BY <1>0, <2>2, <2>3, EmitPuts
  <2>5. ~looped => NoLoopOff(line')
    BY <1>0, <2>4, LineKeepsOff DEF OnceInv
  <2>6. QED
    BY <1>0, <2>1, <2>5 DEF OnceInv
<1>14. CASE UNCHANGED v2vars
  BY <1>14 DEF v2vars, OnceInv
<1>15. QED
  BY <1>2, <1>3, <1>4, <1>5, <1>6, <1>7, <1>8, <1>9, <1>11, <1>12, <1>13, <1>14
     DEF V2Next, V2Step, V2Read, V2Handle, V2Take

-----------------------------------------------------------------------------
(* A clean line, as long as no select loop was stopped                     *)

Steady == faulty = {} /\ ~stopped

Busy == pc \in {"read", "handle", "callback"}

(* On the wire is the request of the call in progress, and the reader      *)
(* works on no other.                                                      *)
OwnRequest ==
  Busy => /\ req.call = ncalls /\ req.cmd = api.cmd /\ req.inv = api.inv
          /\ req.loop = api.loop /\ req.auto = api.auto
          /\ \A i \in 1..Len(wire) : wire[i] = req
          /\ mode.state # "idle" => mode.req = req

(* What a call a may be answered.                                          *)
Expected(a, code) ==
  code \in (IF a.loop THEN {LOOP_ON, Pass(SELECT_TAG)} ELSE {Pass(a.cmd), Fail(a.cmd)})

OwnFrames(a, r, l) ==
  \A i \in 1..Len(l) : l[i].form = "ok" /\ l[i].req = r /\ Expected(a, l[i].code)

OwnResponse ==
  pc \in {"handle", "callback"} =>
    \/ resp.st = "SUCCESS" /\ resp.req = req /\ resp.whole /\ Expected(api, resp.code)
    \/ resp.st = "TIMEOUT" /\ api.loop

(* The reader still finds tags; or its last answer is on its way.          *)
Finding(a, m, l) ==
  \/ m.state = "loop" /\ a.loop
  \/ /\ m.state = "inventory" /\ ~a.loop /\ a.inv
     /\ \A i \in 1..Len(l) : l[i].code = Pass(SELECT_TAG)

Ending(a, m, l) ==
  /\ m.state = "idle" /\ ~a.loop /\ Len(l) > 0
  /\ \A i \in 1..Len(l) : i < Len(l) => a.inv /\ l[i].code = Pass(SELECT_TAG)
  /\ a.inv => l[Len(l)].code = Fail(SELECT_TAG)

(* The response in hand is the last one.                                   *)
LastResponse(a, r) == ~a.loop /\ r.st = "SUCCESS" /\ (a.inv => r.code = Fail(SELECT_TAG))

Phases ==
  /\ pc \in {"idle", "write"} => wire = <<>> /\ line = <<>> /\ mode.state = "idle"
  /\ pc = "read" => \/ Len(wire) = 1 /\ line = <<>> /\ mode.state = "idle"
                    \/ wire = <<>> /\ (Finding(api, mode, line) \/ Ending(api, mode, line))
  /\ pc \in {"handle", "callback"} =>
       /\ wire = <<>>
       /\ IF LastResponse(api, resp) THEN line = <<>> /\ mode.state = "idle"
          ELSE Finding(api, mode, line) \/ Ending(api, mode, line)
  /\ pc = "callback" /\ resp.st = "SUCCESS" => resp.code = Pass(SELECT_TAG)

SteadyInv == Steady => OwnRequest /\ OwnFrames(api, req, line) /\ OwnResponse /\ Phases

LEMMA FirstFrame ==
  ASSUME NEW a, NEW r, NEW m, NEW l \in Seq(Frame), l # <<>>, OwnFrames(a, r, l)
  PROVE  /\ OwnFrames(a, r, Tail(l))
         /\ Head(l).form = "ok" /\ Head(l).req = r /\ Expected(a, Head(l).code)
         /\ Finding(a, m, l) => /\ Finding(a, m, Tail(l))
                                /\ a.loop \/ (a.inv /\ Head(l).code = Pass(SELECT_TAG))
         /\ Ending(a, m, l) =>
              \/ Ending(a, m, Tail(l)) /\ a.inv /\ Head(l).code = Pass(SELECT_TAG)
              \/ Tail(l) = <<>> /\ (a.inv => Head(l).code = Fail(SELECT_TAG))
<1>1. /\ Tail(l) \in Seq(Frame) /\ Head(l) = l[1] /\ Len(l) \in Nat /\ Len(l) >= 1
      /\ Len(Tail(l)) = Len(l) - 1
      /\ \A i \in 1..Len(Tail(l)) : Tail(l)[i] = l[i + 1] /\ i + 1 \in 1..Len(l)
  BY TailFacts
<1>2. 1 \in 1..Len(l)
  BY <1>1
<1>3. OwnFrames(a, r, Tail(l)) /\ Head(l).form = "ok" /\ Head(l).req = r /\ Expected(a, Head(l).code)
  BY <1>1, <1>2 DEF OwnFrames
<1>4. Finding(a, m, l) => /\ Finding(a, m, Tail(l))
                          /\ a.loop \/ (a.inv /\ Head(l).code = Pass(SELECT_TAG))
  BY <1>1, <1>2 DEF Finding
<1>5. ASSUME Ending(a, m, l), Len(l) = 1
      PROVE  Tail(l) = <<>> /\ (a.inv => Head(l).code = Fail(SELECT_TAG))
  <2>1. Tail(l) = <<>>
    BY <1>1, <1>5, EmptyFacts
  <2>2. QED
    BY <1>1, <1>5, <2>1 DEF Ending
<1>6. ASSUME Ending(a, m, l), Len(l) # 1
      PROVE  Ending(a, m, Tail(l)) /\ a.inv /\ Head(l).code = Pass(SELECT_TAG)
  <2>1. 1 < Len(l)
    BY <1>1, <1>6
  <2>2. a.inv /\ l[1].code = Pass(SELECT_TAG)
    BY <1>2, <1>6, <2>1 DEF Ending
  <2>3. Len(Tail(l)) > 0 /\ Tail(l)[Len(Tail(l))] = l[Len(l)]
    <3>1. Len(Tail(l)) \in 1..Len(Tail(l)) /\ Len(Tail(l)) + 1 = Len(l) /\ Len(Tail(l)) > 0
      BY <1>1, <2>1
    <3>2. Tail(l)[Len(Tail(l))] = l[Len(Tail(l)) + 1]
      BY <1>1, <3>1
    <3>3. QED
      BY <3>1, <3>2
  <2>4. ASSUME NEW i \in 1..Len(Tail(l)), i < Len(Tail(l))
        PROVE  Tail(l)[i].code = Pass(SELECT_TAG)
    <3>1. i + 1 \in 1..Len(l) /\ i + 1 < Len(l)
      BY <1>1, <2>4
    <3>2. l[i + 1].code = Pass(SELECT_TAG)
      BY <1>6, <3>1 DEF Ending
    <3>3. QED
      BY <1>1, <3>2
  <2>5. QED
    BY <1>1, <1>6, <2>2, <2>3, <2>4 DEF Ending
<1>7. QED
  BY <1>3, <1>4, <1>5, <1>6

LEMMA NextFrame ==
  ASSUME NEW a, NEW r, NEW m, NEW l \in Seq(Frame), OwnFrames(a, r, l),
         NEW code, Expected(a, code), FrameOf(code, r, "ok") \in Frame
  PROVE  /\ OwnFrames(a, r, Append(l, FrameOf(code, r, "ok")))
         /\ Finding(a, m, l) /\ (~a.loop => code = Pass(SELECT_TAG)) =>
              Finding(a, m, Append(l, FrameOf(code, r, "ok")))
         /\ \A n : /\ Finding(a, m, l) /\ ~a.loop /\ code = Fail(SELECT_TAG) /\ n.state = "idle"
                   => Ending(a, n, Append(l, FrameOf(code, r, "ok")))
         /\ l = <<>> /\ m.state = "idle" /\ ~a.loop /\ ~a.inv =>
              Ending(a, m, Append(l, FrameOf(code, r, "ok")))
<1> DEFINE f == FrameOf(code, r, "ok")
           k == Append(l, f)
<1>1. /\ Len(l) \in Nat /\ Len(k) = Len(l) + 1
      /\ \A i \in 1..Len(l) : k[i] = l[i]
      /\ k[Len(l) + 1] = f
      /\ \A i \in 1..Len(k) : i \in 1..Len(l) \/ i = Len(l) + 1
  BY AppendFacts
<1>2. f.code = code /\ f.req = r /\ f.form = "ok"
  BY DEF FrameOf
<1> HIDE DEF f, k
<1>3. OwnFrames(a, r, k)
  BY <1>1, <1>2 DEF OwnFrames
<1>4. Finding(a, m, l) /\ (~a.loop => code = Pass(SELECT_TAG)) => Finding(a, m, k)
  BY <1>1, <1>2 DEF Finding
<1>5. Len(k) > 0 /\ \A i \in 1..Len(k) : i < Len(k) => i \in 1..Len(l)
  BY <1>1
<1>6. \A n : Finding(a, m, l) /\ ~a.loop /\ code = Fail(SELECT_TAG) /\ n.state = "idle"
             => Ending(a, n, k)
  BY <1>1, <1>2, <1>5 DEF Finding, Ending
<1>7. l = <<>> => Len(l) = 0
  OBVIOUS
<1>8. l = <<>> /\ m.state = "idle" /\ ~a.loop /\ ~a.inv => Ending(a, m, k)
  BY <1>1, <1>5, <1>7 DEF Ending
<1>9. QED
  BY <1>3, <1>4, <1>6, <1>8 DEF f, k

LEMMA InitSteady == V2Init => SteadyInv
  BY DEF V2Init, SteadyInv, OwnRequest, OwnFrames, OwnResponse, Phases, Busy, Idle

LEMMA StaysSteady ==
  ASSUME V2Typed, V2Next \/ UNCHANGED v2vars, Steady'
  PROVE  Steady /\ faulty = {} /\ faulty' = {} /\ stopped = FALSE /\ stopped' = FALSE /\ stopping = FALSE
<1> USE DEF v2reader, v2host
<1>1. stopped \in BOOLEAN /\ stopped' = FALSE /\ faulty' = {}
  BY NextV2Typed DEF Steady, V2Typed, V2TypeOK
<1>2. faulty' = faulty /\ (stopped' = stopped \/ stopped' = TRUE)
  BY DEF V2Next, V2Step, V2Call, WriteRequest, V2Read, ReadFrame, ReadTimeout, V2Handle, HandleSend,
     HandleSelect, HandleStop, HandleGetTags, Callback, V2Take, ReaderEndLoop, ReaderExecute,
     ReaderSelect, ReaderFind, ReaderInventoryDone, v2vars
<1>3. stopping = FALSE
  BY <1>1, <1>2 DEF V2Typed, V2TypeOK
<1>4. QED
  BY <1>1, <1>2, <1>3 DEF Steady

LEMMA NextSteady ==
  ASSUME V2Typed, SteadyInv, V2Next \/ UNCHANGED v2vars
  PROVE  SteadyInv'
<1> SUFFICES ASSUME Steady'
             PROVE  OwnRequest' /\ OwnFrames(api', req', line') /\ OwnResponse' /\ Phases'
  BY DEF SteadyInv
<1> USE DEF v2reader, v2host
<1>0. /\ faulty = {} /\ ~stopping /\ ~stopped /\ ~stopped'
      /\ OwnRequest /\ OwnFrames(api, req, line) /\ OwnResponse /\ Phases
  BY StaysSteady DEF SteadyInv
<1>a. /\ V2TypeOK /\ GoodCall(api) /\ line \in Seq(Frame) /\ wire \in Seq(Request)
      /\ req \in Request /\ api.cmd \in Cmds /\ api.inv \in BOOLEAN /\ api.loop \in BOOLEAN
      /\ (api.loop => api.cmd = SELECT_TAG) /\ (api.inv => api.cmd = SELECT_TAG)
      /\ resp.whole \in BOOLEAN
  BY DEF V2Typed, V2TypeOK, GoodCall, ProtocolCall, Response
<1>b. /\ Pass(api.cmd) \in Codes /\ Fail(api.cmd) \in Codes /\ LOOP_ON \in Codes
      /\ Pass(api.cmd) # Fail(api.cmd) /\ Pass(api.cmd) # LOOP_OFF /\ Fail(api.cmd) # LOOP_OFF
      /\ LOOP_ON # LOOP_OFF /\ Pass(api.cmd) # LOOP_ON /\ Fail(api.cmd) # LOOP_ON
      /\ Pass(SELECT_TAG) # Fail(SELECT_TAG) /\ Pass(SELECT_TAG) # LOOP_ON
      /\ Fail(SELECT_TAG) # LOOP_ON
  BY <1>a, CodesTyped, CodesDiffer DEF Fail, LOOP_ON, Code
(* The call ends. *)
<1>c. ASSUME UNCHANGED <<api, ncalls, req, resp, wire, line, mode>>, pc' = "idle",
             wire = <<>>, line = <<>>, mode.state = "idle"
      PROVE  OwnRequest' /\ OwnFrames(api', req', line') /\ OwnResponse' /\ Phases'
  BY <1>0, <1>c DEF OwnRequest, OwnFrames, OwnResponse, Phases, Busy
(* Or it goes on. *)
<1>d. ASSUME UNCHANGED <<api, ncalls, req, resp, wire, line, mode>>,
             pc \in {"handle", "callback"}, ~LastResponse(api, resp),
             \/ pc' = "read"
             \/ pc' = "callback" /\ (resp.st = "SUCCESS" => resp.code = Pass(SELECT_TAG))
      PROVE  OwnRequest' /\ OwnFrames(api', req', line') /\ OwnResponse' /\ Phases'
  BY <1>0, <1>d DEF OwnRequest, OwnResponse, Phases, Busy
<1>1. ASSUME NEW c, GoodCall(c), V2Call(c)
      PROVE  OwnRequest' /\ OwnFrames(api', req', line') /\ OwnResponse' /\ Phases'
  <2>1. /\ pc = "idle" /\ pc' = "write" /\ UNCHANGED <<wire, line, mode>>
    BY <1>1 DEF V2Call
  <2>2. wire' = <<>> /\ line' = <<>> /\ mode'.state = "idle"
    BY <1>0, <2>1 DEF Phases
  <2>3. QED
    BY <2>1, <2>2 DEF OwnRequest, OwnFrames, OwnResponse, Phases, Busy
<1>2. CASE WriteRequest
  <2>1. /\ pc = "write" /\ pc' = "read" /\ wire' = Append(wire, BuildRequest)
        /\ req' = BuildRequest /\ UNCHANGED <<api, ncalls, line, mode>>
    BY <1>0, <1>2 DEF WriteRequest, Can, Goto
  <2>2. wire = <<>> /\ line = <<>> /\ mode.state = "idle"
    BY <1>0, <2>1 DEF Phases
  <2>3. Len(wire') = 1 /\ \A i \in 1..Len(wire') : wire'[i] = BuildRequest
    BY <2>1, <2>2
  <2>4. /\ BuildRequest.call = ncalls /\ BuildRequest.cmd = api.cmd
        /\ BuildRequest.inv = api.inv /\ BuildRequest.loop = api.loop
        /\ BuildRequest.auto = api.auto
    <3>1. api.auto \in BOOLEAN
      BY <1>a DEF V2TypeOK, ProtocolCall
    <3>2. QED
      BY <1>0, <1>a, <3>1 DEF BuildRequest
  <2>5. QED
    BY <2>1, <2>2, <2>3, <2>4 DEF OwnRequest, OwnFrames, OwnResponse, Phases, Busy
<1>3. CASE ReadFrame
  <2>1. /\ pc = "read" /\ line # <<>> /\ line' \in RestOfLine
        /\ UNCHANGED <<api, ncalls, req, wire, mode>>
    BY <1>3 DEF ReadFrame
  <2>2. wire = <<>> /\ (Finding(api, mode, line) \/ Ending(api, mode, line))
    BY <1>0, <2>1 DEF Phases
  <2>3. /\ OwnFrames(api, req, Tail(line))
        /\ Head(line).form = "ok" /\ Head(line).req = req /\ Expected(api, Head(line).code)
        /\ Finding(api, mode, line) =>
             /\ Finding(api, mode, Tail(line))
             /\ api.loop \/ (api.inv /\ Head(line).code = Pass(SELECT_TAG))
        /\ Ending(api, mode, line) =>
             \/ Ending(api, mode, Tail(line)) /\ api.inv /\ Head(line).code = Pass(SELECT_TAG)
             \/ Tail(line) = <<>> /\ (api.inv => Head(line).code = Fail(SELECT_TAG))
    BY ZenonT(40), <1>0, <1>a, <2>1, FirstFrame
  <2>4. line' = Tail(line)
    BY <1>a, <2>1, <2>3, RestLeft
  <2>5. Respond("SUCCESS", Head(line).code, Head(line))
    BY <1>3, <2>3 DEF ReadFrame, Parse
  <2>6. Matches(Head(line).code)
    <3>1. req.cmd = api.cmd
      BY <1>0, <2>1 DEF OwnRequest, Busy
    <3>2. QED
      BY <1>a, <2>3, <3>1 DEF Matches, Expected, IsErrorResponse, Fail, Code
  <2>7. /\ pc' = "handle" /\ resp'.st = "SUCCESS" /\ resp'.code = Head(line).code
        /\ resp'.req = req /\ resp'.whole
    <3>1. /\ pc' = "handle"
          /\ resp' = [st |-> "SUCCESS", code |-> Head(line).code, req |-> Head(line).req,
                      whole |-> Head(line).req.auto = req.auto]
      BY <2>5, <2>6 DEF Respond, Goto
    <3>2. (Head(line).req.auto = req.auto) = TRUE
      BY <2>3
    <3>3. QED
      BY <2>3, <3>1, <3>2
  <2>8. IF LastResponse(api, resp') THEN Tail(line) = <<>> /\ mode.state = "idle"
        ELSE Finding(api, mode, Tail(line)) \/ Ending(api, mode, Tail(line))
    <3>1. CASE Finding(api, mode, line)
      BY <1>b, <2>3, <2>7, <3>1 DEF LastResponse
    <3>2. CASE Ending(api, mode, line)
      BY <1>b, <2>3, <2>7, <3>2 DEF LastResponse, Ending
    <3>3. QED
      BY <2>2, <3>1, <3>2
  <2>9. QED
    BY <1>0, <2>1, <2>2, <2>3, <2>4, <2>7, <2>8 DEF OwnRequest, OwnResponse, Phases, Busy
<1>4. CASE ReadTimeout
  <2>1. /\ pc = "read" /\ line = <<>> /\ wire = <<>> /\ mode.state # "inventory"
        /\ pc' = "handle" /\ resp' = NoResponse
        /\ UNCHANGED <<api, ncalls, req, wire, line, mode>>
    BY <1>0, <1>4 DEF ReadTimeout, Goto, Can
  <2>2. Finding(api, mode, line) /\ api.loop
    <3>1. Len(line) = 0 /\ Len(wire) = 0
      BY <2>1
    <3>2. QED
      BY <1>0, <2>1, <3>1 DEF Phases, Finding, Ending
  <2>3. resp'.st = "TIMEOUT"
    BY <2>1 DEF NoResponse
  <2>4. QED
    BY <1>0, <2>1, <2>2, <2>3 DEF OwnRequest, OwnResponse, Phases, Busy, LastResponse
<1>5. CASE HandleSend
  <2>1. /\ pc = "handle" /\ UNCHANGED <<api, ncalls, req, resp, wire, line, mode>>
        /\ api.fn \in {"Get", "Set", "SelectTag"}
    BY <1>5 DEF HandleSend
  <2>2. ~api.inv /\ ~api.loop
    BY <1>a, <2>1 DEF GoodCall
  <2>3. LastResponse(api, resp) /\ resp.code # LOOP_OFF /\ resp.st = "SUCCESS"
    BY <1>0, <1>b, <2>1, <2>2 DEF OwnResponse, LastResponse, Expected
  <2>4. pc' = "idle"
    BY <1>5, <2>3 DEF HandleSend, SendResult, Ok, Return
  <2>5. wire = <<>> /\ line = <<>> /\ mode.state = "idle"
    BY <1>0, <2>1, <2>3 DEF Phases
  <2>6. QED
    BY <1>c, <2>1, <2>4, <2>5
<1>6. CASE HandleSelect
  <2>1. /\ pc = "handle" /\ UNCHANGED <<api, ncalls, req, resp, wire, line, mode>>
        /\ api.cmd = SELECT_TAG
    BY <1>6, <1>a DEF HandleSelect, GoodCall
  <2>2. CASE resp.st = "TIMEOUT"
    <3>1. pc' = "callback" /\ ~LastResponse(api, resp)
      BY <1>6, <2>2 DEF HandleSelect, Goto, Ok, LastResponse
    <3>2. QED
      BY <1>d, <2>1, <2>2, <3>1
  <2>3. CASE Ok(Pass(SELECT_TAG)) /\ LastResponse(api, resp)
    <3>1. /\ wire = <<>> /\ line = <<>> /\ mode.state = "idle" /\ pc' = "callback"
          /\ resp.st = "SUCCESS" /\ resp.code = Pass(SELECT_TAG)
      BY <1>0, <1>6, <1>b, <2>1, <2>3 DEF Phases, HandleSelect, Goto, Ok
    <3>2. QED
      BY <1>0, <2>1, <2>3, <3>1 DEF OwnRequest, OwnResponse, Phases, Busy
  <2>4. CASE Ok(Pass(SELECT_TAG)) /\ ~LastResponse(api, resp)
    <3>1. pc' = "callback" /\ resp.code = Pass(SELECT_TAG)
      BY <1>6, <1>b, <2>1, <2>4 DEF HandleSelect, Goto, Ok
    <3>2. QED
      BY <1>d, <2>1, <2>4, <3>1
  <2>5. CASE Ok(LOOP_ON)
    <3>1. pc' = "read"
      BY <1>6, <1>b, <2>1, <2>5 DEF HandleSelect, Goto, Ok
    <3>2. ~LastResponse(api, resp)
      BY <1>0, <1>b, <2>1, <2>5 DEF OwnResponse, Expected, Ok, LastResponse
    <3>3. QED
      BY <1>d, <2>1, <3>1, <3>2
  <2>6. CASE Ok(Fail(SELECT_TAG))
    <3>1. LastResponse(api, resp)
      BY <1>0, <1>b, <2>1, <2>6 DEF OwnResponse, Expected, Ok, LastResponse
    <3>2. wire = <<>> /\ line = <<>> /\ mode.state = "idle"
      BY <1>0, <2>1, <3>1 DEF Phases
    <3>3. pc' = "idle"
      BY <1>6, <1>b, <2>1, <2>6 DEF HandleSelect, Goto, Ok, Return
    <3>4. QED
      BY <1>c, <2>1, <3>2, <3>3
  <2>7. \/ resp.st = "TIMEOUT"
        \/ Ok(Pass(SELECT_TAG)) \/ Ok(LOOP_ON) \/ Ok(Fail(SELECT_TAG))
    BY <1>0, <2>1 DEF OwnResponse, Expected, Ok
  <2>8. QED
    BY <2>2, <2>3, <2>4, <2>5, <2>6, <2>7
<1>7. CASE HandleStop
  BY <1>0, <1>7 DEF HandleStop
<1>8. CASE HandleGetTags
  <2>1. /\ pc = "handle" /\ UNCHANGED <<api, ncalls, req, resp, wire, line, mode>>
        /\ api.cmd = SELECT_TAG /\ api.inv /\ ~api.loop
    BY <1>8, <1>a DEF HandleGetTags, GoodCall
  <2>2. Ok(Pass(SELECT_TAG)) \/ Ok(Fail(SELECT_TAG))
    BY <1>0, <2>1 DEF OwnResponse, Expected, Ok
  <2>3. CASE Ok(Pass(SELECT_TAG))
    <3>1. pc' = "read" /\ ~LastResponse(api, resp)
      BY <1>8, <1>b, <2>1, <2>3 DEF HandleGetTags, Goto, Ok, LastResponse
    <3>2. QED
      BY <1>d, <2>1, <3>1
  <2>4. CASE Ok(Fail(SELECT_TAG))
    <3>1. pc' = "idle" /\ LastResponse(api, resp)
      BY <1>8, <1>b, <2>1, <2>4 DEF HandleGetTags, Return, Goto, Ok, LastResponse
    <3>2. wire = <<>> /\ line = <<>> /\ mode.state = "idle"
      BY <1>0, <2>1, <3>1 DEF Phases
    <3>3. QED
      BY <1>c, <2>1, <3>1, <3>2
  <2>5. QED
    BY <2>2, <2>3, <2>4
<1>9. ASSUME NEW again \in BOOLEAN, Callback(again)
      PROVE  OwnRequest' /\ OwnFrames(api', req', line') /\ OwnResponse' /\ Phases'
  <2>1. /\ pc = "callback" /\ UNCHANGED <<api, ncalls, req, resp, wire, line, mode>> /\ again
    BY <1>0, <1>9 DEF Callback
  <2>2. CASE resp.st = "SUCCESS" /\ ~api.inv /\ ~api.loop
    <3>1. pc' = "idle" /\ LastResponse(api, resp)
      BY <1>9, <2>1, <2>2 DEF Callback, Return, LastResponse
    <3>2. wire = <<>> /\ line = <<>> /\ mode.state = "idle"
      BY <1>0, <2>1, <3>1 DEF Phases
    <3>3. QED
      BY <1>c, <2>1, <3>1, <3>2
  <2>3. CASE ~(resp.st = "SUCCESS" /\ ~api.inv /\ ~api.loop)
    <3>1. pc' = "read"
      BY <1>9, <2>1, <2>3 DEF Callback, Goto
    <3>2. ~LastResponse(api, resp)
      BY <1>0, <1>b, <2>1, <2>3 DEF LastResponse, Phases
    <3>3. QED
      BY <1>d, <2>1, <3>1, <3>2
  <2>4. QED
    BY <2>2, <2>3
<1>10. CASE ReaderEndLoop
  <2>1. wire # <<>> /\ mode.state = "loop"
    BY <1>10 DEF ReaderEndLoop
  <2>2. pc \in {"idle", "write", "read", "handle", "callback"}
    BY <1>a DEF V2TypeOK
  <2>3. QED
    BY <1>0, <2>1, <2>2 DEF Phases
<1>e. ASSUME wire # <<>>
      PROVE  /\ pc = "read" /\ Head(wire) = req /\ Tail(wire) = <<>> /\ line = <<>>
             /\ mode.state = "idle"
             /\ req.cmd = api.cmd /\ req.inv = api.inv /\ req.loop = api.loop
  <2>1. pc = "read" /\ Len(wire) = 1 /\ line = <<>> /\ mode.state = "idle"
    <3>1. pc \in {"idle", "write", "read", "handle", "callback"}
      BY <1>a DEF V2TypeOK
    <3>2. QED
      BY <1>0, <1>e, <3>1 DEF Phases
  <2>2. Head(wire) = wire[1] /\ Len(Tail(wire)) = 0 /\ Tail(wire) \in Seq(Request)
    BY <1>a, <1>e, <2>1, TailFacts
  <2>3. Tail(wire) = <<>>
    BY <2>2, EmptyFacts
  <2>4. QED
    BY <1>0, <2>1, <2>2, <2>3 DEF OwnRequest, Busy
<1>f. \A code \in Codes, form \in {"ok"} : FrameOf(code, req, form) \in Frame
  BY <1>a DEF FrameOf, Frame
<1>11. CASE ReaderExecute
  <2>1. /\ wire # <<>> /\ wire' = <<>> /\ Head(wire) = req /\ pc = "read" /\ line = <<>>
        /\ mode.state = "idle" /\ api.cmd # SELECT_TAG /\ req.cmd = api.cmd
        /\ UNCHANGED <<pc, api, ncalls, req, resp, mode>>
    BY <1>11, <1>e DEF ReaderExecute
  <2>2. PICK code \in {Pass(api.cmd), Fail(api.cmd)} : Emit(code, req)
    BY <1>11, <2>1 DEF ReaderExecute
  <2>3. code \in Codes /\ Expected(api, code) /\ ~api.loop /\ ~api.inv
    BY <1>a, <1>b, <2>1 DEF Expected
  <2>4. line' = Append(line, FrameOf(code, req, "ok"))
    BY <1>0, <1>a, <2>2, <2>3, EmitPuts
  <2>5. OwnFrames(api, req, line') /\ Ending(api, mode, line')
    BY <1>0, <1>a, <1>f, <2>1, <2>3, <2>4, NextFrame
  <2>6. OwnRequest'
    BY <1>0, <2>1 DEF OwnRequest, Busy
  <2>7. QED
    BY <2>1, <2>5, <2>6 DEF OwnResponse, Phases
<1>12. CASE ReaderSelect
  <2>1. /\ wire # <<>> /\ wire' = <<>> /\ Head(wire) = req /\ pc = "read" /\ line = <<>>
        /\ mode.state = "idle" /\ api.cmd = SELECT_TAG
        /\ req.inv = api.inv /\ req.loop = api.loop
        /\ UNCHANGED <<pc, api, ncalls, req, resp>>
    BY <1>12, <1>e DEF ReaderSelect
  <2>2. CASE api.loop
    <3>1. mode' = [state |-> "loop", req |-> req] /\ Emit(LOOP_ON, req)
      BY <1>12, <2>1, <2>2 DEF ReaderSelect
    <3>2. Expected(api, LOOP_ON)
      BY <2>2 DEF Expected
    <3>3. line' = Append(line, FrameOf(LOOP_ON, req, "ok"))
      BY <1>0, <1>a, <1>b, <3>1, EmitPuts
    <3>4. OwnFrames(api, req, line')
      BY <1>0, <1>a, <1>b, <1>f, <3>2, <3>3, NextFrame
    <3>5. Finding(api, mode', line')
      BY <2>2, <3>1 DEF Finding
    <3>6. OwnRequest'
      BY <1>0, <2>1, <3>1 DEF OwnRequest, Busy
    <3>7. QED
      BY <2>1, <3>4, <3>5, <3>6 DEF OwnResponse, Phases
  <2>3. CASE ~api.loop /\ api.inv
    <3>1. mode' = [state |-> "inventory", req |-> req] /\ line' = line
      BY <1>12, <2>1, <2>3 DEF ReaderSelect
    <3>2. Finding(api, mode', line') /\ OwnFrames(api, req, line')
      BY <2>1, <2>3, <3>1 DEF Finding, OwnFrames
    <3>3. OwnRequest'
      BY <1>0, <2>1, <3>1 DEF OwnRequest, Busy
    <3>4. QED
      BY <2>1, <3>2, <3>3 DEF OwnResponse, Phases
  <2>4. CASE ~api.loop /\ ~api.inv
    <3>1. mode' = mode /\ \E code \in {Pass(api.cmd), Fail(api.cmd)} : Emit(code, req)
      BY <1>12, <2>1, <2>4 DEF ReaderSelect
    <3>2. PICK code \in {Pass(api.cmd), Fail(api.cmd)} : Emit(code, req)
      BY <3>1
    <3>3. code \in Codes /\ Expected(api, code)
      BY <1>b, <2>4, <3>2 DEF Expected
    <3>4. line' = Append(line, FrameOf(code, req, "ok"))
      BY <1>0, <1>a, <3>2, <3>3, EmitPuts
    <3>5. OwnFrames(api, req, line') /\ Ending(api, mode, line')
      BY <1>0, <1>a, <1>f, <2>1, <2>4, <3>3, <3>4, NextFrame
    <3>6. OwnRequest'
      BY <1>0, <2>1, <3>1 DEF OwnRequest, Busy
    <3>7. QED
      BY <2>1, <3>1, <3>5, <3>6 DEF OwnResponse, Phases
  <2>5. QED
    BY <1>a, <2>2, <2>3, <2>4
<1>g. ASSUME mode.state \in {"loop", "inventory"}
      PROVE  /\ Busy /\ wire = <<>> /\ Finding(api, mode, line) /\ mode.req = req
             /\ (mode.state = "inventory" <=> ~api.loop) /\ api.cmd = SELECT_TAG
             /\ pc \in {"handle", "callback"} => ~LastResponse(api, resp)
  <2>1. pc \in {"idle", "write", "read", "handle", "callback"} /\ mode.state # "idle"
    BY <1>a, <1>g DEF V2TypeOK
  <2>2. /\ Busy /\ wire = <<>> /\ Finding(api, mode, line)
        /\ pc \in {"handle", "callback"} => ~LastResponse(api, resp)
    BY <1>0, <1>g, <2>1 DEF Phases, Busy, Ending
  <2>3. QED
    BY <1>0, <1>a, <1>g, <2>1, <2>2 DEF OwnRequest, Finding
<1>13. CASE ReaderFind
  <2>1. /\ UNCHANGED <<pc, api, ncalls, req, resp, wire, mode>>
        /\ Busy /\ wire = <<>> /\ Finding(api, mode, line) /\ mode.req = req
        /\ api.cmd = SELECT_TAG
        /\ pc \in {"handle", "callback"} => ~LastResponse(api, resp)
    BY <1>13, <1>g DEF ReaderFind
  <2>2. Emit(Pass(SELECT_TAG), req) /\ Expected(api, Pass(SELECT_TAG)) /\ Pass(SELECT_TAG) \in Codes
    BY <1>13, <1>b, <2>1 DEF ReaderFind, Expected
  <2>3. line' = Append(line, FrameOf(Pass(SELECT_TAG), req, "ok"))
    BY <1>0, <1>a, <2>2, EmitPuts
  <2>4. OwnFrames(api, req, line') /\ Finding(api, mode, line')
    BY <1>0, <1>a, <1>f, <2>1, <2>2, <2>3, NextFrame
  <2>5. OwnRequest' /\ OwnResponse'
    BY <1>0, <2>1 DEF OwnRequest, OwnResponse, Busy
  <2>6. Phases'
    BY <1>0, <2>1, <2>4 DEF Phases, Busy
  <2>7. QED
    BY <2>1, <2>4, <2>5, <2>6
<1>14. CASE ReaderInventoryDone
  <2>1. /\ UNCHANGED <<pc, api, ncalls, req, resp, wire>> /\ mode'.state = "idle"
        /\ Busy /\ wire = <<>> /\ Finding(api, mode, line) /\ mode.req = req
        /\ api.cmd = SELECT_TAG /\ ~api.loop
        /\ pc \in {"handle", "callback"} => ~LastResponse(api, resp)
    BY <1>14, <1>g DEF ReaderInventoryDone, Idle
  <2>2. Emit(Fail(SELECT_TAG), req) /\ Expected(api, Fail(SELECT_TAG)) /\ Fail(SELECT_TAG) \in Codes
    BY <1>14, <1>b, <1>g, <2>1 DEF ReaderInventoryDone, Expected
  <2>3. line' = Append(line, FrameOf(Fail(SELECT_TAG), req, "ok"))
    BY <1>0, <1>a, <2>2, EmitPuts
  <2>4. OwnFrames(api, req, line') /\ Ending(api, mode', line')
    BY <1>0, <1>a, <1>f, <2>1, <2>2, <2>3, NextFrame
  <2>5. OwnRequest' /\ OwnResponse'
    BY <1>0, <2>1 DEF OwnRequest, OwnResponse, Busy
  <2>6. Phases'
    BY <1>0, <2>1, <2>4 DEF Phases, Busy
  <2>7. QED
    BY <2>1, <2>4, <2>5, <2>6
<1>15. CASE UNCHANGED v2vars
  BY <1>0, <1>15 DEF v2vars, OwnRequest, OwnResponse, Phases, Busy
<1>16. QED
  BY <1>1, <1>2, <1>3, <1>4, <1>5, <1>6, <1>7, <1>8, <1>9, <1>10, <1>11, <1>12, <1>13, <1>14,
     <1>15
     DEF V2Next, V2Step, V2Read, V2Handle, V2Take

-----------------------------------------------------------------------------
(* A command that succeeds was carried out                                 *)

(* What the reader said it carried out, it did carry out.                  *)
PassesDone(l, ex) ==
  \A i \in 1..Len(l) : l[i].code.kind = "PASS" /\ Plain(l[i].code) => l[i].req \in ex

DoneBy(ex, n) == \E r \in ex : r.call = n

EffectInv ==
  /\ PassesDone(line, executed)
  /\ Steady /\ pc = "handle" /\ resp.st = "SUCCESS" /\ resp.code.kind = "PASS" /\ Plain(api) =>
       DoneBy(executed, ncalls)
  /\ Steady /\ pc = "idle" /\ ncalls > 0 /\ ret = "SUCCESS" /\ Plain(api) =>
       DoneBy(executed, ncalls)

LEMMA KeepsPasses ==
  ASSUME NEW l \in Seq(Frame), NEW ex, PassesDone(l, ex), NEW k, NEW ex2, ex \subseteq ex2,
         \/ k = l
         \/ FromLine(l, k)
         \/ \E f \in Frame : /\ k = Append(l, f)
                             /\ f.code.kind = "PASS" /\ Plain(f.code) => f.req \in ex2
  PROVE  PassesDone(k, ex2)
<1>1. CASE k = l \/ FromLine(l, k)
  BY <1>1 DEF PassesDone, FromLine
<1>2. CASE \E f \in Frame : /\ k = Append(l, f)
                            /\ f.code.kind = "PASS" /\ Plain(f.code) => f.req \in ex2
  <2>1. PICK f \in Frame : /\ k = Append(l, f)
                           /\ f.code.kind = "PASS" /\ Plain(f.code) => f.req \in ex2
    BY <1>2
  <2>2. /\ \A i \in 1..Len(l) : k[i] = l[i]
        /\ k[Len(l) + 1] = f
        /\ \A i \in 1..Len(k) : i \in 1..Len(l) \/ i = Len(l) + 1
    BY <2>1, AppendFacts
  <2>3. QED
    BY <2>1, <2>2 DEF PassesDone
<1>3. QED
  BY <1>1, <1>2

(* A success in hand is a frame of the line, as it is.                     *)
LEMMA ReadSucceeds ==
  ASSUME V2TypeOK, ReadFrame, pc' = "handle", resp'.st = "SUCCESS"
  PROVE  /\ line # <<>> /\ resp'.code = Head(line).code /\ resp'.req = Head(line).req
         /\ Head(line) = line[1] /\ 1 \in 1..Len(line)
<1>1. line # <<>> /\ pc = "read" /\ line \in Seq(Frame)
  BY DEF ReadFrame, V2TypeOK
<1>2. Head(line) \in Frame /\ Head(line) = line[1] /\ 1 \in 1..Len(line)
  BY <1>1, TailFacts
<1>3. PICK p \in Parse(Head(line)) : Respond(p[1], p[2], Head(line))
  BY DEF ReadFrame
<1>4. /\ resp'.st = p[1] /\ resp'.code = p[2] /\ resp'.req = Head(line).req
  BY <1>1, <1>3 DEF Respond
<1>5. p[1] = "SUCCESS" => p[2] = Head(line).code
  BY <1>2 DEF Parse, Frame
<1>6. QED
  BY <1>1, <1>2, <1>4, <1>5

LEMMA PassKinds ==
  /\ \A c \in Cmds : /\ Pass(c).kind = "PASS" /\ Pass(c).cmd = c
                     /\ Fail(c).kind = "FAIL" /\ GetStatus(Fail(c)) = "FAILURE"
  /\ LOOP_ON.kind = "LOOP_ON" /\ LOOP_OFF.kind = "LOOP_OFF"
  /\ LOOP_ON.cmd = SELECT_TAG /\ LOOP_OFF.cmd = SELECT_TAG
  BY DEF Pass, Fail, Code, LOOP_ON, LOOP_OFF, GetStatus

LEMMA InitEffect == V2Init => EffectInv
<1> SUFFICES ASSUME V2Init PROVE EffectInv
  OBVIOUS
<1>1. line = <<>> /\ pc = "idle" /\ ~(ncalls > 0)
  BY DEF V2Init
<1>2. PassesDone(line, executed)
  BY <1>1 DEF PassesDone
<1>3. QED
  BY <1>1, <1>2 DEF EffectInv

LEMMA NextEffect ==
  ASSUME V2Typed, SteadyInv, EffectInv, V2Next \/ UNCHANGED v2vars
  PROVE  EffectInv'
<1> USE DEF v2reader, v2host
<1>0. /\ V2TypeOK /\ GoodCall(api) /\ line \in Seq(Frame) /\ wire \in Seq(Request)
      /\ PassesDone(line, executed) /\ mode.req \in Request /\ api.cmd \in Cmds
      /\ SELECT_TAG \in Cmds
  BY CodesTyped DEF V2Typed, V2TypeOK, EffectInv, ProtocolCall
<1>a. /\ Steady' => Steady /\ ~stopping
      /\ Steady' => OwnRequest' /\ OwnResponse'
  BY StaysSteady, NextSteady DEF SteadyInv
<1>b. /\ Steady /\ pc = "handle" /\ resp.st = "SUCCESS" /\ resp.code.kind = "PASS" /\ Plain(api)
           => DoneBy(executed, ncalls)
      /\ Steady /\ pc = "idle" /\ ncalls > 0 /\ ret = "SUCCESS" /\ Plain(api)
           => DoneBy(executed, ncalls)
  BY DEF EffectInv
(* The host goes on, and has no success in its hands.                      *)
<1>c. ASSUME UNCHANGED <<executed, line, api, ncalls>>,
             Steady' /\ Plain(api) => pc' \notin {"handle", "idle"}
      PROVE  EffectInv'
  BY <1>0, <1>c DEF EffectInv
(* The reader does its part.                                               *)
<1>d. ASSUME executed \subseteq executed', UNCHANGED <<pc, api, ncalls, resp, ret>>,
             \/ line' = line
             \/ \E f \in Frame :
                  /\ line' = Append(line, f)
                  /\ f.code.kind = "PASS" /\ Plain(f.code) => f.req \in executed'
      PROVE  EffectInv'
  <2>1. PassesDone(line', executed')
    BY <1>0, <1>d, KeepsPasses
  <2>2. DoneBy(executed, ncalls) => DoneBy(executed', ncalls)
    BY <1>d DEF DoneBy
  <2>3. QED
    BY <1>a, <1>b, <1>d, <2>1, <2>2 DEF EffectInv
<1>1. ASSUME NEW c, GoodCall(c), V2Call(c) PROVE EffectInv'
  <2>1. UNCHANGED <<executed, line>> /\ pc' = "write"
    BY <1>1 DEF V2Call
  <2>2. QED
    BY <1>0, <2>1 DEF EffectInv
<1>2. CASE WriteRequest
  <2>1. Steady' => pc' = "read"
    BY <1>2, <1>a DEF WriteRequest, Goto, Can, Steady
  <2>2. UNCHANGED <<executed, line, api, ncalls>>
    BY <1>2 DEF WriteRequest
  <2>3. QED
    BY <1>c, <2>1, <2>2
<1>3. CASE ReadFrame
  <2>1. /\ UNCHANGED <<executed, api, ncalls>> /\ line' \in RestOfLine /\ line # <<>>
        /\ pc' \in {"read", "handle"}
    BY <1>3 DEF ReadFrame, Respond, Goto
  <2>2. PassesDone(line', executed')
    BY <1>0, <2>1, RestLeft, KeepsPasses
  <2>3. ASSUME Steady', pc' = "handle", resp'.st = "SUCCESS", resp'.code.kind = "PASS", Plain(api')
        PROVE  DoneBy(executed', ncalls')
    <3>1. /\ resp'.code = line[1].code /\ resp'.req = line[1].req /\ 1 \in 1..Len(line)
      BY <1>0, <1>3, <2>3, ReadSucceeds
    <3>2. /\ resp'.req.call = ncalls' /\ Expected(api', resp'.code)
      BY <1>a, <2>3 DEF OwnRequest, OwnResponse, Busy
    <3>3. Plain(resp'.code)
      <4>1. ~api'.loop
        BY <1>0, <2>1, <2>3 DEF GoodCall, Plain
      <4>2. QED
        BY <1>0, <2>1, <2>3, <3>2, <4>1, PassKinds DEF Expected, Plain
    <3>4. resp'.req \in executed
      BY <1>0, <2>3, <3>1, <3>3 DEF PassesDone
    <3>5. QED
      BY <2>1, <3>2, <3>4 DEF DoneBy
  <2>4. QED
    BY <2>1, <2>2, <2>3 DEF EffectInv
<1>4. CASE ReadTimeout
  <2>1. pc' = "handle" /\ resp'.st = "TIMEOUT" /\ UNCHANGED <<executed, line>>
    BY <1>4 DEF ReadTimeout, Goto, NoResponse
  <2>2. QED
    BY <1>0, <2>1 DEF EffectInv
<1>5. CASE HandleSend
  <2>1. /\ pc = "handle" /\ UNCHANGED <<executed, line, api, ncalls>> /\ pc' # "handle"
    BY <1>5 DEF HandleSend, SendResult, Return, Goto
  <2>2. ASSUME Steady', pc' = "idle", ret' = "SUCCESS", Plain(api)
        PROVE  DoneBy(executed, ncalls)
    <3>1. Steady /\ OwnResponse
      BY <1>a, <2>2 DEF SteadyInv
    <3>2. resp.st = "SUCCESS" /\ GetStatus(resp.code) = "SUCCESS"
      BY <1>5, <2>2 DEF HandleSend, SendResult, Return, Goto
    <3>3. resp.code.kind = "PASS"
      BY <3>2 DEF GetStatus
    <3>4. QED
      BY <1>b, <2>1, <2>2, <3>1, <3>2, <3>3
  <2>3. QED
    BY <1>0, <2>1, <2>2 DEF EffectInv
<1>6. CASE HandleSelect \/ HandleGetTags
  <2>1. UNCHANGED <<executed, line, api, ncalls>> /\ ~Plain(api)
    BY <1>0, <1>6 DEF HandleSelect, HandleGetTags, GoodCall, Plain
  <2>2. QED
    BY <1>c, <2>1
<1>7. CASE HandleStop
  <2>1. UNCHANGED <<executed, line, api, ncalls>> /\ stopping
    BY <1>7 DEF HandleStop
  <2>2. QED
    BY <1>a, <1>c, <2>1
<1>8. ASSUME NEW again \in BOOLEAN, Callback(again) PROVE EffectInv'
  <2>1. UNCHANGED <<executed, line, api, ncalls>> /\ ~Plain(api)
    BY <1>0, <1>8 DEF Callback, GoodCall, V2Typed, Plain
  <2>2. QED
    BY <1>c, <2>1
<1>9. CASE ReaderEndLoop
  <2>1. /\ wire # <<>> /\ UNCHANGED <<executed, pc, api, ncalls, resp, ret>>
        /\ Emit(LOOP_OFF, Head(wire)) /\ Head(wire) \in Request
    BY <1>0, <1>9 DEF ReaderEndLoop
  <2>2. line' = line \/ \E f \in Frame : line' = Append(line, f) /\ f.code = LOOP_OFF
    BY <1>0, <2>1, CodesTyped, EmitPuts
  <2>3. QED
    BY <1>d, <2>1, <2>2, PassKinds
<1>10. CASE ReaderExecute
  <2>1. /\ wire # <<>> /\ UNCHANGED <<pc, api, ncalls, resp, ret>>
        /\ executed \subseteq executed' /\ Head(wire) \in Request
    BY <1>0, <1>10 DEF ReaderExecute
  <2>2. Head(wire).cmd \in Cmds
    BY <2>1 DEF Request
  <2>3. \E code \in Codes : /\ Emit(code, Head(wire))
                            /\ code.kind = "PASS" => Head(wire) \in executed'
    BY <1>10, <2>2, CodesTyped, PassKinds DEF ReaderExecute
  <2>4. \/ line' = line
        \/ \E f \in Frame : /\ line' = Append(line, f)
                            /\ f.code.kind = "PASS" /\ Plain(f.code) => f.req \in executed'
    BY <1>0, <2>1, <2>3, EmitPuts
  <2>5. QED
    BY <1>d, <2>1, <2>4
<1>11. CASE ReaderSelect
  <2>1. /\ wire # <<>> /\ UNCHANGED <<executed, pc, api, ncalls, resp, ret>>
        /\ Head(wire) \in Request
    BY <1>0, <1>11 DEF ReaderSelect
  <2>2. line' = line \/ \E code \in Codes : code.cmd = SELECT_TAG /\ Emit(code, Head(wire))
    BY <1>0, <1>11, CodesTyped, PassKinds DEF ReaderSelect, Pass, Fail, Code
  <2>3. line' = line \/ \E f \in Frame : line' = Append(line, f) /\ f.code.cmd = SELECT_TAG
    BY <1>0, <2>1, <2>2, EmitPuts
  <2>4. QED
    BY <1>d, <2>1, <2>3 DEF Plain
<1>12. CASE ReaderFind \/ ReaderInventoryDone
  <2>1. UNCHANGED <<executed, pc, api, ncalls, resp, ret>>
    BY <1>12 DEF ReaderFind, ReaderInventoryDone
  <2>2. \E code \in Codes : code.cmd = SELECT_TAG /\ Emit(code, mode.req)
    BY <1>0, <1>12, CodesTyped DEF ReaderFind, ReaderInventoryDone, Pass, Fail, Code
  <2>3. line' = line \/ \E f \in Frame : line' = Append(line, f) /\ f.code.cmd = SELECT_TAG
    BY <1>0, <2>2, EmitPuts
  <2>4. QED
    BY <1>d, <2>1, <2>3 DEF Plain
<1>13. CASE UNCHANGED v2vars
  BY <1>13, <1>d DEF v2vars
<1>14. QED
  BY <1>1, <1>2, <1>3, <1>4, <1>5, <1>6, <1>7, <1>8, <1>9, <1>10, <1>11, <1>12, <1>13
     DEF V2Next, V2Step, V2Read, V2Handle, V2Take

(* GetTags has tags from the answers to SELECT_TAG only.                   *)
GotInv ==
  got => /\ api.fn = "GetTags"
         /\ Steady /\ resp.st = "SUCCESS" => resp.code \in {Pass(SELECT_TAG), Fail(SELECT_TAG)}

LEMMA InitGot == V2Init => GotInv
  BY DEF V2Init, GotInv

LEMMA NextGot ==
  ASSUME V2Typed, SteadyInv, GotInv, V2Next \/ UNCHANGED v2vars
  PROVE  GotInv'
<1> USE DEF v2reader, v2host
<1>0. V2TypeOK /\ GoodCall(api)
  BY DEF V2Typed
<1>a. /\ Steady' => Steady
      /\ Steady' => OwnResponse'
  BY StaysSteady, NextSteady DEF SteadyInv
<1>b. ASSUME UNCHANGED <<api, got, resp>> PROVE GotInv'
  BY <1>a, <1>b DEF GotInv
<1>1. ASSUME NEW c, GoodCall(c), V2Call(c) PROVE GotInv'
  BY <1>1 DEF V2Call, GotInv
<1>2. CASE ReadFrame
  <2>1. UNCHANGED <<api, got>> /\ (pc' = "handle" \/ resp' = resp)
    BY <1>2 DEF ReadFrame, Respond, Goto
  <2>2. ASSUME got', Steady', pc' = "handle", resp'.st = "SUCCESS"
        PROVE  resp'.code \in {Pass(SELECT_TAG), Fail(SELECT_TAG)}
    <3>1. Expected(api, resp'.code)
      BY <1>a, <2>1, <2>2 DEF OwnResponse
    <3>2. api.fn = "GetTags" /\ api.cmd = SELECT_TAG /\ ~api.loop
      BY <1>0, <2>1, <2>2 DEF GotInv, GoodCall
    <3>3. QED
      BY <3>1, <3>2 DEF Expected
  <2>3. QED
    BY <1>a, <2>1, <2>2 DEF GotInv
<1>3. CASE ReadTimeout
  BY <1>3 DEF ReadTimeout, NoResponse, GotInv
<1>4. CASE HandleGetTags
  <2>1. /\ UNCHANGED <<api, resp>> /\ api.fn = "GetTags"
        /\ got' = got \/ Ok(Pass(SELECT_TAG))
    BY <1>4 DEF HandleGetTags
  <2>2. QED
    BY <1>a, <2>1 DEF GotInv, Ok
<1>5. ASSUME NEW again \in BOOLEAN, Callback(again) PROVE GotInv'
  BY <1>5, <1>b DEF Callback
<1>6. CASE WriteRequest \/ HandleSend \/ HandleSelect \/ HandleStop
  BY <1>6, <1>b DEF WriteRequest, HandleSend, HandleSelect, HandleStop
<1>7. CASE V2Take \/ ReaderFind \/ ReaderInventoryDone \/ UNCHANGED v2vars
  BY <1>7, <1>b DEF V2Take, ReaderEndLoop, ReaderExecute, ReaderSelect, ReaderFind,
     ReaderInventoryDone, v2vars
<1>8. QED
  BY <1>1, <1>2, <1>3, <1>4, <1>5, <1>6, <1>7 DEF V2Next, V2Step, V2Read, V2Handle
=============================================================================
