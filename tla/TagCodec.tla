------------------------------ MODULE TagCodec ------------------------------
(***************************************************************************)
(* The shape all tag functions of src/SkyeTekAPI/Tag share: steps that     *)
(* write a request into a buffer, one call of the protocol, and steps that *)
(* read the answer into the caller's variables.                            *)
(*                                                                         *)
(* A step is a call of one of the functions of Asn1; a function of the tag *)
(* modules is a sequence of steps.  The rest of the module is the other    *)
(* end: what a card that knows the grammar makes of the octets.            *)
(***************************************************************************)
EXTENDS Asn1, TLC

Step(do, v) == <<[do |-> do, v |-> v]>>

(* What a function does: the check of its arguments, the function of the   *)
(* protocol it calls, the size of its buffer (0: it has none) and the      *)
(* steps that write into it, or the octets it puts there itself, and, for  *)
(* a function that is answered, the sizes of an answer it looks at, what   *)
(* it returns for another one, and the steps that read.                    *)
Sends(cmd, valid, buffer, writes) ==
  [cmd |-> cmd, valid |-> valid, buffer |-> buffer, writes |-> writes, raw |-> <<>>,
   answered |-> FALSE, sizes |-> Nat \ {0}, empty |-> "READER_PROTOCOL_ERROR",
   mode |-> "ENCODE", reads |-> <<>>, ids |-> "none", checked |-> FALSE]

Asks(cmd, valid, buffer, writes, mode, reads) ==
  [Sends(cmd, valid, buffer, writes) EXCEPT
     !.mode = mode, !.reads = reads, !.answered = TRUE]

(* Steps that write. *)
INT(w)            == Step("write_integer", <<w>>)
ENUM(w)           == Step("write_enumerated", <<w>>)
BOOL(b)           == Step("write_boolean", <<b>>)
OCTETS(s)         == Step("write_octet_string", s)
SEQUENCE(steps)   == Step("start_sequence", <<>>) \o steps \o Step("finish_sequence", <<>>)
CONTEXT(n, steps) == Step("start_context_specific", <<n>>) \o steps
                       \o Step("finish_context_specific", <<>>)

(* Steps that read into the caller's variable f.  PEEK(n, st) ends the     *)
(* function with st unless n is the tag that comes next; OPTIONAL skips    *)
(* its steps then.                                                         *)
READ_UINT(f)        == Step("read_integer", <<f, 4>>)
READ_USHORT(f)      == Step("read_integer", <<f, 2>>)
READ_UCHAR(f)       == Step("read_integer", <<f, 1>>)
READ_ENUM(f)        == Step("read_enumerated", <<f>>)
READ_BOOL(f)        == Step("read_boolean", <<f>>)
READ_OCTETS(f, max) == Step("read_octet_string", <<f, max>>)
PEEK(n, st)         == Step("peek", <<n, st>>)
OPTIONAL(n, steps)  == Step("skip", <<n, Len(steps)>>) \o steps
READ_OCTET(f)       == Step("read_octet", <<f>>)
READ_WORD(f)        == Step("read_word", <<f>>)   \* two octets, the high one first

-----------------------------------------------------------------------------
(* Writing a request.  The size of the request is what finalize returns:   *)
(* minus the number of errors when something did not fit.                  *)

WriteStep(ctx, s) ==
  CASE s.do = "write_integer"           -> st_asn1_write_integer(ctx, s.v[1])
    [] s.do = "write_enumerated"        -> st_asn1_write_enumerated(ctx, s.v[1])
    [] s.do = "write_boolean"           -> st_asn1_write_boolean(ctx, s.v[1] # 0)
    [] s.do = "write_octet_string"      -> st_asn1_write_octet_string(ctx, s.v)
    [] s.do = "start_sequence"          -> st_asn1_start_sequence(ctx)
    [] s.do = "finish_sequence"         -> st_asn1_finish_sequence(ctx)
    [] s.do = "start_context_specific"  -> st_asn1_start_context_specific(ctx, s.v[1])
    [] s.do = "finish_context_specific" -> st_asn1_finish_context_specific(ctx)

(* The context after each of the steps. *)
Writing(steps, cap) ==
  LET ctx[k \in 0..Len(steps)] ==
        IF k = 0 THEN st_asn1_init("ENCODE", <<>>, cap) ELSE WriteStep(ctx[k - 1], steps[k])
  IN  ctx

Encode(steps, cap) ==
  LET ctx == Writing(steps, cap)[Len(steps)]
  IN  [size |-> st_asn1_finalize(ctx), octets |-> Written(ctx)]

-----------------------------------------------------------------------------
(* Reading an answer.  Most functions read in mode "ENCODE": their start   *)
(* and finish calls write headers over those of the answer.  w and i are   *)
(* the locals the values pass through: a read that fails leaves the value  *)
(* of an earlier one in them.                                              *)

Into(r, f, val) == [r EXCEPT !.out = (f :> val) @@ @]

(* The cast of w to the unsigned variable of the caller, of so many octets.*)
(* An unsigned int is written as its two halves: TLC has no room for 2^32. *)
HighLow(w) == <<(w \div 65536) % 65536, w % 65536>>
Unsigned(octets, w) ==
  CASE octets = 1 -> <<w % 256>>
    [] octets = 2 -> <<w % 65536>>
    [] octets = 4 -> HighLow(w)

ReadStep(r, s) ==
  LET c == r.ctx IN
  IF r.st # "SUCCESS" THEN r
  ELSE IF r.skip > 0 THEN [r EXCEPT !.skip = @ - 1]
  ELSE CASE s.do = "read_integer" ->
         LET w == st_asn1_read_integer(c, r.w)
         IN  Into([r EXCEPT !.w = w, !.ctx = Advance(c, ST_INTEGER, 9)], s.v[1],
                  Unsigned(s.v[2], w))
    [] s.do = "read_enumerated" ->
         LET w == st_asn1_read_enumerated(c, r.w)
         IN  Into([r EXCEPT !.w = w, !.ctx = Advance(c, ST_ENUMERATED, 9)], s.v[1], <<w>>)
    [] s.do = "read_boolean" ->
         LET b == st_asn1_read_boolean(c, r.i # 0)
             i == IF b THEN 1 ELSE 0
         IN  Into([r EXCEPT !.i = i, !.ctx = Advance(c, ST_BOOLEAN, 1)], s.v[1], <<i>>)
    [] s.do = "read_octet_string" ->
         Into([r EXCEPT !.ctx = Advance(c, ST_OCTET_STRING, s.v[2])], s.v[1],
              st_asn1_read_octet_string(c, s.v[2], <<>>))
    [] s.do = "read_octet" ->
         Into([r EXCEPT !.ctx.pos = @ + 1], s.v[1], <<At(c, 1)>>)
    [] s.do = "read_word" ->
         Into([r EXCEPT !.ctx.pos = @ + 2], s.v[1], <<256 * At(c, 1) + At(c, 2)>>)
    [] s.do = "peek" -> IF st_asn1_peek(c) = s.v[1] THEN r ELSE [r EXCEPT !.st = s.v[2]]
    [] s.do = "skip" -> IF st_asn1_peek(c) = s.v[1] THEN r ELSE [r EXCEPT !.skip = s.v[2]]
    [] OTHER -> [r EXCEPT !.ctx = WriteStep(c, s)]

Unread(mode, octets) ==
  [ctx |-> st_asn1_init(mode, octets, Len(octets)), w |-> 0, i |-> 0, skip |-> 0,
   out |-> <<>>, st |-> "SUCCESS"]

Reading(mode, steps, octets) ==
  LET r[k \in 0..Len(steps)] ==
        IF k = 0 THEN Unread(mode, octets) ELSE ReadStep(r[k - 1], steps[k])
  IN  r

Decode(mode, steps, octets) == Reading(mode, steps, octets)[Len(steps)]

-----------------------------------------------------------------------------
(* The card (external).  It takes the octets of a request apart into the   *)
(* elements of the grammar; the elements of a grammar are written like the *)
(* steps, with the constructors below.                                     *)

Element(tag, v)   == <<[tag |-> tag, v |-> v]>>
INTEGER(n)        == Element("INTEGER", <<n>>)
ENUMERATED(n)     == Element("ENUMERATED", <<n>>)
BOOLEAN_(n)       == Element("BOOLEAN", <<n>>)
OCTET_STRING(s)   == Element("OCTET-STRING", s)
Braces(elements)  == Element("SEQUENCE", <<>>) \o elements \o Element("END", <<>>)
Tagged(n, elements) == Element("CHOICE", <<n>>) \o elements \o Element("END", <<>>)

ElementOf(id, s) ==
  CASE id = ST_INTEGER      -> INTEGER(OctetsInteger(s))
    [] id = ST_ENUMERATED   -> ENUMERATED(OctetsInteger(s))
    [] id = ST_BOOLEAN      -> BOOLEAN_(IF s[1] = 0 THEN 0 ELSE 1)
    [] id = ST_OCTET_STRING -> OCTET_STRING(s)
    [] OTHER                -> Element("UNKNOWN", <<id>>)

Drop(s, n) == SubSeq(s, n + 1, Len(s))

(* The octets that the length of the first element takes, and that it has. *)
SizeOctets(s) == IF s[2] < 128 THEN 1 ELSE s[2] - 127
ContentSize(s) ==
  IF SizeOctets(s) = 1 THEN s[2] ELSE Number[SubSeq(s, 3, SizeOctets(s) + 1)]
WholeSize(s) == 1 + SizeOctets(s) + ContentSize(s)

(* Sequences have an indefinite length and end in two zeros. *)
Elements[s \in OctetStrings] ==
  IF s = <<>> THEN <<>>
  ELSE IF Len(s) = 1 THEN Element("UNKNOWN", s)
  ELSE CASE s[1] = 0 /\ s[2] = 0 -> Element("END", <<>>) \o Elements[Drop(s, 2)]
         [] s[1] = 48 /\ s[2] = 128 -> Element("SEQUENCE", <<>>) \o Elements[Drop(s, 2)]
         [] s[1] \in 160..190 /\ s[2] = 128 ->
              Element("CHOICE", <<s[1] - 160>>) \o Elements[Drop(s, 2)]
         [] OTHER ->
              IF 1 + SizeOctets(s) > Len(s) \/ WholeSize(s) > Len(s) THEN Element("UNKNOWN", s)
              ELSE ElementOf(s[1], SubSeq(s, 2 + SizeOctets(s), WholeSize(s)))
                     \o Elements[Drop(s, WholeSize(s))]
=============================================================================
