-------------------------------- MODULE Asn1 --------------------------------
(***************************************************************************)
(* The encoder and decoder of src/SkyeTekAPI/Protocol/asn1.c, in which the *)
(* DESFire functions write their requests and read the answers.            *)
(*                                                                         *)
(* A context walks over a buffer.  The same start and finish functions     *)
(* write a header when the mode is "ENCODE" and read one when it is        *)
(* "DECODE"; the read functions look at the buffer whatever the mode is.   *)
(* Values are Integers of at most 32 bits; tags are below 31 (no caller    *)
(* uses others), so that a tag is one octet.                               *)
(***************************************************************************)
EXTENDS Integers, Sequences

(* cap: the length of the buffer.  data holds the octets of the buffer     *)
(* that were ever set.                                                     *)
st_asn1_init(mode, data, cap) ==
  [mode |-> mode, data |-> data, cap |-> cap, pos |-> 0, errors |-> 0]

(* The length of what was written, or minus the number of errors. *)
st_asn1_finalize(ctx) == IF ctx.errors > 0 THEN -ctx.errors ELSE ctx.pos

Written(ctx) == SubSeq(ctx.data, 1, ctx.pos)
Failed(ctx)  == [ctx EXCEPT !.errors = @ + 1]

UNIVERSAL        == 0
CONTEXT_SPECIFIC == 128
PRIMITIVE        == 0
CONSTRUCTED      == 32
ST_BOOLEAN       == 1
ST_INTEGER       == 2
ST_OCTET_STRING  == 4
ST_ENUMERATED    == 10
ST_SEQUENCE      == 16

-----------------------------------------------------------------------------
(* Octets *)

Base256[n \in Nat] ==
  IF n < 256 THEN <<n>> ELSE Append(Base256[n \div 256], n % 256)

Byte == 0..255
OctetStrings == Seq(Byte)

Number[s \in OctetStrings] ==
  IF s = <<>> THEN 0 ELSE Number[SubSeq(s, 1, Len(s) - 1)] * 256 + s[Len(s)]

(* A length of zero is written as "indefinite". *)
LengthOctets(n) ==
  CASE n = 0  -> <<128>>
    [] n > 0 /\ n < 128 -> <<n>>
    [] OTHER  -> <<128 + Len(Base256[n])>> \o Base256[n]

(* The shortest two's complement form. *)
UnpaddedInteger(w) == Base256[IF w < 0 THEN -w - 1 ELSE w]  \* mutant: the sign octet is missing

IntegerOctets(w) ==
  LET m == Base256[IF w < 0 THEN -w - 1 ELSE w]
      p == IF m[1] >= 128 THEN <<0>> \o m ELSE m
  IN  IF w < 0 THEN [i \in DOMAIN p |-> 255 - p[i]] ELSE p

OctetsInteger(s) ==
  IF s[1] >= 128 THEN -Number[[i \in DOMAIN s |-> 255 - s[i]]] - 1 ELSE Number[s]

-----------------------------------------------------------------------------
(* Writing *)

Put(ctx, octets) ==
  [ctx EXCEPT !.data = SubSeq(@, 1, ctx.pos) \o octets
                         \o SubSeq(@, ctx.pos + Len(octets) + 1, Len(@)),
              !.pos = @ + Len(octets)]

(* A value that does not fit is an error; where it leaves the position no  *)
(* longer matters, since finalize then reports the errors.                 *)
Write(ctx, id, octets) ==
  LET e == <<id>> \o LengthOctets(Len(octets)) \o octets
  IN  IF ctx.pos + Len(e) > ctx.cap THEN Failed(ctx) ELSE Put(ctx, e)

WriteEndOfContents(ctx) ==
  IF ctx.pos + 2 > ctx.cap THEN Failed(ctx) ELSE Put(ctx, <<0, 0>>)

st_asn1_write_integer(ctx, w)    == Write(ctx, UNIVERSAL + ST_INTEGER, IntegerOctets(w))
st_asn1_write_enumerated(ctx, w) == Write(ctx, UNIVERSAL + ST_ENUMERATED, IntegerOctets(w))
st_asn1_write_octet_string(ctx, s) == Write(ctx, UNIVERSAL + ST_OCTET_STRING, s)
st_asn1_write_boolean(ctx, b) ==
  Write(ctx, UNIVERSAL + ST_BOOLEAN, IF b THEN <<255>> ELSE <<0>>)

-----------------------------------------------------------------------------
(* Reading *)

At(ctx, i) == IF ctx.pos + i <= Len(ctx.data) THEN ctx.data[ctx.pos + i] ELSE 0

(* The number of octets that the length field takes, and the length. *)
LengthSize(ctx) == IF At(ctx, 2) > 128 THEN At(ctx, 2) - 127 ELSE 1
LengthAt(ctx) ==
  CASE At(ctx, 2) < 128 -> At(ctx, 2)
    [] At(ctx, 2) = 128 -> 0
    [] OTHER -> Number[[i \in 1..(At(ctx, 2) - 128) |-> At(ctx, 2 + i)]]

(* Another tag, a truncated header or more than max octets: nothing is     *)
(* consumed.  The octets after the end of the buffer, which the code does  *)
(* not keep apart, are taken for zeros.                                    *)
CanRead(ctx, id, max) ==
  /\ ctx.pos + 2 <= ctx.cap
  /\ At(ctx, 1) = id
  /\ LengthSize(ctx) - 1 <= ctx.cap - (ctx.pos + 2)
  /\ LengthAt(ctx) <= max

Content(ctx)  == [i \in 1..LengthAt(ctx) |-> At(ctx, 1 + LengthSize(ctx) + i)]
Consume(ctx)  == [ctx EXCEPT !.pos = @ + 1 + LengthSize(ctx) + LengthAt(ctx)]
Advance(ctx, id, max) == IF CanRead(ctx, id, max) THEN Consume(ctx) ELSE Failed(ctx)

(* Each read function returns the value, or the one it found in its output *)
(* argument when it fails.                                                 *)
ReadNumber(ctx, id, old) ==
  IF CanRead(ctx, id, 9) THEN OctetsInteger(Content(ctx)) ELSE old

st_asn1_read_integer(ctx, old)    == ReadNumber(ctx, ST_INTEGER, old)
st_asn1_read_enumerated(ctx, old) == ReadNumber(ctx, ST_ENUMERATED, old)
st_asn1_read_octet_string(ctx, max, old) ==
  IF CanRead(ctx, ST_OCTET_STRING, max) THEN Content(ctx) ELSE old
st_asn1_read_boolean(ctx, old) ==
  IF CanRead(ctx, ST_BOOLEAN, 1) THEN Content(ctx)[1] # 0 ELSE old

(* Octets that are not zero are consumed, up to the first one. *)
ReadEndOfContents(ctx) ==
  LET n == IF At(ctx, 1) = 0 THEN 2 ELSE 1
  IN  CASE ctx.pos + 2 > ctx.cap -> Failed(ctx)
        [] ctx.pos + 2 <= ctx.cap /\ At(ctx, n) = 0 -> [ctx EXCEPT !.pos = @ + n]
        [] OTHER -> [Failed(ctx) EXCEPT !.pos = @ + n]

(* The tag that comes next, negative unless its class is universal; 0 at   *)
(* the end of a sequence or of the data.                                   *)
st_asn1_peek(ctx) ==
  LET tag == At(ctx, 1) % 32
  IN  CASE \/ ctx.pos + 2 > ctx.cap
           \/ At(ctx, 1) = 0 /\ At(ctx, 2) = 0
           \/ LengthSize(ctx) - 1 > ctx.cap - (ctx.pos + 2) -> 0
        [] At(ctx, 1) < 64 -> tag
        [] OTHER -> -tag

-----------------------------------------------------------------------------
(* Start and finish follow the mode. *)

StartOf(ctx, id) ==
  IF ctx.mode = "ENCODE" THEN Write(ctx, id, <<>>) ELSE Advance(ctx, id, 0)

Finish(ctx) ==
  IF ctx.mode = "ENCODE" THEN WriteEndOfContents(ctx) ELSE ReadEndOfContents(ctx)

st_asn1_start_sequence(ctx)   == StartOf(ctx, CONSTRUCTED + ST_SEQUENCE)
st_asn1_finish_sequence(ctx)  == Finish(ctx)
st_asn1_start_context_specific(ctx, tag) ==
  StartOf(ctx, CONSTRUCTED + CONTEXT_SPECIFIC + tag)
st_asn1_finish_context_specific(ctx) == Finish(ctx)
=============================================================================
