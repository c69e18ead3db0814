-------------------------- MODULE STPv3Refinement --------------------------
(***************************************************************************)
(* The protocol engine seen from its callers: STPv3 implements             *)
(* ReaderService as long as answers are not late and the reader sends one  *)
(* frame per request, or the line does not damage frames.                  *)
(***************************************************************************)
EXTENDS STPv3, FiniteSets

(* SendCommand and SendSetTagCommand take INVENTORY_DONE for success       *)
(* (STPv3.c:856, 1279), also where it refuses a write.                     *)
Unchecked(c) == c.fn = "Send" /\ c.cmd \in WriteCmds

Service == INSTANCE ReaderService WITH
  busy     <- pc # "idle",
  kind     <- IF api.cmd = SELECT_TAG THEN "select"
              ELSE IF Unchecked(api) THEN "unchecked" ELSE "command",
  times    <- Cardinality({r \in executed : r.call = ncalls}),
  scanning <- mode.state # "idle",
  status   <- ret.st

(* STPv3.c:813-2149: the engine is a ReaderService: no command is carried  *)
(* out twice or after its call returned, no call returns while the reader  *)
(* still searches for tags, and success means that the command was carried *)
(* out, except for writes that are not sent by SendAddrSetTagCommand.      *)
ImplementsService == Service!Spec
=============================================================================
