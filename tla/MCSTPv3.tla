------------------------------ MODULE MCSTPv3 ------------------------------
(* Values of the constants of STPv3 for TLC. *)
EXTENDS STPv3Refinement

CONSTANTS c1, c2

Send(c)          == [fn |-> "Send", cmd |-> c, inv |-> FALSE, loop |-> FALSE, auto |-> TRUE]
Write(c)         == [Send(c) EXCEPT !.fn = "Write"]
Get(c)           == [Send(c) EXCEPT !.fn = "Get"]
Select(inv, loop, auto) ==
  [fn |-> "SelectTags", cmd |-> SELECT_TAG, inv |-> inv, loop |-> loop, auto |-> auto]
Inventory(fn)    == [fn |-> fn, cmd |-> SELECT_TAG, inv |-> TRUE, loop |-> FALSE, auto |-> TRUE]

(* Every function, tag types all auto-detect; c1 writes to the tag.        *)
AutoCalls == {Write(c1), Send(c1), Get(c2), Select(FALSE, FALSE, TRUE), Select(TRUE, FALSE, TRUE),
              Select(FALSE, TRUE, TRUE), Inventory("GetTags")}

(* Commands and single selects: nothing that makes the reader send more    *)
(* than one frame for a request.                                           *)
SingleCalls == {Write(c1), Send(c1), Get(c2), Send(c2), Select(FALSE, FALSE, TRUE),
                Select(FALSE, FALSE, FALSE)}

(* One of each kind, with both kinds of tag type. *)
AllCalls == {Get(c1), Select(FALSE, TRUE, TRUE), Select(FALSE, TRUE, FALSE),
             Inventory("GetTags"), Inventory("GetTagsWithMask")}

(* No loops; two calls of one command, so that a late answer finds a taker. *)
LooplessCalls == {Get(c1), Send(c2), Inventory("GetTags"), Select(TRUE, FALSE, FALSE)}

(* A loop may be left running by an error and met by each other function;  *)
(* the request that stops it asks for another layout of the tags' frames.  *)
LoopCalls == {Get(c1), Select(FALSE, TRUE, FALSE), Inventory("GetTags"),
              Inventory("GetTagsWithMask")}
=============================================================================
