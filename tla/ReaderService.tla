---------------------------- MODULE ReaderService ----------------------------
(***************************************************************************)
(* What the protocol layer promises its callers when the line behaves: one *)
(* call at a time; a command is carried out at most once per call and only *)
(* while the call lasts; the reader searches for tags only while a select  *)
(* call lasts; and a call that reports success had its command carried     *)
(* out.  This last promise leaves out the calls of kind "unchecked", the   *)
(* writes sent by a function that does not look for INVENTORY_DONE.        *)
(***************************************************************************)
EXTENDS Naturals

CONSTANT Statuses  \* what a call can return, "SUCCESS" among others

VARIABLES
  busy,      \* a call is in progress
  kind,      \* of the call: see Kinds
  times,     \* how often the reader carried the command out for this call
  scanning,  \* the reader searches for tags
  status     \* what the last call returned

vars == <<busy, kind, times, scanning, status>>

Kinds == {"command", "unchecked", "select"}

Begin(k) ==
  /\ ~busy
  /\ busy' = TRUE
  /\ kind' = k
  /\ times' = 0
  /\ UNCHANGED <<scanning, status>>

Execute ==
  /\ busy
  /\ kind # "select"
  /\ times = 0
  /\ times' = 1
  /\ UNCHANGED <<busy, kind, scanning, status>>

StartScan ==
  /\ busy
  /\ kind = "select"
  /\ scanning' = TRUE
  /\ UNCHANGED <<busy, kind, times, status>>

StopScan ==
  /\ scanning
  /\ scanning' = FALSE
  /\ UNCHANGED <<busy, kind, times, status>>

End(st) ==
  /\ busy
  /\ ~scanning
  /\ kind = "command" /\ st = "SUCCESS" => times = 1
  /\ busy' = FALSE
  /\ status' = st
  /\ UNCHANGED <<kind, times, scanning>>

Init ==
  /\ busy = FALSE
  /\ kind \in Kinds
  /\ times = 0
  /\ scanning = FALSE
  /\ status \in Statuses

Next ==
  \/ \E k \in Kinds : Begin(k)
  \/ Execute
  \/ StartScan
  \/ StopScan
  \/ \E st \in Statuses : End(st)

Spec == Init /\ [][Next]_vars
=============================================================================
