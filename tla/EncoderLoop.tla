---------------------------- MODULE EncoderLoop -----------------------------
(***************************************************************************)
(* What the data-filesystem stage promises (spec 4.7 and 7), with no      *)
(* files or sizes in it: after the manifest is read, the encoder is       *)
(* called for some of the partitions, each at most once and in manifest   *)
(* order; a failing encoder ends the program and nothing is encoded after *)
(* it; the stage ends, normally or with an error, and does not stall.     *)
(***************************************************************************)
EXTENDS Naturals, Sequences

CONSTANTS
  Indices,   \* the partition positions a manifest may have
  Results    \* exit statuses of the encoder; "ok" is success

VARIABLES
  status,  \* "idle", "running", "done", "failed"
  calls    \* <<partition, result>> of every encoder call, in call order

vars == <<status, calls>>

\* The last partition encoded so far, 0 before the first call.
LastIndex == IF calls = <<>> THEN 0 ELSE calls[Len(calls)][1]

Init == status = "idle" /\ calls = <<>>

\* The manifest is read: it is usable, or the program ends.
Start ==
  /\ status = "idle"
  /\ status' \in {"running", "failed"}
  /\ UNCHANGED calls

\* The encoder runs for a partition after the last one encoded.
Encode(k, r) ==
  /\ status = "running"
  /\ k > LastIndex
  /\ calls' = Append(calls, <<k, r>>)
  /\ status' = IF r = "ok" THEN "running" ELSE "failed"

\* The loop ends, or a malformed partition ends the program.
Stop ==
  /\ status = "running"
  /\ status' \in {"done", "failed"}
  /\ UNCHANGED calls

Progress == Start \/ (\E k \in Indices, r \in Results : Encode(k, r)) \/ Stop

Next == Progress

\* Once entered, the stage runs to its end.
Spec == Init /\ [][Next]_vars /\ WF_vars(Progress)
=============================================================================
