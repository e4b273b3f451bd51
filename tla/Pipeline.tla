------------------------------ MODULE Pipeline ------------------------------
(***************************************************************************)
(* What build_firmware promises about its external tools (spec 4.6 and 7): *)
(* one run calls them in the fixed stage order, a tool of a repeatable    *)
(* stage possibly several times in a row; a failing tool or a fatal check *)
(* ends the run and nothing is called after it; a run that reaches the    *)
(* final packer without a failure ends done, and a missing compiled       *)
(* binary ends it early before the packer.                                *)
(***************************************************************************)
EXTENDS Naturals, Sequences

CONSTANTS
  Tools,       \* the tools in stage order, the final packer last
  Repeatable   \* tools that one stage may call several times

ASSUME Tools \in Seq(STRING) /\ Len(Tools) > 0

VARIABLES
  status,  \* "idle", "running", "done", "returned", "failed"
  calls    \* <<tool, result>> of every tool called in this run

vars == <<status, calls>>

Ended == {"idle", "done", "returned", "failed"}

Rank(t) == CHOOSE i \in 1..Len(Tools) : Tools[i] = t

Packer == Tools[Len(Tools)]

LastTool == calls[Len(calls)][1]

\* A tool may be called now: it comes after the last one in stage order.
InOrder(t) ==
  \/ calls = <<>>
  \/ Rank(t) > Rank(LastTool)
  \/ t = LastTool /\ t \in Repeatable

Begin ==
  /\ status \in Ended
  /\ status' = "running"
  /\ calls' = <<>>

Call(t, r) ==
  /\ status = "running"
  /\ InOrder(t)
  /\ calls' = Append(calls, <<t, r>>)
  /\ status' = IF r # "ok" THEN "failed"
                ELSE IF t = Packer THEN "done" ELSE "running"

\* A fatal check that is not a tool (firmware.xml missing or invalid).
Abort ==
  /\ status = "running"
  /\ status' = "failed"
  /\ UNCHANGED calls

\* No compiled binary: the run returns before the packer.
Return ==
  /\ status = "running"
  /\ \A i \in 1..Len(calls) : calls[i][1] # Packer
  /\ status' = "returned"
  /\ UNCHANGED calls

Progress ==
  \/ \E i \in 1..Len(Tools), r \in {"ok", "fail"} : Call(Tools[i], r)
  \/ Abort \/ Return

Init == status = "idle" /\ calls = <<>>

Next == Begin \/ Progress

\* A started run is not abandoned halfway: it keeps making progress.
Spec == Init /\ [][Next]_vars /\ WF_vars(Progress)
=============================================================================
