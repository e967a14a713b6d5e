----------------------------- MODULE FlowResult -----------------------------
(***************************************************************************)
(* What the result file of scripts/run_flow.py promises to whoever reads   *)
(* it: one record that goes from running to one terminal status, with the  *)
(* work it speaks of.  How the wrapper reads, terminates, is signalled or  *)
(* dies is not said here; a wrapper that dies leaves the record as it is.  *)
(***************************************************************************)
EXTENDS Naturals

VARIABLES run,      \* number of the run in this directory
          record,   \* the file: status, child_cleanup_pending and the run it is of
          work      \* the command: "none", "running", "dead"

resultVars == <<run, record, work>>

Init == run = 0 /\ work = "none" /\ record = [status |-> "none", pending |-> FALSE, run |-> 0]

\* A new run finds the record of the last one.
Begin == run' = run + 1 /\ work' = "none" /\ UNCHANGED record

\* The record of this run is there before its work is.
Open == /\ record.run # run /\ work = "none"
        /\ record' = [status |-> "running", pending |-> FALSE, run |-> run]
        /\ UNCHANGED <<run, work>>

Work == /\ work = "none" /\ record.run = run /\ record.status = "running"
        /\ work' = "running" /\ UNCHANGED <<run, record>>

Over == work = "running" /\ work' = "dead" /\ UNCHANGED <<run, record>>

\* A cancellation is on record before the work is cleaned up.
Cancel(pending) ==
    /\ record.run = run /\ record.status = "running"
    /\ record' = [status |-> "interrupted", pending |-> pending, run |-> run]
    /\ UNCHANGED <<run, work>>

\* The last word: only a run that was not cancelled passes or fails, none while
\* its work goes on, and a run without work does not pass.
Close(status) ==
    /\ record.run = run /\ work # "running"
    /\ \/ record.status = "running" /\ status \in {"passed", "failed", "interrupted"}
       \/ record.status = "interrupted" /\ record.pending /\ status = "interrupted"
    /\ status = "passed" => work = "dead"
    /\ record' = [status |-> status, pending |-> FALSE, run |-> run]
    /\ UNCHANGED <<run, work>>

Next == \/ Begin \/ Open \/ Work \/ Over
        \/ \E pending \in BOOLEAN : Cancel(pending)
        \/ \E status \in {"passed", "failed", "interrupted"} : Close(status)

Spec == Init /\ [][Next]_resultVars
=============================================================================
