----------------------------- MODULE FlowRunner -----------------------------
(***************************************************************************)
(* The command wrapper scripts/run_flow.py, the child process it supervises *)
(* and the two consumers of what it leaves on disk: the log checker         *)
(* scripts/check_simulation.py and the workload driver scripts/run_hp_sim.py *)
(* (or a make recipe that calls the first two).                             *)
(*                                                                          *)
(* One output directory is used for several runs.  The files are the log,   *)
(* the flow result (result-sim.json) and the verdict (result-sim-check.json);*)
(* a log line and a flow result remember the run that produced them.        *)
(***************************************************************************)
EXTENDS Naturals, Sequences

CONSTANTS
    MaxRuns,     \* bound: runs in the same output directory
    MaxLines,    \* bound: lines a child prints
    ExitCodes,   \* exit codes a child can choose
    Users        \* who starts the wrapper: "hp" (run_hp_sim), "make" (a recipe)

ASSUME FlowAssumption ==
    /\ MaxRuns \in Nat \ {0} /\ MaxLines \in Nat
    /\ 0 \in ExitCodes /\ ExitCodes \subseteq Nat
    /\ Users \subseteq {"hp", "make"}

VARIABLES
    wpc,       \* where the wrapper is in main()
    handlers,  \* disposition of SIGINT and SIGTERM in the wrapper
    mode,      \* "lines", "marker" (--terminate-on-success-marker) or "stream"
    proc,      \* the wrapper's variable `process` is bound
    marker,    \* marker_seen
    rejected,  \* rejected_matches is not empty
    rc,        \* returncode
    child,     \* the child: "none", "running", "term" (SIGTERM sent), "dead"
    code,      \* its exit code (15 and 9: killed by a signal)
    printed,   \* lines the child has printed
    pipe,      \* lines not yet read by the wrapper
    log,       \* the log file: a set of [kind, run]
    flow,      \* the flow result file
    user, dpc, \* who started the wrapper and where it is
    run,       \* number of the current run
    verdict    \* the verdict file

wrapperVars == <<wpc, handlers, mode, proc, marker, rejected, rc>>
childVars == <<child, code, printed, pipe>>
driverVars == <<user, dpc, run, verdict>>
vars == <<wrapperVars, childVars, log, flow, driverVars>>

Lines == {"plain", "fail", "ok"}
Statuses == {"none", "running", "interrupted", "passed", "failed"}
InTry == {"armed", "opened", "forked", "spawned", "reading", "stopping"}
Alive == {"prep", "cancel", "cleanup", "errclean", "closing"} \cup InTry

\* What wrapper, child, driver and files can be; a result file has one of the
\* statuses its readers know, and somebody is at work only within a run.
TypeOK ==
    /\ wpc \in Alive \cup {"idle", "gone"}
    /\ handlers \in {"default", "flow", "ignored"}
    /\ mode \in {"lines", "marker", "stream"}
    /\ proc \in BOOLEAN /\ marker \in BOOLEAN /\ rejected \in BOOLEAN
    /\ rc \in Nat
    /\ child \in {"none", "running", "term", "dead"}
    /\ code \in Nat /\ printed \in 0..MaxLines
    /\ pipe \in Seq(Lines)
    /\ log \subseteq [kind : Lines, run : 1..MaxRuns]
    /\ flow \in [status : Statuses, pending : BOOLEAN, run : 0..MaxRuns]
    /\ user \in Users /\ dpc \in {"idle", "run", "intr", "check", "lost"}
    /\ run \in 0..MaxRuns /\ (dpc # "idle" \/ wpc # "idle" => run > 0)
    /\ verdict \in [status : Statuses, run : 0..MaxRuns]

Init ==
    /\ wpc = "idle" /\ handlers = "default" /\ mode = "lines"
    /\ proc = FALSE /\ marker = FALSE /\ rejected = FALSE /\ rc = 127
    /\ child = "none" /\ code = 0 /\ printed = 0 /\ pipe = <<>>
    /\ log = {} /\ flow = [status |-> "none", pending |-> FALSE, run |-> 0]
    /\ user \in Users /\ dpc = "idle" /\ run = 0
    /\ verdict = [status |-> "none", run |-> 0]

-----------------------------------------------------------------------------
(* The driver.  A child that outlived its wrapper has no reader and cannot  *)
(* touch the files any more; a new run is started when the wrapper is gone. *)

\* run_hp_sim.main up to subprocess.run: a verdict "running" replaces the
\* verdict of an earlier workload before anything else happens.
StartRun ==
    /\ dpc \in {"idle", "lost"} /\ wpc \in {"idle", "gone"} /\ run < MaxRuns
    /\ run' = run + 1
    /\ user' \in Users
    /\ verdict' = IF user' = "hp" THEN [status |-> "running", run |-> run + 1] ELSE verdict
    /\ mode' \in IF user' = "hp" THEN {"stream"} ELSE {"lines", "marker"}
    /\ dpc' = "run" /\ wpc' = "idle" /\ handlers' = "default"
    /\ proc' = FALSE /\ marker' = FALSE /\ rejected' = FALSE /\ rc' = 127
    /\ child' = "none" /\ code' = 0 /\ printed' = 0 /\ pipe' = <<>>
    /\ UNCHANGED <<log, flow>>

\* The wrapper returned non-zero: run_hp_sim persists the failure, make stops.
FlowFailed ==
    /\ dpc = "run" /\ wpc = "gone" /\ rc # 0
    /\ verdict' = IF user = "hp" THEN [status |-> "failed", run |-> run] ELSE verdict
    /\ dpc' = "idle"
    /\ UNCHANGED <<wrapperVars, childVars, log, flow, user, run>>

\* run_hp_sim ignores the return code of the wrapper and does not ask for the
\* terminal flow result.
MutFlowReturned ==
    /\ dpc = "run" /\ wpc = "gone"
    /\ dpc' = "check"
    /\ UNCHANGED <<wrapperVars, childVars, log, flow, user, run, verdict>>

FlowReturned ==
    /\ dpc = "run" /\ wpc = "gone" /\ rc = 0
    /\ dpc' = "check"
    /\ UNCHANGED <<wrapperVars, childVars, log, flow, user, run, verdict>>

\* check_simulation.main: required marker, failure text and the flow result.
CheckPasses ==
    /\ \E l \in log : l.kind = "ok"
    /\ \A l \in log : l.kind # "fail"
    /\ flow.status = "passed"

CheckSimulation ==
    /\ dpc = "check"
    /\ verdict' = [status |-> IF CheckPasses THEN "passed" ELSE "failed", run |-> run]
    /\ dpc' = "idle"
    /\ UNCHANGED <<wrapperVars, childVars, log, flow, user, run>>

\* The driver is killed: its files stay as they are, the wrapper lives on.
DriverKilled ==
    /\ dpc \in {"run", "check", "intr"}
    /\ dpc' = "lost"
    /\ UNCHANGED <<wrapperVars, childVars, log, flow, user, run, verdict>>

-----------------------------------------------------------------------------
(* The child process.                                                       *)

ChildPrint ==
    /\ child \in {"running", "term"} /\ printed < MaxLines /\ wpc \in Alive
    /\ \E l \in Lines : pipe' = Append(pipe, l)
    /\ printed' = printed + 1
    /\ UNCHANGED <<wrapperVars, child, code, log, flow, driverVars>>

ChildExit ==
    /\ child \in {"running", "term"}
    /\ child' = "dead"
    /\ code' \in ExitCodes \cup (IF child = "term" THEN {15} ELSE {})
    /\ UNCHANGED <<wrapperVars, printed, pipe, log, flow, driverVars>>

-----------------------------------------------------------------------------
(* The wrapper, in the order of main().                                     *)

\* Arguments are rejected, or the first result cannot be written.
LaunchRejected ==
    /\ dpc \in {"run", "lost"} /\ wpc = "idle" /\ run > 0
    /\ wpc' = "gone" /\ rc' \in {1, 2}
    /\ UNCHANGED <<handlers, mode, proc, marker, rejected, childVars, log, flow, driverVars>>

Launch ==
    /\ dpc \in {"run", "lost"} /\ wpc = "idle" /\ run > 0
    /\ flow' = [status |-> "running", pending |-> FALSE, run |-> run]
    /\ wpc' = "prep"
    /\ UNCHANGED <<handlers, mode, proc, marker, rejected, rc, childVars, log, driverVars>>

InstallHandlers ==
    /\ wpc = "prep"
    /\ wpc' = "armed" /\ handlers' = "flow"
    /\ UNCHANGED <<mode, proc, marker, rejected, rc, childVars, log, flow, driverVars>>

\* Opening the log truncates it.
OpenLog ==
    /\ wpc = "armed"
    /\ wpc' = "opened" /\ log' = {}
    /\ UNCHANGED <<handlers, mode, proc, marker, rejected, rc, childVars, flow, driverVars>>

\* returncode starts at success.
MutNothingStarted ==
    /\ wpc \in {"armed", "opened"}
    /\ wpc' = "closing" /\ rc' = 0
    /\ UNCHANGED <<handlers, mode, proc, marker, rejected, childVars, log, flow, driverVars>>

\* The log cannot be opened or the command cannot be executed: OSError with
\* no process, returncode keeps its first value 127.
NothingStarted ==
    /\ wpc \in {"armed", "opened"}
    /\ wpc' = "closing"
    /\ UNCHANGED <<handlers, mode, proc, marker, rejected, rc, childVars, log, flow, driverVars>>

\* Inside Popen: the child exists, `process` is not bound yet.
Fork ==
    /\ wpc = "opened"
    /\ wpc' = "forked" /\ child' = "running"
    /\ UNCHANGED <<handlers, mode, proc, marker, rejected, rc, code, printed, pipe, log, flow, driverVars>>

PopenReturns ==
    /\ wpc = "forked"
    /\ wpc' = "spawned" /\ proc' = TRUE
    /\ UNCHANGED <<handlers, mode, marker, rejected, rc, childVars, log, flow, driverVars>>

WriteChildPid ==
    /\ wpc = "spawned"
    /\ wpc' = "reading"
    /\ UNCHANGED <<handlers, mode, proc, marker, rejected, rc, childVars, log, flow, driverVars>>

\* One line (or chunk) goes to the log.  Failure text is remembered only
\* outside stream mode; the success marker ends the run only in marker mode.
ReadLine ==
    /\ wpc = "reading" /\ pipe # <<>>
    /\ LET l == Head(pipe) IN
        /\ log' = log \cup {[kind |-> l, run |-> run]}
        /\ rejected' = (rejected \/ (l = "fail" /\ mode # "stream"))
        /\ marker' = (mode = "marker" /\ l = "ok")
        /\ wpc' = IF mode = "marker" /\ l = "ok" THEN "stopping" ELSE "reading"
    /\ pipe' = Tail(pipe)
    /\ UNCHANGED <<handlers, mode, proc, rc, child, code, printed, flow, driverVars>>

\* End of file, then process.wait().
EndOfOutput ==
    /\ wpc = "reading" /\ pipe = <<>> /\ child = "dead"
    /\ wpc' = "closing" /\ rc' = code
    /\ UNCHANGED <<handlers, mode, proc, marker, rejected, childVars, log, flow, driverVars>>

\* terminate_process_group: SIGTERM, a bounded wait, SIGKILL.
Terminating == wpc \in {"stopping", "cleanup", "errclean"}

SendTerm ==
    /\ Terminating /\ child = "running"
    /\ child' = "term"
    /\ UNCHANGED <<wrapperVars, code, printed, pipe, log, flow, driverVars>>

\* No SIGKILL after the bounded wait.
MutTermTimeout == FALSE /\ UNCHANGED vars

TermTimeout ==
    /\ Terminating /\ child = "term"
    /\ child' = "dead" /\ code' = 9
    /\ UNCHANGED <<wrapperVars, printed, pipe, log, flow, driverVars>>

\* The return code main() sets once the group has been terminated: the
\* verdict of marker mode, 130 after an interrupt, what the error set before.
TerminatedCode ==
    CASE wpc = "stopping" -> IF rejected THEN 1 ELSE 0
      [] wpc = "cleanup"  -> 130
      [] OTHER            -> rc

Terminated ==
    /\ Terminating /\ child = "dead"
    /\ wpc' = "closing" /\ rc' = TerminatedCode
    /\ UNCHANGED <<handlers, mode, proc, marker, rejected, childVars, log, flow, driverVars>>

\* An OSError (127 stays) or another exception (1) after the child started.
ErrorWithChild ==
    /\ wpc \in {"spawned", "reading"}
    /\ wpc' = "errclean" /\ rc' \in {127, 1}
    /\ UNCHANGED <<handlers, mode, proc, marker, rejected, childVars, log, flow, driverVars>>

\* The KeyboardInterrupt handler persists the cancellation before it cleans up.
PersistCancel ==
    /\ wpc = "cancel"
    /\ flow' = [status |-> "interrupted", pending |-> proc, run |-> run]
    /\ wpc' = IF proc THEN "cleanup" ELSE "closing"
    /\ rc' = IF proc THEN rc ELSE 130
    /\ UNCHANGED <<handlers, mode, proc, marker, rejected, childVars, log, driverVars>>

\* An interrupted run is recorded as any other that did not pass.
MutFinalStatus == IF rc = 0 THEN "passed" ELSE "failed"

FinalStatus == IF rc = 130 THEN "interrupted" ELSE IF rc = 0 THEN "passed" ELSE "failed"

WriteFinal ==
    /\ wpc = "closing"
    /\ flow' = [status |-> FinalStatus, pending |-> FALSE, run |-> run]
    /\ wpc' = "gone"
    /\ UNCHANGED <<handlers, mode, proc, marker, rejected, rc, childVars, log, driverVars>>

\* The result file cannot be written outside the try block: main() raises.
WriteFails ==
    /\ wpc \in {"cancel", "closing"}
    /\ wpc' = "gone" /\ rc' = 1
    /\ UNCHANGED <<handlers, mode, proc, marker, rejected, childVars, log, flow, driverVars>>

-----------------------------------------------------------------------------
(* Signals.                                                                 *)

\* interrupt_flow: the first signal raises KeyboardInterrupt and the later ones
\* are ignored.  Outside the try block, or before the handlers are
\* installed, the signal ends the wrapper.
DeliverSignal ==
    CASE handlers = "ignored" -> UNCHANGED <<wpc, handlers, rc>>
      [] handlers = "flow" /\ wpc \in InTry ->
            wpc' = "cancel" /\ handlers' = "ignored" /\ rc' = rc
      [] OTHER -> wpc' = "gone" /\ rc' = 1 /\ UNCHANGED handlers

Signal ==
    /\ wpc \in Alive /\ handlers # "ignored"
    /\ DeliverSignal
    /\ UNCHANGED <<mode, proc, marker, rejected, childVars, log, flow, driverVars>>

\* A terminal interrupt reaches the driver too: subprocess.run waits a moment
\* and then kills the wrapper.
InterruptBoth ==
    /\ wpc \in Alive /\ dpc = "run"
    /\ DeliverSignal
    /\ dpc' = "intr"
    /\ UNCHANGED <<mode, proc, marker, rejected, childVars, log, flow, user, run, verdict>>

DriverGivesUp ==
    /\ dpc = "intr"
    /\ dpc' = "idle"
    /\ wpc' = "gone" /\ rc' = IF wpc = "gone" THEN rc ELSE 137
    /\ verdict' = IF user = "hp" THEN [status |-> "interrupted", run |-> run] ELSE verdict
    /\ UNCHANGED <<handlers, mode, proc, marker, rejected, childVars, log, flow, user, run>>

\* SIGKILL of the wrapper: the child is in a session of its own and survives.
WrapperKilled ==
    /\ wpc \in Alive
    /\ wpc' = "gone" /\ rc' = 137
    /\ UNCHANGED <<handlers, mode, proc, marker, rejected, childVars, log, flow, driverVars>>

-----------------------------------------------------------------------------
WrapperStep ==
    \/ Launch \/ LaunchRejected \/ InstallHandlers \/ OpenLog \/ NothingStarted
    \/ Fork \/ PopenReturns \/ WriteChildPid \/ ReadLine \/ EndOfOutput
    \/ SendTerm \/ TermTimeout \/ Terminated \/ ErrorWithChild
    \/ PersistCancel \/ WriteFinal \/ WriteFails

Next ==
    \/ StartRun \/ FlowFailed \/ FlowReturned \/ CheckSimulation \/ DriverKilled
    \/ ChildPrint \/ ChildExit
    \/ WrapperStep
    \/ Signal \/ InterruptBoth \/ DriverGivesUp \/ WrapperKilled

\* The wrapper is scheduled; nothing is assumed of the child, which may run
\* for ever and may ignore SIGTERM, nor of who sends signals.
Fairness == WF_vars(WrapperStep)

Spec == Init /\ [][Next]_vars /\ Fairness

-----------------------------------------------------------------------------
(* Properties.                                                              *)

\* A result "passed" of this run is earned: the child ended with 0 and all it
\* printed was read, or the marker was seen with no failure text before it.
PassedIsEarned ==
    flow.status = "passed" /\ flow.run = run /\ wpc = "gone" =>
        /\ child = "dead"
        /\ IF marker THEN ~rejected ELSE code = 0 /\ pipe = <<>>

\* A file that says that nothing is left to clean up is right: when it holds a
\* terminal status without child_cleanup_pending, the child it knew is dead.
NoOrphanBehindVerdict ==
    flow.run = run /\ proc /\ ~flow.pending
        /\ flow.status \in {"passed", "failed", "interrupted"}
    => child = "dead"

\* A verdict "passed" rests on the log and the result of its own run: no line
\* of another run, no failure text, the marker present.
VerdictOfOwnRun ==
    verdict.status = "passed" /\ verdict.run = run /\ dpc = "idle" =>
        /\ flow.run = run /\ flow.status = "passed"
        /\ \A l \in log : l.run = run /\ l.kind # "fail"
        /\ \E l \in log : l.kind = "ok"

\* A workload started by run_hp_sim never stands beside the verdict of another
\* one, whatever is killed on the way.
NoReusedVerdict == run > 0 /\ user = "hp" => verdict.run = run

\* Once an interrupt is persisted the wrapper never reports success.
CancelIsFinal ==
    [][flow.status = "interrupted" /\ flow.run = run /\ run' = run
        => flow'.status # "passed"]_vars

\* An interrupted wrapper that is not killed ends, and the child it knew is
\* dead when it does.
CancelEnds ==
    (wpc = "cancel" /\ proc) ~>
        (wpc = "gone" /\ (child = "dead" \/ rc \in {1, 137}))

-----------------------------------------------------------------------------
(* The inductive invariant: what wrapper, child, files and driver know of   *)
(* each other at every place of main().                                     *)

\* The child exists from the fork on; `process` is bound only behind it.
ChildInv ==
    /\ wpc \in {"idle", "prep", "armed", "opened"} => child = "none" /\ ~proc
    /\ wpc = "forked" => child # "none"
    /\ wpc \in {"spawned", "reading", "stopping", "errclean", "cleanup"} => proc
    /\ proc => child # "none"

\* The result file says "running" until the wrapper closes it or persists a
\* cancellation, and the wrapper closes it only behind the child it knows.
RecordInv ==
    /\ flow.run <= run /\ verdict.run <= run
    /\ wpc = "idle" => run = 0 \/ flow.run # run
    /\ wpc \in Alive => flow.run = run
    /\ wpc \in {"prep", "cancel", "errclean"} \cup InTry => flow.status = "running"
    /\ wpc = "cleanup" => flow.status = "interrupted" /\ flow.pending
    /\ wpc = "closing" =>
        \/ flow.status = "running" /\ child \notin {"running", "term"}
        \/ /\ flow.status = "interrupted" /\ rc = 130
           /\ IF flow.pending THEN child = "dead" ELSE ~proc

\* A return code 0 is earned, by a child that is over and whose lines are all
\* that the log holds.
Earned ==
    /\ child = "dead"
    /\ IF marker THEN ~rejected ELSE code = 0 /\ pipe = <<>>
    /\ \A l \in log : l.run = run

CodeInv ==
    /\ rc = 0 => wpc \in {"closing", "gone"} /\ Earned
    /\ wpc \in {"idle", "prep", "armed", "opened", "forked", "spawned", "reading"} => ~marker
    /\ wpc = "stopping" => marker
    /\ wpc \in {"opened", "forked", "spawned", "reading", "stopping"} => \A l \in log : l.run = run
    /\ wpc = "gone" /\ rc = 0 => flow.run = run /\ flow.status = "passed"
    /\ flow.status = "passed" /\ flow.run = run => wpc = "gone" /\ rc = 0

\* The checker looks only at a run that returned 0, and the verdict it gave
\* stands until the next run starts.
VerdictInv ==
    /\ dpc = "idle" => wpc = "gone" \/ run = 0
    /\ dpc = "check" => wpc = "gone" /\ rc = 0
    /\ verdict.status = "passed" /\ verdict.run = run =>
        /\ dpc = "idle" /\ wpc = "gone" /\ rc = 0
        /\ \A l \in log : l.kind # "fail"
        /\ \E l \in log : l.kind = "ok"

FlowInv == ChildInv /\ RecordInv /\ CodeInv /\ VerdictInv

-----------------------------------------------------------------------------
(* What the result file promises, whatever happens to the wrapper.          *)

Result == INSTANCE FlowResult WITH
              record <- flow,
              work <- IF child \in {"running", "term"} THEN "running" ELSE child

\* Every step of the wrapper, the child, the driver and the signals is a step
\* of the record or none: opened before the work, cancelled for good, and closed
\* once, never with a verdict on work that goes on.
ResultIsKept == Result!Spec
=============================================================================
