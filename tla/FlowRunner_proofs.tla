------------------------- MODULE FlowRunner_proofs -------------------------
(***************************************************************************)
(* Proofs about run_flow.py, its child and the readers of its files, for   *)
(* any number of runs, any output and any exit codes.                      *)
(***************************************************************************)
EXTENDS FlowRunner, TLAPS

\* Type correctness.
THEOREM FlowTypeCorrect == Spec => []TypeOK
<1>1. Init => TypeOK
  <2> SUFFICES ASSUME Init PROVE TypeOK
    OBVIOUS
  <2> USE FlowAssumption DEF TypeOK, wrapperVars, childVars, driverVars, Lines, Statuses,
          Alive, InTry
  <2>1. /\ pipe \in Seq(Lines) /\ log \subseteq [kind : Lines, run : 1..MaxRuns]
        /\ flow \in [status : Statuses, pending : BOOLEAN, run : 0..MaxRuns]
        /\ verdict \in [status : Statuses, run : 0..MaxRuns]
    BY DEF Init
  <2>2. proc \in BOOLEAN /\ marker \in BOOLEAN /\ rejected \in BOOLEAN
    BY Zenon DEF Init
  <2>3. wpc \in Alive \cup {"idle", "gone"} /\ user \in Users /\ run \in 0..MaxRuns
        /\ (dpc # "idle" \/ wpc # "idle" => run > 0)
    BY DEF Init
  <2>4. /\ handlers \in {"default", "flow", "ignored"} /\ mode \in {"lines", "marker", "stream"}
        /\ rc \in Nat /\ child \in {"none", "running", "term", "dead"}
        /\ code \in Nat /\ printed \in 0..MaxLines
        /\ dpc \in {"idle", "run", "intr", "check", "lost"}
    BY DEF Init
  <2> QED BY <2>1, <2>2, <2>3, <2>4, Zenon
<1>2. TypeOK /\ [Next]_vars => TypeOK'
  <2> SUFFICES ASSUME TypeOK, [Next]_vars PROVE TypeOK'
    OBVIOUS
  <2> USE FlowAssumption DEF TypeOK, wrapperVars, childVars, driverVars, Lines, Statuses,
          Alive, InTry
  <2>1. CASE StartRun
    <3>1. /\ pipe' \in Seq(Lines) /\ run' \in 0..MaxRuns /\ run' > 0
          /\ verdict' \in [status : Statuses, run : 0..MaxRuns]
      BY <2>1 DEF StartRun
    <3>2. user' \in Users /\ mode' \in {"lines", "marker", "stream"}
      BY <2>1 DEF StartRun
    <3>3. proc' \in BOOLEAN /\ marker' \in BOOLEAN /\ rejected' \in BOOLEAN
      BY <2>1, Zenon DEF StartRun
    <3>4. /\ wpc' \in Alive \cup {"idle", "gone"} /\ handlers' \in {"default", "flow", "ignored"}
          /\ rc' \in Nat /\ child' \in {"none", "running", "term", "dead"}
          /\ code' \in Nat /\ printed' \in 0..MaxLines
          /\ dpc' \in {"idle", "run", "intr", "check", "lost"}
      BY <2>1 DEF StartRun
    <3>5. log' = log /\ flow' = flow
      BY <2>1 DEF StartRun
    <3> QED BY <3>1, <3>2, <3>3, <3>4, <3>5, Zenon
  <2>2. CASE FlowFailed
    BY <2>2 DEF FlowFailed
  <2>3. CASE FlowReturned
    BY <2>3 DEF FlowReturned
  <2>4. CASE CheckSimulation
    BY <2>4 DEF CheckSimulation, CheckPasses
  <2>5. CASE DriverKilled
    BY <2>5 DEF DriverKilled
  <2>6. CASE ChildPrint
    BY <2>6 DEF ChildPrint
  <2>7. CASE ChildExit
    BY <2>7 DEF ChildExit
  <2>8. CASE Launch
    BY <2>8 DEF Launch
  <2>9. CASE LaunchRejected
    BY <2>9 DEF LaunchRejected
  <2>10. CASE InstallHandlers
    BY <2>10 DEF InstallHandlers
  <2>11. CASE OpenLog
    BY <2>11 DEF OpenLog
  <2>12. CASE NothingStarted
    BY <2>12 DEF NothingStarted
  <2>13. CASE Fork
    BY <2>13 DEF Fork
  <2>14. CASE PopenReturns
    BY <2>14 DEF PopenReturns
  <2>15. CASE WriteChildPid
    BY <2>15 DEF WriteChildPid
  <2>16. CASE ReadLine
    <3>1. pipe # <<>> /\ Head(pipe) \in Lines /\ pipe' \in Seq(Lines)
      BY <2>16 DEF ReadLine
    <3>2. wpc' \in Alive
      BY <2>16 DEF ReadLine
    <3>4. log' \subseteq [kind : Lines, run : 1..MaxRuns]
      BY <2>16, <3>1 DEF ReadLine
    <3>3. rejected' \in BOOLEAN /\ marker' \in BOOLEAN
      BY <2>16, Zenon DEF ReadLine
    <3> QED BY <2>16, <3>1, <3>2, <3>3, <3>4 DEF ReadLine
  <2>17. CASE EndOfOutput
    BY <2>17 DEF EndOfOutput
  <2>18. CASE SendTerm
    BY <2>18 DEF SendTerm, Terminating
  <2>19. CASE TermTimeout
    BY <2>19 DEF TermTimeout, Terminating
  <2>20. CASE Terminated
    BY <2>20 DEF Terminated, Terminating, TerminatedCode
  <2>21. CASE ErrorWithChild
    BY <2>21 DEF ErrorWithChild
  <2>22. CASE PersistCancel
    BY <2>22 DEF PersistCancel
  <2>23. CASE WriteFinal
    BY <2>23 DEF WriteFinal, FinalStatus
  <2>24. CASE WriteFails
    BY <2>24 DEF WriteFails
  <2>25. CASE Signal
    BY <2>25 DEF Signal, DeliverSignal
  <2>26. CASE InterruptBoth
    BY <2>26 DEF InterruptBoth, DeliverSignal
  <2>27. CASE DriverGivesUp
    BY <2>27 DEF DriverGivesUp
  <2>28. CASE WrapperKilled
    BY <2>28 DEF WrapperKilled
  <2>29. CASE UNCHANGED vars
    BY <2>29 DEF vars
  <2> QED
    BY <2>1, <2>2, <2>3, <2>4, <2>5, <2>6, <2>7, <2>8, <2>9, <2>10, <2>11,
       <2>12, <2>13, <2>14, <2>15, <2>16, <2>17, <2>18, <2>19, <2>20, <2>21,
       <2>22, <2>23, <2>24, <2>25, <2>26, <2>27, <2>28, <2>29 DEF Next,
       WrapperStep
<1> QED BY <1>1, <1>2, PTL DEF Spec

\* The inductive invariant: what wrapper, child, files and driver know of each
\* other at every place of run_flow.py's main(), signals and kills included.
THEOREM FlowInvariant == Spec => []FlowInv
<1>1. Init => FlowInv
  BY DEF Init, FlowInv, ChildInv, RecordInv, CodeInv, VerdictInv, Alive, InTry
<1>2. TypeOK /\ FlowInv /\ [Next]_vars => FlowInv'
  <2> SUFFICES ASSUME TypeOK, FlowInv, [Next]_vars PROVE FlowInv'
    OBVIOUS
  <2> USE FlowAssumption DEF TypeOK, FlowInv, ChildInv, RecordInv, CodeInv, VerdictInv,
          Earned, wrapperVars, childVars, driverVars, Lines, Statuses, Alive, InTry
  <2>1. CASE StartRun
    BY <2>1 DEF StartRun
  <2>2. CASE FlowFailed
    BY <2>2 DEF FlowFailed
  <2>3. CASE FlowReturned
    BY <2>3 DEF FlowReturned
  <2>4. CASE CheckSimulation
    BY <2>4 DEF CheckSimulation, CheckPasses
  <2>5. CASE DriverKilled
    BY <2>5 DEF DriverKilled
  <2>6. CASE ChildPrint
    BY <2>6 DEF ChildPrint
  <2>7. CASE ChildExit
    BY <2>7 DEF ChildExit
  <2>8. CASE Launch
    BY <2>8 DEF Launch
  <2>9. CASE LaunchRejected
    BY <2>9 DEF LaunchRejected
  <2>10. CASE InstallHandlers
    BY <2>10 DEF InstallHandlers
  <2>11. CASE OpenLog
    BY <2>11 DEF OpenLog
  <2>12. CASE NothingStarted
    BY <2>12 DEF NothingStarted
  <2>13. CASE Fork
    BY <2>13 DEF Fork
  <2>14. CASE PopenReturns
    BY <2>14 DEF PopenReturns
  <2>15. CASE WriteChildPid
    BY <2>15 DEF WriteChildPid
  <2>16. CASE ReadLine
    <3>1. PICK l : /\ log' = log \cup {[kind |-> l, run |-> run]}
                   /\ marker' = (mode = "marker" /\ l = "ok")
                   /\ wpc' = IF mode = "marker" /\ l = "ok" THEN "stopping" ELSE "reading"
      BY <2>16 DEF ReadLine
    <3>2. \A e \in log' : e.run = run
      BY <2>16, <3>1 DEF ReadLine
    <3>3. /\ wpc' = "stopping" => marker'
          /\ wpc' # "stopping" => wpc' = "reading" /\ ~marker'
      BY <3>1
    <3> QED BY <2>16, <3>1, <3>2, <3>3 DEF ReadLine
  <2>17. CASE EndOfOutput
    BY <2>17 DEF EndOfOutput
  <2>18. CASE SendTerm
    BY <2>18 DEF SendTerm, Terminating
  <2>19. CASE TermTimeout
    BY <2>19 DEF TermTimeout, Terminating
  <2>20. CASE Terminated
    BY <2>20 DEF Terminated, Terminating, TerminatedCode
  <2>21. CASE ErrorWithChild
    BY <2>21 DEF ErrorWithChild
  <2>22. CASE PersistCancel
    BY <2>22 DEF PersistCancel
  <2>23. CASE WriteFinal
    BY <2>23 DEF WriteFinal, FinalStatus
  <2>24. CASE WriteFails
    BY <2>24 DEF WriteFails
  <2>25. CASE Signal
    BY <2>25 DEF Signal, DeliverSignal
  <2>26. CASE InterruptBoth
    BY <2>26 DEF InterruptBoth, DeliverSignal
  <2>27. CASE DriverGivesUp
    BY <2>27 DEF DriverGivesUp
  <2>28. CASE WrapperKilled
    BY <2>28 DEF WrapperKilled
  <2>29. CASE UNCHANGED vars
    BY <2>29 DEF vars
  <2> QED
    BY <2>1, <2>2, <2>3, <2>4, <2>5, <2>6, <2>7, <2>8, <2>9, <2>10, <2>11,
       <2>12, <2>13, <2>14, <2>15, <2>16, <2>17, <2>18, <2>19, <2>20, <2>21,
       <2>22, <2>23, <2>24, <2>25, <2>26, <2>27, <2>28, <2>29 DEF Next,
       WrapperStep
<1> QED BY <1>1, <1>2, FlowTypeCorrect, PTL DEF Spec

\* A result "passed" is earned by the child of its own run.
THEOREM PassIsEarned == Spec => []PassedIsEarned
<1>1. FlowInv => PassedIsEarned
  BY DEF FlowInv, CodeInv, Earned, PassedIsEarned
<1> QED BY <1>1, FlowInvariant, PTL

\* A verdict "passed" of check_simulation.py rests on its own run alone.
THEOREM VerdictIsOfOwnRun == Spec => []VerdictOfOwnRun
<1>1. FlowInv => VerdictOfOwnRun
  BY DEF FlowInv, CodeInv, VerdictInv, Earned, VerdictOfOwnRun
<1> QED BY <1>1, FlowInvariant, PTL

\* A file that says that nothing is left to clean up is right about the child
\* the wrapper knew, whoever was signalled or killed.
THEOREM NoOrphanIsHidden == Spec => []NoOrphanBehindVerdict
<1>1. Init => NoOrphanBehindVerdict
  BY DEF Init, NoOrphanBehindVerdict
<1>2. TypeOK /\ FlowInv /\ NoOrphanBehindVerdict /\ [Next]_vars => NoOrphanBehindVerdict'
  <2> SUFFICES ASSUME TypeOK, FlowInv, NoOrphanBehindVerdict, [Next]_vars
               PROVE  NoOrphanBehindVerdict'
    OBVIOUS
  <2> USE FlowAssumption DEF TypeOK, FlowInv, ChildInv, RecordInv, NoOrphanBehindVerdict,
          wrapperVars, childVars, driverVars, Statuses, Alive, InTry
  <2>1. CASE StartRun
    BY <2>1 DEF StartRun
  <2>2. CASE FlowFailed
    BY <2>2 DEF FlowFailed
  <2>3. CASE FlowReturned
    BY <2>3 DEF FlowReturned
  <2>4. CASE CheckSimulation
    BY <2>4 DEF CheckSimulation, CheckPasses
  <2>5. CASE DriverKilled
    BY <2>5 DEF DriverKilled
  <2>6. CASE ChildPrint
    BY <2>6 DEF ChildPrint
  <2>7. CASE ChildExit
    BY <2>7 DEF ChildExit
  <2>8. CASE Launch
    BY <2>8 DEF Launch
  <2>9. CASE LaunchRejected
    BY <2>9 DEF LaunchRejected
  <2>10. CASE InstallHandlers
    BY <2>10 DEF InstallHandlers
  <2>11. CASE OpenLog
    BY <2>11 DEF OpenLog
  <2>12. CASE NothingStarted
    BY <2>12 DEF NothingStarted
  <2>13. CASE Fork
    BY <2>13 DEF Fork
  <2>14. CASE PopenReturns
    BY <2>14 DEF PopenReturns
  <2>15. CASE WriteChildPid
    BY <2>15 DEF WriteChildPid
  <2>16. CASE ReadLine
    BY <2>16 DEF ReadLine
  <2>17. CASE EndOfOutput
    BY <2>17 DEF EndOfOutput
  <2>18. CASE SendTerm
    BY <2>18 DEF SendTerm, Terminating
  <2>19. CASE TermTimeout
    BY <2>19 DEF TermTimeout, Terminating
  <2>20. CASE Terminated
    BY <2>20 DEF Terminated, Terminating, TerminatedCode
  <2>21. CASE ErrorWithChild
    BY <2>21 DEF ErrorWithChild
  <2>22. CASE PersistCancel
    BY <2>22 DEF PersistCancel
  <2>23. CASE WriteFinal
    BY <2>23 DEF WriteFinal, FinalStatus
  <2>24. CASE WriteFails
    BY <2>24 DEF WriteFails
  <2>25. CASE Signal
    BY <2>25 DEF Signal, DeliverSignal
  <2>26. CASE InterruptBoth
    BY <2>26 DEF InterruptBoth, DeliverSignal
  <2>27. CASE DriverGivesUp
    BY <2>27 DEF DriverGivesUp
  <2>28. CASE WrapperKilled
    BY <2>28 DEF WrapperKilled
  <2>29. CASE UNCHANGED vars
    BY <2>29 DEF vars
  <2> QED
    BY <2>1, <2>2, <2>3, <2>4, <2>5, <2>6, <2>7, <2>8, <2>9, <2>10, <2>11,
       <2>12, <2>13, <2>14, <2>15, <2>16, <2>17, <2>18, <2>19, <2>20, <2>21,
       <2>22, <2>23, <2>24, <2>25, <2>26, <2>27, <2>28, <2>29 DEF Next,
       WrapperStep
<1> QED BY <1>1, <1>2, FlowTypeCorrect, FlowInvariant, PTL DEF Spec

\* A workload of run_hp_sim.py never stands beside another one's verdict.
THEOREM VerdictIsNotReused == Spec => []NoReusedVerdict
<1>1. Init => NoReusedVerdict
  BY DEF Init, NoReusedVerdict
<1>2. TypeOK /\ NoReusedVerdict /\ [Next]_vars => NoReusedVerdict'
  <2> SUFFICES ASSUME TypeOK, NoReusedVerdict, [Next]_vars
               PROVE  NoReusedVerdict'
    OBVIOUS
  <2> USE FlowAssumption DEF TypeOK, NoReusedVerdict, wrapperVars, childVars, driverVars
  <2>1. CASE StartRun
    BY <2>1 DEF StartRun
  <2>2. CASE FlowFailed
    BY <2>2 DEF FlowFailed
  <2>3. CASE FlowReturned
    BY <2>3 DEF FlowReturned
  <2>4. CASE CheckSimulation
    BY <2>4 DEF CheckSimulation, CheckPasses
  <2>5. CASE DriverKilled
    BY <2>5 DEF DriverKilled
  <2>6. CASE ChildPrint
    BY <2>6 DEF ChildPrint
  <2>7. CASE ChildExit
    BY <2>7 DEF ChildExit
  <2>8. CASE Launch
    BY <2>8 DEF Launch
  <2>9. CASE LaunchRejected
    BY <2>9 DEF LaunchRejected
  <2>10. CASE InstallHandlers
    BY <2>10 DEF InstallHandlers
  <2>11. CASE OpenLog
    BY <2>11 DEF OpenLog
  <2>12. CASE NothingStarted
    BY <2>12 DEF NothingStarted
  <2>13. CASE Fork
    BY <2>13 DEF Fork
  <2>14. CASE PopenReturns
    BY <2>14 DEF PopenReturns
  <2>15. CASE WriteChildPid
    BY <2>15 DEF WriteChildPid
  <2>16. CASE ReadLine
    BY <2>16 DEF ReadLine
  <2>17. CASE EndOfOutput
    BY <2>17 DEF EndOfOutput
  <2>18. CASE SendTerm
    BY <2>18 DEF SendTerm, Terminating
  <2>19. CASE TermTimeout
    BY <2>19 DEF TermTimeout, Terminating
  <2>20. CASE Terminated
    BY <2>20 DEF Terminated, Terminating, TerminatedCode
  <2>21. CASE ErrorWithChild
    BY <2>21 DEF ErrorWithChild
  <2>22. CASE PersistCancel
    BY <2>22 DEF PersistCancel
  <2>23. CASE WriteFinal
    BY <2>23 DEF WriteFinal, FinalStatus
  <2>24. CASE WriteFails
    BY <2>24 DEF WriteFails
  <2>25. CASE Signal
    BY <2>25 DEF Signal, DeliverSignal
  <2>26. CASE InterruptBoth
    BY <2>26 DEF InterruptBoth, DeliverSignal
  <2>27. CASE DriverGivesUp
    BY <2>27 DEF DriverGivesUp
  <2>28. CASE WrapperKilled
    BY <2>28 DEF WrapperKilled
  <2>29. CASE UNCHANGED vars
    BY <2>29 DEF vars
  <2> QED
    BY <2>1, <2>2, <2>3, <2>4, <2>5, <2>6, <2>7, <2>8, <2>9, <2>10, <2>11,
       <2>12, <2>13, <2>14, <2>15, <2>16, <2>17, <2>18, <2>19, <2>20, <2>21,
       <2>22, <2>23, <2>24, <2>25, <2>26, <2>27, <2>28, <2>29 DEF Next,
       WrapperStep
<1> QED BY <1>1, <1>2, FlowTypeCorrect, PTL DEF Spec

\* Once an interrupt is persisted the wrapper never reports success.
THEOREM CancellationIsFinal == Spec => CancelIsFinal
<1> DEFINE Stays == flow.status = "interrupted" /\ flow.run = run /\ run' = run
                        => flow'.status # "passed"
<1>1. TypeOK /\ FlowInv /\ [Next]_vars => [Stays]_vars
  <2> SUFFICES ASSUME TypeOK, FlowInv, [Next]_vars PROVE Stays \/ UNCHANGED vars
    OBVIOUS
  <2> USE FlowAssumption DEF TypeOK, FlowInv, RecordInv, wrapperVars, childVars, driverVars,
          Statuses, Alive, InTry
  <2>1. CASE StartRun
    BY <2>1 DEF StartRun
  <2>2. CASE FlowFailed
    BY <2>2 DEF FlowFailed
  <2>3. CASE FlowReturned
    BY <2>3 DEF FlowReturned
  <2>4. CASE CheckSimulation
    BY <2>4 DEF CheckSimulation, CheckPasses
  <2>5. CASE DriverKilled
    BY <2>5 DEF DriverKilled
  <2>6. CASE ChildPrint
    BY <2>6 DEF ChildPrint
  <2>7. CASE ChildExit
    BY <2>7 DEF ChildExit
  <2>8. CASE Launch
    BY <2>8 DEF Launch
  <2>9. CASE LaunchRejected
    BY <2>9 DEF LaunchRejected
  <2>10. CASE InstallHandlers
    BY <2>10 DEF InstallHandlers
  <2>11. CASE OpenLog
    BY <2>11 DEF OpenLog
  <2>12. CASE NothingStarted
    BY <2>12 DEF NothingStarted
  <2>13. CASE Fork
    BY <2>13 DEF Fork
  <2>14. CASE PopenReturns
    BY <2>14 DEF PopenReturns
  <2>15. CASE WriteChildPid
    BY <2>15 DEF WriteChildPid
  <2>16. CASE ReadLine
    BY <2>16 DEF ReadLine
  <2>17. CASE EndOfOutput
    BY <2>17 DEF EndOfOutput
  <2>18. CASE SendTerm
    BY <2>18 DEF SendTerm, Terminating
  <2>19. CASE TermTimeout
    BY <2>19 DEF TermTimeout, Terminating
  <2>20. CASE Terminated
    BY <2>20 DEF Terminated, Terminating, TerminatedCode
  <2>21. CASE ErrorWithChild
    BY <2>21 DEF ErrorWithChild
  <2>22. CASE PersistCancel
    BY <2>22 DEF PersistCancel
  <2>23. CASE WriteFinal
    BY <2>23 DEF WriteFinal, FinalStatus
  <2>24. CASE WriteFails
    BY <2>24 DEF WriteFails
  <2>25. CASE Signal
    BY <2>25 DEF Signal, DeliverSignal
  <2>26. CASE InterruptBoth
    BY <2>26 DEF InterruptBoth, DeliverSignal
  <2>27. CASE DriverGivesUp
    BY <2>27 DEF DriverGivesUp
  <2>28. CASE WrapperKilled
    BY <2>28 DEF WrapperKilled
  <2>29. CASE UNCHANGED vars
    BY <2>29 DEF vars
  <2> QED
    BY <2>1, <2>2, <2>3, <2>4, <2>5, <2>6, <2>7, <2>8, <2>9, <2>10, <2>11,
       <2>12, <2>13, <2>14, <2>15, <2>16, <2>17, <2>18, <2>19, <2>20, <2>21,
       <2>22, <2>23, <2>24, <2>25, <2>26, <2>27, <2>28, <2>29 DEF Next,
       WrapperStep
<1> QED BY <1>1, FlowTypeCorrect, FlowInvariant, PTL DEF Spec, CancelIsFinal

\* The wrapper, whatever happens to it, implements the abstract result file of
\* FlowResult.
THEOREM WrapperKeepsResult == Spec => ResultIsKept
<1>1. Init => Result!Init
  BY DEF Init, Result!Init
<1>2. TypeOK /\ FlowInv /\ [Next]_vars => [Result!Next]_(Result!resultVars)
  <2> SUFFICES ASSUME TypeOK, FlowInv, [Next]_vars
               PROVE  Result!Next \/ UNCHANGED Result!resultVars
    OBVIOUS
  <2> USE FlowAssumption DEF TypeOK, FlowInv, ChildInv, RecordInv, CodeInv, Earned,
          wrapperVars, childVars, driverVars, Statuses, Alive, InTry
  <2>1. CASE StartRun
    <3>1. Result!Begin
      BY <2>1 DEF StartRun, Result!Begin
    <3> QED BY <3>1 DEF Result!Next
  <2>2. CASE FlowFailed
    BY <2>2 DEF FlowFailed, Result!resultVars
  <2>3. CASE FlowReturned
    BY <2>3 DEF FlowReturned, Result!resultVars
  <2>4. CASE CheckSimulation
    BY <2>4 DEF CheckSimulation, CheckPasses, Result!resultVars
  <2>5. CASE DriverKilled
    BY <2>5 DEF DriverKilled, Result!resultVars
  <2>6. CASE ChildPrint
    BY <2>6 DEF ChildPrint, Result!resultVars
  <2>7. CASE ChildExit
    <3>1. Result!Over
      BY <2>7 DEF ChildExit, Result!Over
    <3> QED BY <3>1 DEF Result!Next
  <2>8. CASE Launch
    <3>1. Result!Open
      BY <2>8 DEF Launch, Result!Open
    <3> QED BY <3>1 DEF Result!Next
  <2>9. CASE LaunchRejected
    BY <2>9 DEF LaunchRejected, Result!resultVars
  <2>10. CASE InstallHandlers
    BY <2>10 DEF InstallHandlers, Result!resultVars
  <2>11. CASE OpenLog
    BY <2>11 DEF OpenLog, Result!resultVars
  <2>12. CASE NothingStarted
    BY <2>12 DEF NothingStarted, Result!resultVars
  <2>13. CASE Fork
    <3>1. Result!Work
      BY <2>13 DEF Fork, Result!Work
    <3> QED BY <3>1 DEF Result!Next
  <2>14. CASE PopenReturns
    BY <2>14 DEF PopenReturns, Result!resultVars
  <2>15. CASE WriteChildPid
    BY <2>15 DEF WriteChildPid, Result!resultVars
  <2>16. CASE ReadLine
    BY <2>16 DEF ReadLine, Result!resultVars
  <2>17. CASE EndOfOutput
    BY <2>17 DEF EndOfOutput, Result!resultVars
  <2>18. CASE SendTerm
    BY <2>18 DEF SendTerm, Terminating, Result!resultVars
  <2>19. CASE TermTimeout
    <3>1. Result!Over
      BY <2>19 DEF TermTimeout, Terminating, Result!Over
    <3> QED BY <3>1 DEF Result!Next
  <2>20. CASE Terminated
    BY <2>20 DEF Terminated, Terminating, TerminatedCode, Result!resultVars
  <2>21. CASE ErrorWithChild
    BY <2>21 DEF ErrorWithChild, Result!resultVars
  <2>22. CASE PersistCancel
    <3>1. Result!Cancel(proc)
      BY <2>22 DEF PersistCancel, Result!Cancel
    <3> QED BY <3>1 DEF Result!Next
  <2>23. CASE WriteFinal
    <3>1. FinalStatus \in {"passed", "failed", "interrupted"}
      BY DEF FinalStatus
    <3>2. CASE flow.status = "running" \/ flow.pending
      <4>1. Result!Close(FinalStatus)
        BY <2>23, <3>2 DEF WriteFinal, FinalStatus, Result!Close
      <4> QED BY <3>1, <4>1 DEF Result!Next
    <3>3. CASE flow.status = "interrupted" /\ ~flow.pending
      BY <2>23, <3>3 DEF WriteFinal, FinalStatus, Result!resultVars
    <3> QED BY <2>23, <3>2, <3>3 DEF WriteFinal
  <2>24. CASE WriteFails
    BY <2>24 DEF WriteFails, Result!resultVars
  <2>25. CASE Signal
    BY <2>25 DEF Signal, DeliverSignal, Result!resultVars
  <2>26. CASE InterruptBoth
    BY <2>26 DEF InterruptBoth, DeliverSignal, Result!resultVars
  <2>27. CASE DriverGivesUp
    BY <2>27 DEF DriverGivesUp, Result!resultVars
  <2>28. CASE WrapperKilled
    BY <2>28 DEF WrapperKilled, Result!resultVars
  <2>29. CASE UNCHANGED vars
    BY <2>29 DEF vars, Result!resultVars
  <2> QED
    BY <2>1, <2>2, <2>3, <2>4, <2>5, <2>6, <2>7, <2>8, <2>9, <2>10, <2>11,
       <2>12, <2>13, <2>14, <2>15, <2>16, <2>17, <2>18, <2>19, <2>20, <2>21,
       <2>22, <2>23, <2>24, <2>25, <2>26, <2>27, <2>28, <2>29 DEF Next,
       WrapperStep
<1> QED BY <1>1, <1>2, FlowTypeCorrect, FlowInvariant, PTL DEF Spec, ResultIsKept, Result!Spec
=============================================================================
