--------------------------- MODULE ClockSwitch_proofs ------------------------
(***************************************************************************)
(* The PLL sequencer for every set of selectors, timeout and qualification *)
(* length: the HP root runs only from a PLL whose configuration is the one *)
(* reported, and it is switched only while HP traffic is blocked.          *)
(***************************************************************************)
EXTENDS ClockSwitch, TLAPS

\* One clock edge of the sequencer, for inputs that are named.
Edge(req, fs, clear, idle, ready) ==
  Sequence(req, fs, clear, idle, ready) /\ PllStep /\ timeout' \in Timeouts

\* RcuNext is an edge for some inputs.
LEMMA NextIsEdge ==
  ASSUME RcuNext
  PROVE  \E req \in Requests, fs, clear, idle, ready \in BOOLEAN :
           Edge(req, fs, clear, idle, ready)
BY DEF RcuNext, Edge, Requests

\* An edge of the sequencer and of the PLL keeps the type invariant.
LEMMA TypeStep ==
  ASSUME RcuTypeOK, NEW req \in Requests, NEW fs \in BOOLEAN,
         NEW clear \in BOOLEAN, NEW idle \in BOOLEAN, NEW ready \in BOOLEAN,
         Edge(req, fs, clear, idle, ready)
  PROVE  RcuTypeOK'
<1> USE PllAssumption DEF clockVars, activeVars, Goto, Fail
<1>1. /\ pll_apply' \in BOOLEAN /\ timeout' \in Timeouts
      /\ run_sel' \in 0 .. 7 /\ pll_lock' \in BOOLEAN /\ capable' \in BOOLEAN
  BY DEF Edge, Sequence, PllStep, RcuTypeOK
<1>2. CountUp \in 0 .. CntMax
  BY DEF CountUp, RcuTypeOK
<1>3. fault_sticky' \in BOOLEAN
  <2>1. \E raised \in BOOLEAN : Fault(raised, clear)
    BY DEF Edge, Sequence, IdleStep, ValidateStep, QuiesceStep, ParkLpStep,
       ApplyPllStep, WaitLockLowStep, QualifyLockStep, SwitchPllStep,
       RestoreLpStep, RespondStep, FailSafeStep, AwaitOrFail
  <2> QED  BY <2>1 DEF Fault
<1>4. err' \in {err, NoError, Unsupported, TimedOut, LockLost}
  BY DEF Edge, Sequence, IdleStep, ValidateStep, QuiesceStep, ParkLpStep,
     ApplyPllStep, WaitLockLowStep, QualifyLockStep, SwitchPllStep,
     RestoreLpStep, RespondStep, FailSafeStep, AwaitOrFail
<1>5. timeout_cnt' \in {timeout_cnt, 0, CountUp}
  BY DEF Edge, Sequence, IdleStep, ValidateStep, QuiesceStep, ParkLpStep,
     ApplyPllStep, WaitLockLowStep, QualifyLockStep, SwitchPllStep,
     RestoreLpStep, RespondStep, FailSafeStep, AwaitOrFail
<1>6. /\ pll_sel' \in {pll_sel, req} /\ (pll_sel' # pll_sel => req # None)
      /\ active_sel' \in {active_sel, pll_sel}
  BY DEF Edge, Sequence, IdleStep, ValidateStep, QuiesceStep, ParkLpStep,
     ApplyPllStep, WaitLockLowStep, QualifyLockStep, SwitchPllStep,
     RestoreLpStep, RespondStep, FailSafeStep, AwaitOrFail
<1>7. lock_qual_cnt' = lock_qual_cnt \/ lock_qual_cnt' = 0
        \/ (~Qualified /\ lock_qual_cnt' = QualCount)
  BY DEF Edge, Sequence, IdleStep, ValidateStep, QuiesceStep, ParkLpStep,
     ApplyPllStep, WaitLockLowStep, QualifyLockStep, SwitchPllStep,
     RestoreLpStep, RespondStep, FailSafeStep, AwaitOrFail
<1>8. state' \in States
  BY DEF RcuTypeOK, States, Edge, Sequence, IdleStep, ValidateStep, QuiesceStep, ParkLpStep,
     ApplyPllStep, WaitLockLowStep, QualifyLockStep, SwitchPllStep,
     RestoreLpStep, RespondStep, FailSafeStep, AwaitOrFail
<1>9. /\ sel_ext' \in {sel_ext, TRUE, FALSE}
      /\ hp_block' \in {hp_block, TRUE, FALSE}
      /\ lp_force_ref' \in {lp_force_ref, TRUE, FALSE}
      /\ safe_clk' \in {safe_clk, TRUE, FALSE}
  BY DEF Edge, Sequence, IdleStep, ValidateStep, QuiesceStep, ParkLpStep,
     ApplyPllStep, WaitLockLowStep, QualifyLockStep, SwitchPllStep,
     RestoreLpStep, RespondStep, FailSafeStep, AwaitOrFail
<1>10. /\ active_valid' \in {active_valid, TRUE, FALSE}
       /\ lock' \in {lock, TRUE, FALSE}
       /\ rsp_valid' \in {rsp_valid, TRUE, FALSE}
  BY DEF Edge, Sequence, IdleStep, ValidateStep, QuiesceStep, ParkLpStep,
     ApplyPllStep, WaitLockLowStep, QualifyLockStep, SwitchPllStep,
     RestoreLpStep, RespondStep, FailSafeStep, AwaitOrFail
<1>11. lock_qual_cnt' \in 0 .. LockQualCycles - 1
  BY <1>7 DEF RcuTypeOK, Qualified, QualCount
<1>12. err' \in 0 .. 3 /\ timeout_cnt' \in 0 .. CntMax
  BY <1>2, <1>4, <1>5 DEF RcuTypeOK, NoError, Unsupported, TimedOut, LockLost
<1>13. pll_sel' \in 0 .. 7 /\ active_sel' \in 0 .. 7
  BY <1>6 DEF RcuTypeOK, Requests
<1>14. /\ sel_ext' \in BOOLEAN /\ hp_block' \in BOOLEAN
       /\ lp_force_ref' \in BOOLEAN /\ safe_clk' \in BOOLEAN
       /\ active_valid' \in BOOLEAN /\ lock' \in BOOLEAN
       /\ rsp_valid' \in BOOLEAN
  <2>1. /\ sel_ext \in BOOLEAN /\ hp_block \in BOOLEAN
        /\ lp_force_ref \in BOOLEAN /\ safe_clk \in BOOLEAN
        /\ active_valid \in BOOLEAN /\ lock \in BOOLEAN
        /\ rsp_valid \in BOOLEAN
    BY DEF RcuTypeOK
  <2>2. /\ sel_ext' \in BOOLEAN /\ hp_block' \in BOOLEAN
        /\ lp_force_ref' \in BOOLEAN /\ safe_clk' \in BOOLEAN
    BY <1>9, <2>1
  <2>3. /\ active_valid' \in BOOLEAN /\ lock' \in BOOLEAN
        /\ rsp_valid' \in BOOLEAN
    BY <1>10, <2>1
  <2> QED  BY <2>2, <2>3
<1> QED  BY <1>1, <1>3, <1>8, <1>11, <1>12, <1>13, <1>14 DEF RcuTypeOK

LEMMA RcuStarts == RcuInit => RcuTypeOK /\ RcuInv
<1>1. RcuInit => RcuTypeOK
  <2> SUFFICES ASSUME RcuInit  PROVE RcuTypeOK
    OBVIOUS
  <2>1. /\ lock_qual_cnt \in 0 .. LockQualCycles - 1
        /\ timeout_cnt \in 0 .. CntMax /\ err \in 0 .. 3
        /\ pll_sel \in 0 .. 7 /\ active_sel \in 0 .. 7 /\ run_sel \in 0 .. 7
    BY PllAssumption DEF RcuInit, NoError
  <2>2. state \in States /\ timeout \in Timeouts
    BY DEF RcuInit, States
  <2>3. /\ pll_apply \in BOOLEAN /\ sel_ext \in BOOLEAN /\ hp_block \in BOOLEAN
        /\ lp_force_ref \in BOOLEAN /\ active_valid \in BOOLEAN
        /\ safe_clk \in BOOLEAN /\ lock \in BOOLEAN
        /\ fault_sticky \in BOOLEAN /\ rsp_valid \in BOOLEAN
        /\ capable \in BOOLEAN /\ pll_lock \in BOOLEAN
    BY DEF RcuInit
  <2> QED  BY <2>1, <2>2, <2>3 DEF RcuTypeOK
<1>2. RcuInit => RcuInv
  BY DEF RcuInit, RcuInv, Blocked
<1> QED BY <1>1, <1>2

\* A step that leaves the sequencer alone keeps what is known about it.
LEMMA RcuRests ==
  ASSUME UNCHANGED rcuVars
  PROVE  (RcuTypeOK => RcuTypeOK') /\ (RcuInv => RcuInv')
<1>1. /\ UNCHANGED <<state, pll_sel, pll_apply, hp_block, timeout_cnt, lock_qual_cnt>>
      /\ UNCHANGED <<err, fault_sticky, rsp_valid, sel_ext, lp_force_ref, safe_clk>>
      /\ UNCHANGED <<active_sel, active_valid, lock, timeout, capable, pll_lock, run_sel>>
  BY DEF rcuVars, seqVars, clockVars, activeVars, pllVars
<1>2. RcuTypeOK => RcuTypeOK'
  BY <1>1 DEF RcuTypeOK
<1>3. RcuInv => RcuInv'
  BY <1>1 DEF RcuInv
<1> QED BY <1>2, <1>3

\* The registers of the sequencer, the status it reports and the PLL it drives
\* keep their types (pll_rcu_controller.sv): in particular the lock counter
\* never reaches LockQualCycles and the timeout counter wraps.
THEOREM RcuTypeCorrect == RcuSpec => []RcuTypeOK
<1>1. RcuInit => RcuTypeOK
  BY RcuStarts
<1>2. RcuTypeOK /\ [RcuNext]_rcuVars => RcuTypeOK'
  <2>1. ASSUME RcuTypeOK, RcuNext  PROVE RcuTypeOK'
    BY <2>1, NextIsEdge, TypeStep
  <2>2. ASSUME RcuTypeOK, UNCHANGED rcuVars  PROVE RcuTypeOK'
    BY <2>2, RcuRests
  <2> QED  BY <2>1, <2>2
<1> QED  BY <1>1, <1>2, PTL DEF RcuSpec

\* An edge keeps the invariant: one case per state of the sequencer.
LEMMA InvStep ==
  ASSUME RcuTypeOK, RcuInv, NEW req \in Requests, NEW fs \in BOOLEAN,
         NEW clear \in BOOLEAN, NEW idle \in BOOLEAN, NEW ready \in BOOLEAN,
         Edge(req, fs, clear, idle, ready)
  PROVE  RcuInv'
<1> USE DEF RcuInv, NoError, Unsupported, TimedOut, LockLost, Blocked,
        clockVars, activeVars, Goto, Fail
<1>1. /\ pll_apply' = (state = "ApplyPll") /\ UNCHANGED capable
      /\ ~pll_apply => UNCHANGED run_sel
      /\ pll_apply => run_sel' = pll_sel
  BY DEF Edge, Sequence, PllStep
<1>2. /\ sel_ext \in BOOLEAN /\ active_valid \in BOOLEAN
      /\ hp_block \in BOOLEAN /\ pll_apply \in BOOLEAN
      /\ capable \in BOOLEAN /\ safe_clk \in BOOLEAN
  BY DEF RcuTypeOK
<1>3. CASE IdleStep(req, fs, clear)
  <2>1. /\ state = "Idle" /\ UNCHANGED <<sel_ext, safe_clk>>
        /\ UNCHANGED <<active_sel, active_valid>>
        /\ state' \in {"Idle", "Validate", "FailSafe"}
        /\ state' = "FailSafe" => err' \in {NoError, LockLost}
    BY <1>3 DEF IdleStep
  <2> QED  BY <1>1, <1>2, <2>1
<1>4. CASE ValidateStep(clear)
  <2>1. /\ state = "Validate" /\ UNCHANGED <<sel_ext, safe_clk>>
        /\ UNCHANGED <<active_sel, active_valid>>
        /\ \/ state' = "FailSafe" /\ err' = Unsupported /\ ~capable
           \/ state' = "Quiesce" /\ hp_block' = TRUE /\ capable
    BY <1>4 DEF ValidateStep
  <2> QED  BY <1>1, <1>2, <2>1
<1>5. CASE QuiesceStep(idle, clear)
  <2>1. /\ state = "Quiesce" /\ UNCHANGED <<sel_ext, safe_clk>>
        /\ UNCHANGED <<active_sel, active_valid, hp_block>>
        /\ \/ state' = "FailSafe" /\ err' = TimedOut
           \/ state' \in {"Quiesce", "ParkLp"}
    BY <1>5 DEF QuiesceStep, AwaitOrFail
  <2> QED  BY <1>1, <1>2, <2>1
<1>6. CASE ParkLpStep(clear)
  BY <1>1, <1>2, <1>6 DEF ParkLpStep
<1>7. CASE ApplyPllStep(clear)
  BY <1>1, <1>2, <1>7 DEF ApplyPllStep
<1>8. CASE WaitLockLowStep(clear)
  <2>1. /\ state = "WaitLockLow" /\ UNCHANGED <<sel_ext, safe_clk>>
        /\ UNCHANGED <<active_sel, active_valid, hp_block, pll_sel>>
        /\ \/ state' = "FailSafe" /\ err' = TimedOut
           \/ state' \in {"WaitLockLow", "QualifyLock"}
    BY <1>8 DEF WaitLockLowStep, AwaitOrFail
  <2>2. run_sel' = pll_sel
    BY <1>1, <1>2, <2>1
  <2>3. sel_ext /\ capable /\ hp_block /\ pll_apply' = FALSE
    BY <1>1, <1>2, <2>1
  <2> QED  BY <1>1, <1>2, <2>1, <2>2, <2>3
<1>9. CASE QualifyLockStep(clear)
  <2>1. /\ state = "QualifyLock" /\ UNCHANGED <<sel_ext, safe_clk>>
        /\ UNCHANGED <<pll_sel, hp_block>>
    BY <1>9 DEF QualifyLockStep
  <2>2. /\ state' \in {"FailSafe", "SwitchPll", "QualifyLock"}
        /\ state' = "FailSafe" => err' = TimedOut
        /\ state' = "SwitchPll" => active_valid' = TRUE /\ active_sel' = pll_sel
    BY <1>9 DEF QualifyLockStep
  <2>3. UNCHANGED run_sel /\ run_sel = pll_sel /\ sel_ext /\ hp_block
        /\ capable /\ pll_apply' = FALSE
    BY <1>1, <1>2, <2>1
  <2> QED  BY <1>1, <1>2, <2>1, <2>2, <2>3
<1>10. CASE SwitchPllStep(clear)
  BY <1>1, <1>2, <1>10 DEF SwitchPllStep
<1>11. CASE RestoreLpStep(clear)
  BY <1>1, <1>2, <1>11 DEF RestoreLpStep
<1>12. CASE RespondStep(ready, clear)
  BY <1>1, <1>2, <1>12 DEF RespondStep
<1>13. CASE FailSafeStep(clear)
  BY <1>1, <1>2, <1>13 DEF FailSafeStep
<1> QED
  BY <1>3, <1>4, <1>5, <1>6, <1>7, <1>8, <1>9, <1>10, <1>11, <1>12, <1>13
     DEF Edge, Sequence

\* What every state of pll_rcu_controller.sv knows about the PLL and about the
\* blocked HP traffic, under any requests, commands and lock behaviour.
THEOREM RcuInvariant == RcuSpec => []RcuInv
<1>1. RcuInit => RcuInv
  BY RcuStarts
<1>2. RcuTypeOK /\ RcuInv /\ [RcuNext]_rcuVars => RcuInv'
  <2>1. ASSUME RcuTypeOK, RcuInv, RcuNext  PROVE RcuInv'
    BY <2>1, NextIsEdge, InvStep
  <2>2. ASSUME RcuInv, UNCHANGED rcuVars  PROVE RcuInv'
    BY <2>2, RcuRests
  <2> QED  BY <2>1, <2>2
<1> QED  BY <1>1, <1>2, RcuTypeCorrect, PTL DEF RcuSpec

\* The HP root is never on a PLL that is being reconfigured or whose
\* configuration is not the reported one (sel_ext_clk_o, pll_apply_o).
THEOREM PllIsStableInUse == RcuSpec => []PllStableInUse
<1>1. RcuInv => PllStableInUse
  BY DEF RcuInv, PllStableInUse
<1> QED  BY <1>1, RcuInvariant, PTL

\* sel_ext_clk_o changes only while hp_block_o is high, or on the way to the
\* safe clock after a lost lock or a force-safe command.
THEOREM SwitchIsBlocked == RcuSpec => BlockedWhileSwitching
<1> DEFINE Ok == sel_ext' # sel_ext =>
              hp_block \/ (state = "FailSafe" /\ err \in {NoError, LockLost})
<1>1. ASSUME RcuTypeOK, RcuInv, NEW req \in Requests, NEW fs \in BOOLEAN,
             NEW clear \in BOOLEAN, NEW idle \in BOOLEAN, NEW ready \in BOOLEAN,
             Edge(req, fs, clear, idle, ready)
      PROVE  Ok
  <2>1. CASE state \notin {"ParkLp", "SwitchPll", "FailSafe"}
    <3>1. UNCHANGED sel_ext
      BY <1>1, <2>1 DEF Edge, Sequence, IdleStep, ValidateStep, QuiesceStep,
         ParkLpStep, ApplyPllStep, WaitLockLowStep, QualifyLockStep,
         SwitchPllStep, RestoreLpStep, RespondStep, FailSafeStep, clockVars
    <3> QED  BY <3>1
  <2>2. CASE state \in {"ParkLp", "SwitchPll"}
    BY <1>1, <2>2 DEF RcuInv, Blocked
  <2>3. CASE state = "FailSafe"
    <3>1. sel_ext' = TRUE
      BY <1>1, <2>3 DEF Edge, Sequence, IdleStep, ValidateStep, QuiesceStep,
         ParkLpStep, ApplyPllStep, WaitLockLowStep, QualifyLockStep,
         SwitchPllStep, RestoreLpStep, RespondStep, FailSafeStep
    <3>2. err = Unsupported => sel_ext = TRUE
      BY <1>1, <2>3 DEF RcuInv, RcuTypeOK
    <3>3. err = TimedOut => hp_block
      BY <1>1, <2>3 DEF RcuInv
    <3>4. err \in {NoError, Unsupported, TimedOut, LockLost}
      BY <1>1 DEF RcuTypeOK, NoError, Unsupported, TimedOut, LockLost
    <3> QED  BY <2>3, <3>1, <3>2, <3>3, <3>4
  <2> QED  BY <2>1, <2>2, <2>3
<1>2. RcuTypeOK /\ RcuInv /\ [RcuNext]_rcuVars => [Ok]_rcuVars
  <2>1. ASSUME RcuTypeOK, RcuInv, RcuNext  PROVE Ok
    BY <2>1, NextIsEdge, <1>1
  <2> QED  BY <2>1
<1> QED
  BY <1>2, RcuTypeCorrect, RcuInvariant, PTL DEF RcuSpec, BlockedWhileSwitching

\* A failure that is reported through err has set the sticky fault, even when
\* software clears the fault in the same cycle.
THEOREM FailureIsSticky == RcuSpec => FailureLeavesFault
<1> DEFINE Ok == state # "FailSafe" /\ state' = "FailSafe" /\ err' # NoError
                   => fault_sticky'
<1>1. ASSUME NEW req \in Requests, NEW fs \in BOOLEAN,
             NEW clear \in BOOLEAN, NEW idle \in BOOLEAN, NEW ready \in BOOLEAN,
             Edge(req, fs, clear, idle, ready)
      PROVE  Ok
  BY <1>1 DEF Edge, Sequence, IdleStep, ValidateStep, QuiesceStep, ParkLpStep,
     ApplyPllStep, WaitLockLowStep, QualifyLockStep, SwitchPllStep,
     RestoreLpStep, RespondStep, FailSafeStep, AwaitOrFail, Goto, Fail, Fault
<1>2. [RcuNext]_rcuVars => [Ok]_rcuVars
  BY NextIsEdge, <1>1
<1> QED  BY <1>2, PTL DEF RcuSpec, FailureLeavesFault
-----------------------------------------------------------------------------
(* The change of a frequency end to end: the inductive invariant.          *)

\* A word that crosses and has not been taken.
Underway(p) == p \in {"sent", "arriving", "valid"}

\* Every selector that is asked for is one that software uses.
RequestInv ==
  /\ pc # "idle" => want \in Sels
  /\ pc \in {"apply", "poll"} => cfg \in Sels
  /\ req_valid => cfg \in Sels
  /\ Underway(req_cdc) => req_word \in Sels

\* While the sequencer rests, the clocks as they are stand in PLL_STATUS, or in
\* the response that is on its way there.
ReportInv ==
  /\ rsp_valid => state = "Respond"
  /\ state = "Idle" /\ Underway(rsp_cdc) => rsp_word[2] = Status
  /\ state = "Idle" /\ ~Underway(rsp_cdc) => status = Status

\* What a success and what a failure promise.
AsAsked == ~sel_ext /\ active_sel = want /\ run_sel = want
Outcome(e) == IF e = NoError THEN AsAsked ELSE sel_ext

\* The one request of the driver is in exactly one place, with what is known of
\* its outcome there.
Quiet == ~req_valid /\ ~Underway(req_cdc) /\ state = "Idle" /\ ~Underway(rsp_cdc)
Requested == req_valid /\ ~Underway(req_cdc) /\ state = "Idle" /\ ~Underway(rsp_cdc)
Crossing ==
  /\ ~req_valid /\ Underway(req_cdc) /\ state = "Idle" /\ ~Underway(rsp_cdc)
  /\ req_word = want
Served ==
  /\ ~req_valid /\ ~Underway(req_cdc) /\ state # "Idle" /\ ~Underway(rsp_cdc)
  /\ pll_sel = want
  /\ state = "FailSafe" => err # NoError
  /\ state = "SwitchPll" => active_sel = pll_sel
  /\ state = "RestoreLp" => AsAsked
  /\ state = "Respond" => Outcome(err)
Answered ==
  /\ ~req_valid /\ ~Underway(req_cdc) /\ state = "Idle" /\ Underway(rsp_cdc)
  /\ Outcome(rsp_word[1])

\* Undisturbed, BUSY follows the request.
BusyInv ==
  disturb = "none" =>
    /\ cmd_cdc = "free" /\ capable /\ (active_valid => pll_lock)
    /\ ~busy => Quiet
    /\ busy => Requested \/ Crossing \/ Served \/ Answered

\* Undisturbed, the driver reads the outcome of its own request.
DriverInv ==
  disturb = "none" =>
    /\ busy => pc \in {"idle", "poll"} /\ err_reason = NoError
    /\ pc \in {"cfg", "apply"} => err_reason = NoError
    /\ pc \in {"idle", "apply", "poll"} => cfg = want
    /\ pc = "poll" /\ ~busy => Outcome(err_reason)
    /\ pc = "idle" /\ result = "OK" => ~busy /\ AsAsked
    /\ pc = "idle" /\ result \in {"Unsupported", "Timeout", "Error"} => ~busy /\ sel_ext

SwitchInv == TypeOK /\ RcuInv /\ RequestInv /\ ReportInv /\ BusyInv /\ DriverInv
-----------------------------------------------------------------------------
(* Type correctness, and what the sequencer knows about the PLL.           *)

LEMMA SwitchConstants ==
  /\ Sels \subseteq 0 .. 7 /\ None \notin Sels /\ PollLimit \in Nat \ {0} /\ MaxForceSafe \in Nat
BY PllAssumption, SwitchAssumption

\* The phases of a channel.
LEMMA Phases ==
  ASSUME NEW p
  PROVE  /\ p \in Phase => Receive(p) \in Phase /\ Acknowledge(p) \in Phase
         /\ Underway(Receive(p)) <=> Underway(p)
         /\ Underway(Acknowledge(p)) <=> Underway(p)
         /\ Underway("sent") /\ Underway("valid") /\ ~Underway("free") /\ ~Underway("taken")
         /\ Acknowledge("free") = "free"
BY DEF Phase, Receive, Acknowledge, Underway

\* The request the sequencer sees in a cycle.
Offered == IF req_cdc = "valid" THEN req_word ELSE None

\* An AonTick is an edge of the sequencer.
LEMMA TickIsEdge ==
  ASSUME TypeOK, RequestInv, NEW idle \in BOOLEAN, AonTick(idle)
  PROVE  \E fs, clear, ready \in BOOLEAN :
           /\ fs <=> force_safe
           /\ Offered \in Requests
           /\ Edge(Offered, fs, clear, idle, ready)
<1>1. Offered \in Requests
  BY DEF Offered, Requests, RequestInv, Underway
<1>2. timeout' \in Timeouts
  BY DEF AonTick, TypeOK, RcuTypeOK
<1>3. Edge(Offered, force_safe, FALSE, idle, rsp_cdc = "free")
  BY <1>2 DEF AonTick, Edge, Offered
<1>4. force_safe \in BOOLEAN /\ (rsp_cdc = "free") \in BOOLEAN /\ FALSE \in BOOLEAN
  BY DEF force_safe
<1> QED BY <1>1, <1>3, <1>4, Zenon

LEMMA TickTypes ==
  ASSUME TypeOK, RequestInv, RcuInv, NEW idle \in BOOLEAN, AonTick(idle)
  PROVE  TypeOK' /\ RequestInv' /\ RcuInv'
<1>1. RcuTypeOK' /\ RcuInv'
  BY TickIsEdge, TypeStep, InvStep DEF TypeOK
<1>2. /\ UNCHANGED <<regVars, req_word, commands, halVars, disturb>>
      /\ req_cdc' = IF TakesRequest THEN "taken" ELSE Receive(req_cdc)
      /\ cmd_cdc' = CommandStep(cmd_cdc)
      /\ rsp_cdc' = IF rsp_valid /\ rsp_cdc = "free" THEN "sent" ELSE Acknowledge(rsp_cdc)
      /\ rsp_word' = IF rsp_valid /\ rsp_cdc = "free" THEN <<err, Status>> ELSE rsp_word
  BY DEF AonTick
<1>3. req_cdc' \in Phase /\ rsp_cdc' \in Phase /\ cmd_cdc' \in Phase \cup {"pulse"}
  BY <1>2 DEF TypeOK, CommandStep, Receive, Acknowledge, Phase
<1>4. rsp_word' \in (0 .. 3) \X Statuses
  BY <1>2 DEF TypeOK, RcuTypeOK, Status, Statuses
<1>5. TypeOK'
  BY <1>1, <1>2, <1>3, <1>4, Zenon DEF TypeOK, regVars, halVars
<1>6. Underway(req_cdc') => Underway(req_cdc)
  BY <1>2, Phases
<1>7. RequestInv'
  BY <1>2, <1>6, Zenon DEF RequestInv, regVars, halVars
<1> QED BY <1>1, <1>5, <1>7

LEMMA RegisterTypes ==
  ASSUME TypeOK, RequestInv, RcuInv, NEW write, PclkEdge(write),
         write = "cfg" => want \in Sels, write = "apply" => cfg \in Sels
  PROVE  /\ RcuTypeOK' /\ RcuInv'
         /\ req_valid' \in BOOLEAN /\ busy' \in BOOLEAN
         /\ cfg' \in 0 .. 7 /\ err_reason' \in 0 .. 3 /\ status' \in Statuses
         /\ req_cdc' \in Phase /\ rsp_cdc' \in Phase /\ cmd_cdc' \in Phase \cup {"pulse"}
         /\ rsp_word' \in (0 .. 3) \X Statuses /\ commands' \in 0 .. MaxForceSafe
         /\ disturb' \in Disturbances
         /\ req_valid' => cfg' \in Sels
         /\ Underway(req_cdc') => req_word' \in Sels
<1>1. UNCHANGED <<rcuVars, rsp_word, disturb>> /\ Registers(write) /\ Channels /\ Commands
  BY DEF PclkEdge
<1>2. RcuTypeOK' /\ RcuInv'
  BY <1>1 DEF TypeOK, RcuTypeOK, RcuInv, rcuVars, seqVars, clockVars, activeVars, pllVars
<1>3. /\ req_valid \in BOOLEAN /\ busy \in BOOLEAN /\ cfg \in 0 .. 7 /\ err_reason \in 0 .. 3
      /\ status \in Statuses /\ req_cdc \in Phase /\ rsp_cdc \in Phase
      /\ cmd_cdc \in Phase \cup {"pulse"} /\ rsp_word \in (0 .. 3) \X Statuses
      /\ commands \in 0 .. MaxForceSafe /\ disturb \in Disturbances
  BY DEF TypeOK
<1>4. req_valid' \in BOOLEAN /\ busy' \in BOOLEAN
  BY <1>1, <1>3 DEF Registers
<1>5. cfg' \in 0 .. 7 /\ (req_valid' => cfg' \in Sels)
  BY <1>1, <1>3, SwitchConstants DEF Registers, RequestInv
<1>6. err_reason' \in 0 .. 3
  BY <1>1, <1>3 DEF Registers, NoError
<1>7. status' \in Statuses
  BY <1>1, <1>3 DEF Registers
<1>8. req_cdc' \in Phase /\ rsp_cdc' \in Phase
  BY <1>1, <1>3 DEF Channels, Receive, Acknowledge, Phase
<1>9. cmd_cdc' \in Phase \cup {"pulse"} /\ commands' \in 0 .. MaxForceSafe
  <2>1. CASE cmd_cdc' = Acknowledge(cmd_cdc) /\ UNCHANGED commands
    BY <2>1, <1>3 DEF Acknowledge, Phase
  <2>2. CASE commands < MaxForceSafe /\ cmd_cdc' = "sent" /\ commands' = commands + 1
    BY <2>2, <1>3, SwitchConstants DEF Phase
  <2> QED BY <1>1, <2>1, <2>2 DEF Commands
<1>10. Underway(req_cdc') => req_word' \in Sels
  <2>1. CASE req_valid /\ req_cdc = "free"
    BY <2>1, <1>1 DEF Channels, RequestInv
  <2>2. CASE ~(req_valid /\ req_cdc = "free")
    BY <2>2, <1>1, Phases DEF Channels, RequestInv
  <2> QED BY <2>1, <2>2
<1> QED BY <1>1, <1>2, <1>3, <1>4, <1>5, <1>6, <1>7, <1>8, <1>9, <1>10

\* The PCLK edges with the access of the driver each of them makes.
Access(write) ==
  \/ write = "none" /\ UNCHANGED halVars
  \/ write = "none" /\ \E frequency \in Sels : CallSetFrequency(frequency)
  \/ write = "clear" /\ pc = "clear" /\ Goes("cfg")
  \/ write = "cfg" /\ pc = "cfg" /\ Goes("apply")
  \/ write = "apply" /\ pc = "apply" /\ Goes("poll")
  \/ write = "none" /\ PollStatus

LEMMA NextSplits ==
  ASSUME Next
  PROVE  \/ \E idle \in BOOLEAN : AonTick(idle)
         \/ \E write : PclkEdge(write) /\ Access(write)
BY DEF Next, PclkIdle, CallSetFrequency, Driver, ClearError, SetConfig, ApplyConfig, PollStatus, Access

LEMMA AccessTypes ==
  ASSUME TypeOK, RequestInv, RcuInv, NEW write, PclkEdge(write), Access(write)
  PROVE  TypeOK' /\ RequestInv' /\ RcuInv'
<1>0. /\ pc \in {"idle", "clear", "cfg", "apply", "poll"} /\ want \in Sels \cup {0}
      /\ polls \in 0 .. PollLimit - 1 /\ result \in Results /\ busy_observed \in BOOLEAN
      /\ busy \in BOOLEAN
  BY DEF TypeOK
<1>w. (write = "cfg" => want \in Sels) /\ (write = "apply" => cfg \in Sels)
  BY DEF Access, RequestInv
<1>r. /\ RcuTypeOK' /\ RcuInv'
      /\ req_valid' \in BOOLEAN /\ busy' \in BOOLEAN
      /\ cfg' \in 0 .. 7 /\ err_reason' \in 0 .. 3 /\ status' \in Statuses
      /\ req_cdc' \in Phase /\ rsp_cdc' \in Phase /\ cmd_cdc' \in Phase \cup {"pulse"}
      /\ rsp_word' \in (0 .. 3) \X Statuses /\ commands' \in 0 .. MaxForceSafe
      /\ disturb' \in Disturbances
      /\ req_valid' => cfg' \in Sels
      /\ Underway(req_cdc') => req_word' \in Sels
  BY <1>w, RegisterTypes
<1>c. cfg' = IF write = "cfg" THEN want ELSE cfg
  BY DEF PclkEdge, Registers
<1> DEFINE Hal ==
      /\ pc' \in {"idle", "clear", "cfg", "apply", "poll"} /\ want' \in Sels \cup {0}
      /\ polls' \in 0 .. PollLimit - 1 /\ result' \in Results /\ busy_observed' \in BOOLEAN
      /\ pc' # "idle" => want' \in Sels
      /\ pc' \in {"apply", "poll"} => cfg' \in Sels
<1>1. ASSUME write = "none" /\ UNCHANGED halVars PROVE Hal
  BY <1>0, <1>1, <1>c DEF halVars, RequestInv
<1>2. ASSUME write = "none" /\ \E frequency \in Sels : CallSetFrequency(frequency) PROVE Hal
  <2> PICK frequency \in Sels : CallSetFrequency(frequency)
    BY <1>2
  <2>1. \/ pc' = "idle" /\ want' = want /\ result' = "Busy"
        \/ pc' = "clear" /\ want' = frequency /\ result' = "none"
    BY <1>0 DEF CallSetFrequency
  <2>2. polls' = 0 /\ busy_observed' = FALSE
    BY DEF CallSetFrequency
  <2>3. pc' \in {"idle", "clear"} /\ want' \in Sels \cup {0} /\ result' \in Results
    BY <1>0, <2>1 DEF Results
  <2>4. polls' \in 0 .. PollLimit - 1
    BY <2>2, SwitchConstants
  <2>5. pc' # "idle" => want' \in Sels
    BY <2>1
  <2> QED BY <2>2, <2>3, <2>4, <2>5
<1>3. ASSUME write = "clear" /\ pc = "clear" /\ Goes("cfg") PROVE Hal
  BY <1>0, <1>3 DEF Goes, RequestInv
<1>4. ASSUME write = "cfg" /\ pc = "cfg" /\ Goes("apply") PROVE Hal
  BY <1>0, <1>4, <1>c DEF Goes, RequestInv
<1>5. ASSUME write = "apply" /\ pc = "apply" /\ Goes("poll") PROVE Hal
  BY <1>0, <1>5, <1>c DEF Goes, RequestInv
<1>6. ASSUME write = "none" /\ PollStatus PROVE Hal
  <2>1. /\ busy_observed' \in BOOLEAN /\ want' = want /\ pc = "poll"
    BY <1>0, <1>6 DEF PollStatus
  <2>2. \/ result' = Verdict /\ pc' = "idle" /\ polls' = 0
        \/ result' = "GaveUp" /\ pc' = "idle" /\ polls' = 0
        \/ polls + 1 # PollLimit /\ polls' = polls + 1 /\ pc' = "poll" /\ result' = result
    BY <1>0, <1>6 DEF PollStatus
  <2>3. result' \in Results
    BY <1>0, <2>2 DEF Verdict, Results
  <2>4. polls' \in 0 .. PollLimit - 1
    BY <1>0, <2>2, SwitchConstants
  <2> QED BY <1>0, <1>6, <1>c, <2>1, <2>2, <2>3, <2>4 DEF RequestInv
<1>7. Hal
  BY <1>1, <1>2, <1>3, <1>4, <1>5, <1>6 DEF Access
<1>8. TypeOK'
  BY <1>7, <1>r, Zenon DEF TypeOK
<1>9. RequestInv'
  BY <1>7, <1>r, Zenon DEF RequestInv
<1> QED BY <1>8, <1>9, <1>r

LEMMA SwitchTypeStep ==
  TypeOK /\ RequestInv /\ RcuInv /\ [Next]_vars => TypeOK' /\ RequestInv' /\ RcuInv'
<1> SUFFICES ASSUME TypeOK, RequestInv, RcuInv, [Next]_vars
             PROVE  TypeOK' /\ RequestInv' /\ RcuInv'
  OBVIOUS
<1>1. CASE Next
  BY <1>1, NextSplits, TickTypes, AccessTypes
<1>2. CASE UNCHANGED vars
  <2>1. RcuTypeOK' /\ RcuInv'
    BY <1>2, RcuRests DEF vars, TypeOK
  <2>2. /\ UNCHANGED <<req_valid, cfg, busy, err_reason, status, disturb>>
        /\ UNCHANGED <<req_cdc, req_word, rsp_cdc, rsp_word, cmd_cdc, commands>>
        /\ UNCHANGED <<pc, want, polls, busy_observed, result>>
    BY <1>2 DEF vars, regVars, chanVars, halVars
  <2>3. TypeOK'
    BY <2>1, <2>2 DEF TypeOK
  <2>4. RequestInv'
    BY <2>2 DEF RequestInv, Underway
  <2> QED BY <2>1, <2>3, <2>4
<1> QED BY <1>1, <1>2

LEMMA SwitchTypeInit == Init => TypeOK /\ RequestInv /\ RcuInv
<1> SUFFICES ASSUME Init PROVE TypeOK /\ RequestInv /\ RcuInv
  OBVIOUS
<1>1. RcuTypeOK /\ RcuInv
  BY RcuStarts DEF Init, SwitchInit
<1>2. TypeOK
  <2>1. /\ cfg \in 0 .. 7 /\ err_reason \in 0 .. 3 /\ polls \in 0 .. PollLimit - 1
        /\ commands \in 0 .. MaxForceSafe
    BY SwitchConstants DEF Init, SwitchInit, NoError
  <2>2. Status \in Statuses
    BY <1>1 DEF Status, Statuses, RcuTypeOK
  <2>3. status \in Statuses /\ rsp_word \in (0 .. 3) \X Statuses
    BY <1>1, <2>2 DEF Init, SwitchInit, RcuTypeOK
  <2>4. /\ req_valid \in BOOLEAN /\ busy \in BOOLEAN /\ busy_observed \in BOOLEAN
        /\ req_cdc \in Phase /\ rsp_cdc \in Phase /\ cmd_cdc \in Phase \cup {"pulse"}
        /\ pc \in {"idle", "clear", "cfg", "apply", "poll"} /\ want \in Sels \cup {0}
        /\ result \in Results /\ disturb \in Disturbances
    BY DEF Init, SwitchInit, Phase, Results
  <2> QED BY <1>1, <2>1, <2>3, <2>4 DEF TypeOK
<1>3. RequestInv
  BY DEF Init, SwitchInit, RequestInv, Underway
<1> QED BY <1>1, <1>2, <1>3

\* The registers, channels and driver of a frequency change keep their types, with
\* force-safe commands, lost locks and overlapping calls.
THEOREM SwitchTypeCorrect == Spec => []TypeOK
<1>1. TypeOK /\ RequestInv /\ RcuInv /\ [Next]_vars => (TypeOK /\ RequestInv /\ RcuInv)'
  BY SwitchTypeStep
<1> QED BY <1>1, SwitchTypeInit, PTL DEF Spec
-----------------------------------------------------------------------------
(* The report of the sequencer on its way to PLL_STATUS.                   *)

\* Where the sequencer leaves what it reports alone, and when it comes to rest.
LEMMA Reports ==
  ASSUME NEW req, NEW fs, NEW clear, NEW idle, NEW ready, Sequence(req, fs, clear, idle, ready),
         rsp_valid => state = "Respond"
  PROVE  /\ state \in {"Idle", "Respond"} =>
              UNCHANGED <<sel_ext, safe_clk, active_sel, active_valid, lock>>
         /\ state # "Idle" /\ state' = "Idle" => state = "Respond" /\ rsp_valid /\ ready
         /\ state = "Respond" /\ rsp_valid /\ ready => state' = "Idle" /\ ~rsp_valid'
         /\ rsp_valid' => state' = "Respond"
<1> USE DEF clockVars, activeVars, Goto, Fail
<1>1. CASE IdleStep(req, fs, clear)
  BY <1>1 DEF IdleStep
<1>2. CASE RespondStep(ready, clear)
  BY <1>2 DEF RespondStep
<1>3. CASE \/ ValidateStep(clear) \/ QuiesceStep(idle, clear) \/ ParkLpStep(clear)
           \/ ApplyPllStep(clear) \/ WaitLockLowStep(clear) \/ QualifyLockStep(clear)
           \/ SwitchPllStep(clear) \/ RestoreLpStep(clear) \/ FailSafeStep(clear)
  <2>1. state \notin {"Idle", "Respond"} /\ state' # "Idle" /\ rsp_valid' = rsp_valid
    BY <1>3 DEF ValidateStep, QuiesceStep, ParkLpStep, ApplyPllStep, WaitLockLowStep,
       QualifyLockStep, SwitchPllStep, RestoreLpStep, FailSafeStep, AwaitOrFail
  <2> QED BY <2>1
<1> QED BY <1>1, <1>2, <1>3 DEF Sequence

LEMMA TickReports ==
  ASSUME TypeOK, ReportInv, NEW idle \in BOOLEAN, AonTick(idle)
  PROVE  ReportInv'
<1>1. /\ state \in {"Idle", "Respond"} =>
            UNCHANGED <<sel_ext, safe_clk, active_sel, active_valid, lock>>
      /\ state # "Idle" /\ state' = "Idle" => state = "Respond" /\ rsp_valid /\ rsp_cdc = "free"
      /\ rsp_valid' => state' = "Respond"
  BY Reports DEF AonTick, ReportInv
<1>2. /\ rsp_cdc' = IF rsp_valid /\ rsp_cdc = "free" THEN "sent" ELSE Acknowledge(rsp_cdc)
      /\ rsp_word' = IF rsp_valid /\ rsp_cdc = "free" THEN <<err, Status>> ELSE rsp_word
      /\ status' = status
  BY DEF AonTick, regVars
<1>3. state \in {"Idle", "Respond"} => Status' = Status
  BY <1>1 DEF Status
<1>4. ASSUME state = "Idle"
      PROVE  /\ Underway(rsp_cdc') => rsp_word'[2] = Status'
             /\ ~Underway(rsp_cdc') => status' = Status'
  BY <1>2, <1>3, <1>4, Phases DEF ReportInv
<1>5. ASSUME state # "Idle", state' = "Idle"
      PROVE  Underway(rsp_cdc') /\ rsp_word'[2] = Status'
  BY <1>1, <1>2, <1>3, <1>5, Phases
<1> QED BY <1>1, <1>4, <1>5 DEF ReportInv

LEMMA EdgeReports ==
  ASSUME ReportInv, NEW write, PclkEdge(write)
  PROVE  ReportInv'
<1>1. /\ state' = state /\ rsp_valid' = rsp_valid /\ rsp_word' = rsp_word
      /\ Status' = Status
  BY DEF PclkEdge, rcuVars, seqVars, clockVars, activeVars, Status
<1>2. /\ rsp_cdc' = IF rsp_cdc = "valid" THEN "taken" ELSE Receive(rsp_cdc)
      /\ status' = IF rsp_cdc = "valid" THEN rsp_word[2] ELSE status
  BY DEF PclkEdge, Channels, Registers
<1> QED BY <1>1, <1>2, Phases DEF ReportInv

-----------------------------------------------------------------------------
(* Undisturbed, the request is in one place.                               *)

\* One edge of the sequencer while it serves a request.
LEMMA ServedEdge ==
  ASSUME RcuTypeOK, RcuInv, NEW req, NEW fs, NEW clear, NEW idle, NEW ready,
         Sequence(req, fs, clear, idle, ready), PllStep,
         rsp_valid => state = "Respond",
         state # "Idle", pll_sel = want, want' = want,
         state = "FailSafe" => err # NoError,
         state = "SwitchPll" => active_sel = pll_sel,
         state = "RestoreLp" => AsAsked,
         state = "Respond" => Outcome(err)
  PROVE  /\ pll_sel' = want'
         /\ state' = "FailSafe" => err' # NoError
         /\ state' = "SwitchPll" => active_sel' = pll_sel'
         /\ state' = "RestoreLp" => AsAsked'
         /\ state' = "Respond" => Outcome(err)'
         /\ state' = "Idle" => Outcome(err)'
<1> USE DEF clockVars, activeVars, Goto, Fail
<1>0. /\ ~pll_apply \/ state = "WaitLockLow"
      /\ state = "SwitchPll" => run_sel = active_sel
      /\ ~pll_apply => run_sel' = run_sel
  BY DEF RcuInv, PllStep
<1>1. CASE ValidateStep(clear)
  <2>1. /\ state = "Validate" /\ pll_sel' = pll_sel
        /\ (state' = "FailSafe" /\ err' = Unsupported) \/ state' = "Quiesce"
    BY <1>1 DEF ValidateStep
  <2> QED BY <2>1 DEF NoError, Unsupported
<1>2. CASE QuiesceStep(idle, clear)
  <2>1. /\ state = "Quiesce" /\ pll_sel' = pll_sel
        /\ (state' = "FailSafe" /\ err' = TimedOut) \/ state' \in {"ParkLp", "Quiesce"}
    BY <1>2 DEF QuiesceStep, AwaitOrFail
  <2> QED BY <2>1 DEF NoError, TimedOut
<1>3. CASE ParkLpStep(clear)
  BY <1>3 DEF ParkLpStep
<1>4. CASE ApplyPllStep(clear)
  BY <1>4 DEF ApplyPllStep
<1>5. CASE WaitLockLowStep(clear)
  <2>1. /\ state = "WaitLockLow" /\ pll_sel' = pll_sel
        /\ \/ state' = "FailSafe" /\ err' = TimedOut
           \/ state' \in {"QualifyLock", "WaitLockLow"}
    BY <1>5 DEF WaitLockLowStep, AwaitOrFail
  <2> QED BY <2>1 DEF NoError, TimedOut
<1>6. CASE QualifyLockStep(clear)
  <2>1. /\ state = "QualifyLock" /\ pll_sel' = pll_sel
        /\ \/ state' = "FailSafe" /\ err' = TimedOut
           \/ state' = "SwitchPll" /\ active_sel' = pll_sel
           \/ state' = "QualifyLock"
    BY <1>6 DEF QualifyLockStep
  <2> QED BY <2>1 DEF NoError, TimedOut
<1>7. CASE SwitchPllStep(clear)
  <2>1. /\ state = "SwitchPll" /\ state' = "RestoreLp" /\ pll_sel' = pll_sel
        /\ sel_ext' = FALSE /\ active_sel' = active_sel
    BY <1>7 DEF SwitchPllStep
  <2> QED BY <1>0, <2>1 DEF AsAsked
<1>8. CASE RestoreLpStep(clear)
  <2>1. /\ state = "RestoreLp" /\ state' = "Respond" /\ pll_sel' = pll_sel
        /\ sel_ext' = sel_ext /\ active_sel' = active_sel /\ err' = NoError
    BY <1>8 DEF RestoreLpStep
  <2>2. AsAsked'
    BY <1>0, <2>1 DEF AsAsked
  <2> QED BY <2>1, <2>2 DEF Outcome
<1>9. CASE RespondStep(ready, clear)
  <2>1. /\ state = "Respond" /\ state' \in {"Respond", "Idle"} /\ pll_sel' = pll_sel
        /\ sel_ext' = sel_ext /\ active_sel' = active_sel /\ err' = err
    BY <1>9 DEF RespondStep
  <2>2. run_sel' = run_sel
    BY <1>0, <2>1
  <2> QED BY <2>1, <2>2 DEF Outcome, AsAsked
<1>10. CASE FailSafeStep(clear)
  <2>1. /\ state = "FailSafe" /\ state' = "Respond" /\ pll_sel' = pll_sel
        /\ sel_ext' = TRUE /\ err' = err
    BY <1>10 DEF FailSafeStep
  <2> QED BY <2>1 DEF Outcome
<1>11. CASE IdleStep(req, fs, clear)
  BY <1>11 DEF IdleStep
<1> QED BY <1>1, <1>2, <1>3, <1>4, <1>5, <1>6, <1>7, <1>8, <1>9, <1>10, <1>11 DEF Sequence

LEMMA TickBusy ==
  ASSUME TypeOK, RcuInv, RequestInv, ReportInv, BusyInv, DriverInv, disturb = "none",
         NEW idle \in BOOLEAN, AonTick(idle)
  PROVE  BusyInv' /\ DriverInv'
<1>1. /\ Sequence(Offered, force_safe, FALSE, idle, rsp_cdc = "free") /\ PllStep
      /\ UNCHANGED <<regVars, halVars, req_word, disturb>>
      /\ active_valid' => pll_lock'
      /\ req_cdc' = IF TakesRequest THEN "taken" ELSE Receive(req_cdc)
      /\ cmd_cdc' = CommandStep(cmd_cdc)
      /\ rsp_cdc' = IF rsp_valid /\ rsp_cdc = "free" THEN "sent" ELSE Acknowledge(rsp_cdc)
      /\ rsp_word' = IF rsp_valid /\ rsp_cdc = "free" THEN <<err, Status>> ELSE rsp_word
  BY DEF AonTick, Offered
<1>2. UNCHANGED <<req_valid, cfg, busy, err_reason, pc, want, result, disturb, req_word>>
  BY <1>1 DEF regVars, halVars
<1>3. cmd_cdc' = "free" /\ ~force_safe /\ capable'
  BY <1>1 DEF BusyInv, CommandStep, Receive, force_safe, PllStep
<1>4. rsp_valid => state = "Respond"
  BY DEF ReportInv
<1>5. active_valid => pll_lock
  BY DEF BusyInv
\* No command and no lost lock takes the place of a request.
<1>i. ASSUME state = "Idle"
      PROVE  /\ Offered = None => state' = "Idle" /\ pll_sel' = pll_sel
             /\ Offered # None => state' = "Validate" /\ pll_sel' = Offered
  BY <1>1, <1>3, <1>5, <1>i
     DEF Sequence, IdleStep, ValidateStep, QuiesceStep, ParkLpStep, ApplyPllStep, WaitLockLowStep,
         QualifyLockStep, SwitchPllStep, RestoreLpStep, RespondStep, FailSafeStep
\* At rest the sequencer keeps what it reports, and sends nothing.
<1>6. ASSUME state = "Idle"
      PROVE  /\ sel_ext' = sel_ext /\ active_sel' = active_sel /\ run_sel' = run_sel
             /\ rsp_word' = rsp_word /\ (Underway(rsp_cdc') <=> Underway(rsp_cdc))
  <2>1. ~rsp_valid /\ ~pll_apply
    BY <1>4, <1>6 DEF RcuInv
  <2>2. sel_ext' = sel_ext /\ active_sel' = active_sel
    BY <1>1, <1>4, <1>6, Reports
  <2> QED BY <1>1, <2>1, <2>2, Phases DEF PllStep
<1>7. ASSUME state = "Idle", ~Underway(req_cdc)
      PROVE  state' = "Idle" /\ ~Underway(req_cdc')
  <2>1. Offered = None /\ ~TakesRequest
    BY <1>7 DEF Offered, TakesRequest, Underway
  <2> QED BY <1>1, <1>7, <1>i, <2>1, Phases
<1>8. CASE ~busy
  <2>1. Quiet
    BY <1>8 DEF BusyInv
  <2>2. Quiet'
    BY <1>2, <1>6, <1>7, <2>1 DEF Quiet
  <2>3. BusyInv'
    BY <1>1, <1>2, <1>3, <1>8, <2>2 DEF BusyInv
  <2>4. sel_ext' = sel_ext /\ active_sel' = active_sel /\ run_sel' = run_sel
    BY <1>6, <2>1 DEF Quiet
  <2>5. DriverInv'
    BY <1>2, <1>8, <2>4 DEF DriverInv, Outcome, AsAsked
  <2> QED BY <2>3, <2>5
<1>9. CASE busy
  <2>0. DriverInv'
    BY <1>2, <1>9 DEF DriverInv
  <2>1. CASE Requested
    <3>1. Requested'
      BY <1>2, <1>6, <1>7, <2>1 DEF Requested
    <3> QED BY <1>1, <1>2, <1>3, <1>9, <2>0, <3>1 DEF BusyInv
  <2>2. CASE Crossing
    <3>1. state = "Idle" /\ Underway(req_cdc) /\ req_word \in Sels /\ req_word = want
      BY <2>2 DEF Crossing, RequestInv
    <3>2. CASE req_cdc = "valid"
      <4>1. Offered = want /\ Offered # None /\ TakesRequest
        BY <3>1, <3>2, SwitchConstants DEF Offered, TakesRequest
      <4>2. state' = "Validate" /\ pll_sel' = want
        BY <1>1, <1>i, <3>1, <4>1
      <4>3. Served'
        BY <1>1, <1>2, <1>6, <2>2, <3>1, <4>1, <4>2, Phases DEF Served, Crossing
      <4> QED BY <1>1, <1>2, <1>3, <1>9, <2>0, <4>3 DEF BusyInv
    <3>3. CASE req_cdc # "valid"
      <4>1. Offered = None /\ ~TakesRequest
        BY <3>3 DEF Offered, TakesRequest
      <4>2. state' = "Idle" /\ Underway(req_cdc')
        BY <1>1, <1>i, <3>1, <4>1, Phases
      <4>3. Crossing'
        BY <1>2, <1>6, <2>2, <3>1, <4>2 DEF Crossing
      <4> QED BY <1>1, <1>2, <1>3, <1>9, <2>0, <4>3 DEF BusyInv
    <3> QED BY <3>2, <3>3
  <2>3. CASE Served
    <3>1. /\ pll_sel' = want'
          /\ state' = "FailSafe" => err' # NoError
          /\ state' = "SwitchPll" => active_sel' = pll_sel'
          /\ state' = "RestoreLp" => AsAsked'
          /\ state' = "Respond" => Outcome(err)'
          /\ state' = "Idle" => Outcome(err)'
      BY <1>1, <1>2, <1>4, <2>3, ServedEdge DEF Served, TypeOK
    <3>2. ~TakesRequest /\ ~Underway(req_cdc')
      BY <1>1, <2>3, Phases DEF Served, TakesRequest
    <3>3. CASE state' = "Idle"
      <4>1. state = "Respond" /\ rsp_valid /\ rsp_cdc = "free"
        BY <1>1, <1>4, <2>3, <3>3, Reports DEF Served
      <4>2. Underway(rsp_cdc') /\ rsp_word'[1] = err
        BY <1>1, <4>1, Phases
      <4>3. err' = err
        BY <1>1, <4>1 DEF Sequence, RespondStep, IdleStep, ValidateStep, QuiesceStep, ParkLpStep,
           ApplyPllStep, WaitLockLowStep, QualifyLockStep, SwitchPllStep, RestoreLpStep, FailSafeStep
      <4>4. Outcome(rsp_word[1])'
        BY <3>1, <3>3, <4>2, <4>3 DEF Outcome, AsAsked
      <4>5. Answered'
        BY <1>2, <2>3, <3>2, <3>3, <4>2, <4>4 DEF Served, Answered
      <4> QED BY <1>1, <1>2, <1>3, <1>9, <2>0, <4>5 DEF BusyInv
    <3>4. CASE state' # "Idle"
      <4>1. ~(rsp_valid /\ rsp_cdc = "free")
        BY <1>1, <1>4, <3>4, Reports
      <4>2. ~Underway(rsp_cdc')
        BY <1>1, <2>3, <4>1, Phases DEF Served
      <4>3. Served'
        BY <1>2, <2>3, <3>1, <3>2, <3>4, <4>2 DEF Served
      <4> QED BY <1>1, <1>2, <1>3, <1>9, <2>0, <4>3 DEF BusyInv
    <3> QED BY <3>3, <3>4
  <2>4. CASE Answered
    <3>1. Outcome(rsp_word[1])'
      BY <1>2, <1>6, <2>4 DEF Answered, Outcome, AsAsked
    <3>2. Answered'
      BY <1>2, <1>6, <1>7, <2>4, <3>1 DEF Answered
    <3> QED BY <1>1, <1>2, <1>3, <1>9, <2>0, <3>2 DEF BusyInv
  <2> QED BY <1>9, <2>1, <2>2, <2>3, <2>4 DEF BusyInv
<1> QED BY <1>8, <1>9

LEMMA EdgeBusy ==
  ASSUME TypeOK, BusyInv, DriverInv, disturb = "none", NEW write, PclkEdge(write), Access(write)
  PROVE  BusyInv' /\ DriverInv'
<1>0. /\ busy \in BOOLEAN /\ req_valid \in BOOLEAN /\ busy_observed \in BOOLEAN
      /\ pc \in {"idle", "clear", "cfg", "apply", "poll"}
  BY DEF TypeOK
<1>1. UNCHANGED <<state, sel_ext, active_sel, run_sel, pll_sel, err, capable, active_valid, pll_lock,
                  rsp_word, disturb>>
  BY DEF PclkEdge, rcuVars, seqVars, clockVars, activeVars, pllVars
<1>2. /\ cfg' = IF write = "cfg" THEN want ELSE cfg
      /\ rsp_cdc' = IF rsp_cdc = "valid" THEN "taken" ELSE Receive(rsp_cdc)
      /\ req_cdc' = IF req_valid /\ req_cdc = "free" THEN "sent" ELSE Acknowledge(req_cdc)
      /\ req_word' = IF req_valid /\ req_cdc = "free" THEN cfg ELSE req_word
  BY DEF PclkEdge, Registers, Channels
<1>3. cmd_cdc' = "free" /\ capable' /\ (active_valid' => pll_lock')
  BY <1>1, Phases DEF PclkEdge, Commands, BusyInv
<1>4. /\ write \in {"none", "clear", "cfg", "apply"}
      /\ write # "none" => pc = write
      /\ busy => write = "none" /\ pc \in {"idle", "poll"} /\ err_reason = NoError
  BY DEF Access, DriverInv
\* The registers, without and with a request on its way.
<1>5. ASSUME ~busy
      PROVE  /\ Quiet /\ rsp_cdc # "valid"
             /\ busy' <=> write = "apply"
             /\ req_valid' <=> write = "apply"
             /\ ~Underway(rsp_cdc') /\ ~Underway(req_cdc')
             /\ err_reason' = IF write = "clear" THEN NoError ELSE err_reason
  <2>1. Quiet
    BY <1>5 DEF BusyInv
  <2>2. rsp_cdc # "valid" /\ ~req_valid
    BY <2>1 DEF Quiet, Underway
  <2>3. /\ busy' <=> write = "apply"
        /\ req_valid' <=> write = "apply"
        /\ err_reason' = IF write = "clear" THEN NoError ELSE err_reason
    BY <1>4, <1>5, <2>2 DEF PclkEdge, Registers
  <2>4. ~Underway(rsp_cdc') /\ ~Underway(req_cdc')
    BY <1>2, <2>1, <2>2, Phases DEF Quiet
  <2> QED BY <2>1, <2>2, <2>3, <2>4
<1>6. ASSUME busy
      PROVE  /\ cfg' = cfg /\ want' = want /\ pc' \in {"idle", "poll"} /\ cfg = want
             /\ req_valid' <=> req_valid /\ req_cdc # "free"
             /\ rsp_cdc = "valid" => Answered /\ ~busy' /\ err_reason' = rsp_word[1]
             /\ rsp_cdc # "valid" => busy' /\ err_reason' = NoError
  <2>1. cfg' = cfg /\ cfg = want
    BY <1>2, <1>4, <1>6 DEF DriverInv
  <2>2. want' = want /\ pc' \in {"idle", "poll"}
    BY <1>4, <1>6 DEF Access, halVars, CallSetFrequency, PollStatus
  <2>3. req_valid' <=> req_valid /\ req_cdc # "free"
    BY <1>4, <1>6 DEF PclkEdge, Registers
  <2>4. rsp_cdc = "valid" => Answered
    BY <1>6 DEF BusyInv, Requested, Crossing, Served, Underway
  <2>5. /\ rsp_cdc = "valid" => ~busy'
        /\ rsp_cdc # "valid" => busy'
    BY <1>4, <1>6 DEF PclkEdge, Registers
  <2>6. /\ rsp_cdc = "valid" => err_reason' = rsp_word[1]
        /\ rsp_cdc # "valid" => err_reason' = NoError
    BY <1>4, <1>6 DEF PclkEdge, Registers
  <2> QED BY <2>1, <2>2, <2>3, <2>4, <2>5, <2>6
<1>7. BusyInv'
  <2>1. CASE ~busy /\ write = "apply"
    <3>1. Requested' /\ busy'
      BY <1>1, <1>5, <2>1 DEF Requested, Quiet
    <3> QED BY <1>3, <3>1 DEF BusyInv
  <2>2. CASE ~busy /\ write # "apply"
    <3>1. Quiet' /\ ~busy'
      BY <1>1, <1>5, <2>2 DEF Quiet
    <3> QED BY <1>3, <3>1 DEF BusyInv
  <2>3. CASE busy /\ Requested
    <3>1. rsp_cdc # "valid" /\ ~Underway(rsp_cdc') /\ busy'
      BY <1>2, <1>6, <2>3, Phases DEF Requested
    <3>2. CASE req_cdc = "free"
      <4>1. Crossing'
        BY <1>1, <1>2, <1>6, <2>3, <3>1, <3>2, Phases DEF Requested, Crossing
      <4> QED BY <1>3, <3>1, <4>1 DEF BusyInv
    <3>3. CASE req_cdc # "free"
      <4>1. Requested'
        BY <1>1, <1>2, <1>6, <2>3, <3>1, <3>3, Phases DEF Requested
      <4> QED BY <1>3, <3>1, <4>1 DEF BusyInv
    <3> QED BY <3>2, <3>3
  <2>4. CASE busy /\ Crossing
    <3>1. rsp_cdc # "valid" /\ ~Underway(rsp_cdc') /\ busy'
      BY <1>2, <1>6, <2>4, Phases DEF Crossing
    <3>2. Crossing'
      BY <1>1, <1>2, <1>6, <2>4, <3>1, Phases DEF Crossing
    <3> QED BY <1>3, <3>1, <3>2 DEF BusyInv
  <2>5. CASE busy /\ Served
    <3>1. rsp_cdc # "valid" /\ ~Underway(rsp_cdc') /\ busy' /\ ~req_valid' /\ ~Underway(req_cdc')
      BY <1>2, <1>6, <2>5, Phases DEF Served
    <3>2. Served'
      BY <1>1, <1>6, <2>5, <3>1 DEF Served, Outcome, AsAsked
    <3> QED BY <1>3, <3>1, <3>2 DEF BusyInv
  <2>6. CASE busy /\ Answered
    <3>1. ~req_valid' /\ ~Underway(req_cdc') /\ state' = "Idle"
      BY <1>1, <1>2, <1>6, <2>6, Phases DEF Answered
    <3>2. CASE rsp_cdc = "valid"
      <4>1. Quiet' /\ ~busy'
        BY <1>2, <1>6, <2>6, <3>1, <3>2, Phases DEF Quiet
      <4> QED BY <1>3, <4>1 DEF BusyInv
    <3>3. CASE rsp_cdc # "valid"
      <4>1. Answered' /\ busy'
        BY <1>1, <1>2, <1>6, <2>6, <3>1, <3>3, Phases DEF Answered, Outcome, AsAsked
      <4> QED BY <1>3, <4>1 DEF BusyInv
    <3> QED BY <3>2, <3>3
  <2> QED BY <1>0, <2>1, <2>2, <2>3, <2>4, <2>5, <2>6 DEF BusyInv
\* What a finished request left behind stays true while the driver looks at it.
<1>8. ASSUME busy
      PROVE  DriverInv'
  <2>1. rsp_cdc = "valid" => Outcome(err_reason)'
    BY <1>1, <1>6, <1>8 DEF Answered, Outcome, AsAsked
  <2>2. pc' = "idle" => result' \notin {"OK", "Unsupported", "Timeout", "Error"}
    <3>1. pc = "idle" => result \notin {"OK", "Unsupported", "Timeout", "Error"}
      BY <1>8 DEF DriverInv
    <3> QED BY <1>4, <1>8, <3>1 DEF Access, halVars, CallSetFrequency, PollStatus
  <2> QED BY <1>1, <1>6, <1>8, <2>1, <2>2 DEF DriverInv
<1>9. ASSUME ~busy, want' = want
      PROVE  AsAsked' = AsAsked /\ sel_ext' = sel_ext
  BY <1>1, <1>9 DEF AsAsked
<1>10. ASSUME ~busy, write = "none", UNCHANGED halVars
       PROVE  DriverInv'
  <2>1. /\ UNCHANGED <<pc, want, result, cfg, err_reason>> /\ ~busy' /\ disturb' = disturb
    BY <1>1, <1>2, <1>5, <1>10 DEF halVars
  <2> QED BY <1>1, <1>10, <2>1 DEF DriverInv, Outcome, AsAsked
<1>11. ASSUME ~busy, write = "none", NEW frequency \in Sels, CallSetFrequency(frequency)
       PROVE  DriverInv'
  <2>1. pc' = "clear" /\ ~busy'
    BY <1>5, <1>11 DEF CallSetFrequency
  <2> QED BY <2>1 DEF DriverInv
<1>12. ASSUME ~busy, write = "clear", pc = "clear", Goes("cfg")
       PROVE  DriverInv'
  <2>1. pc' = "cfg" /\ ~busy' /\ err_reason' = NoError
    BY <1>5, <1>12 DEF Goes
  <2> QED BY <2>1 DEF DriverInv
<1>13. ASSUME ~busy, write = "cfg", pc = "cfg", Goes("apply")
       PROVE  DriverInv'
  <2>1. pc' = "apply" /\ ~busy' /\ err_reason' = NoError /\ cfg' = want'
    BY <1>2, <1>5, <1>13 DEF Goes, DriverInv
  <2> QED BY <2>1 DEF DriverInv
<1>14. ASSUME ~busy, write = "apply", pc = "apply", Goes("poll")
       PROVE  DriverInv'
  <2>1. pc' = "poll" /\ busy' /\ err_reason' = NoError /\ cfg' = want'
    BY <1>2, <1>5, <1>14 DEF Goes, DriverInv
  <2> QED BY <2>1 DEF DriverInv
<1>15. ASSUME ~busy, write = "none", PollStatus
       PROVE  DriverInv'
  <2>1. /\ pc = "poll" /\ want' = want /\ cfg' = cfg /\ err_reason' = err_reason /\ ~busy'
        /\ cfg = want /\ Outcome(err_reason)
    BY <1>2, <1>5, <1>15 DEF PollStatus, DriverInv
  <2>2. \/ pc' = "idle" /\ result' = Verdict
        \/ pc' = "idle" /\ result' = "GaveUp"
        \/ pc' = "poll"
    BY <1>15, <2>1 DEF PollStatus
  <2>3. /\ Verdict = "OK" => err_reason = NoError
        /\ Verdict \in {"Unsupported", "Timeout", "Error"} => err_reason # NoError
    BY DEF Verdict, NoError, Unsupported, TimedOut
  <2>4. /\ Verdict = "OK" => AsAsked'
        /\ Verdict \in {"Unsupported", "Timeout", "Error"} => sel_ext'
        /\ Outcome(err_reason)'
    BY <1>1, <2>1, <2>3 DEF Outcome, AsAsked
  <2> QED BY <2>1, <2>2, <2>4 DEF DriverInv
<1>16. DriverInv'
  BY <1>0, <1>8, <1>10, <1>11, <1>12, <1>13, <1>14, <1>15 DEF Access
<1> QED BY <1>7, <1>16

LEMMA SwitchStep == SwitchInv /\ [Next]_vars => SwitchInv'
<1> SUFFICES ASSUME SwitchInv, [Next]_vars PROVE SwitchInv'
  OBVIOUS
<1>0. TypeOK /\ RcuInv /\ RequestInv /\ ReportInv /\ BusyInv /\ DriverInv
  BY DEF SwitchInv
<1>1. TypeOK' /\ RcuInv' /\ RequestInv'
  BY <1>0, SwitchTypeStep
<1>2. ASSUME NEW idle \in BOOLEAN, AonTick(idle)
      PROVE  ReportInv' /\ BusyInv' /\ DriverInv'
  <2>1. disturb' = disturb
    BY <1>2 DEF AonTick
  <2>2. CASE disturb = "none"
    BY <1>0, <1>2, <2>2, TickReports, TickBusy
  <2>3. CASE disturb # "none"
    BY <1>0, <1>2, <2>1, <2>3, TickReports DEF BusyInv, DriverInv
  <2> QED BY <2>2, <2>3
<1>3. ASSUME NEW write, PclkEdge(write), Access(write)
      PROVE  ReportInv' /\ BusyInv' /\ DriverInv'
  <2>1. disturb' = disturb
    BY <1>3 DEF PclkEdge
  <2>2. CASE disturb = "none"
    BY <1>0, <1>3, <2>2, EdgeReports, EdgeBusy
  <2>3. CASE disturb # "none"
    BY <1>0, <1>3, <2>1, <2>3, EdgeReports DEF BusyInv, DriverInv
  <2> QED BY <2>2, <2>3
<1>4. ASSUME UNCHANGED vars
      PROVE  ReportInv' /\ BusyInv' /\ DriverInv'
  <2> USE <1>0, <1>4 DEF vars, rcuVars, seqVars, clockVars, activeVars, pllVars, regVars, chanVars, halVars
  <2>1. ReportInv'
    BY Zenon DEF ReportInv, Status
  <2>2. BusyInv'
    BY Zenon DEF BusyInv, Quiet, Requested, Crossing, Served, Answered, Outcome, AsAsked
  <2>3. DriverInv'
    BY Zenon DEF DriverInv, Outcome, AsAsked
  <2> QED BY <2>1, <2>2, <2>3
<1>5. ReportInv' /\ BusyInv' /\ DriverInv'
  BY <1>2, <1>3, <1>4, NextSplits
<1> QED BY <1>1, <1>5 DEF SwitchInv

\* The inductive invariant of a frequency change: where the request and its answer
\* are, and what is known of the clocks there.
THEOREM SwitchInvariant == Spec => []SwitchInv
<1>1. Init => SwitchInv
  <2> SUFFICES ASSUME Init PROVE SwitchInv
    OBVIOUS
  <2>1. TypeOK /\ RcuInv /\ RequestInv
    BY SwitchTypeInit
  <2>2. ReportInv
    BY DEF Init, SwitchInit, RcuInit, ReportInv, Underway
  <2>3. BusyInv
    BY DEF Init, SwitchInit, RcuInit, BusyInv, Quiet, Underway
  <2>4. DriverInv
    BY DEF Init, SwitchInit, DriverInv
  <2> QED BY <2>1, <2>2, <2>3, <2>4 DEF SwitchInv
<1>2. SwitchInv /\ [Next]_vars => SwitchInv'
  BY SwitchStep
<1> QED BY <1>1, <1>2, PTL DEF Spec

\* StatusIsTrue for every selector, timeout, poll limit and number of force-safe
\* commands: PLL_STATUS shows the clocks as they are once the sequencer rests and its
\* response is delivered, however many commands and lost locks came before. Of what
\* rs_clock_set_frequency returns it says something for an undisturbed call only: a
\* response nobody asked for may be paired with the next request
\* (sysctrl_core.sv:365) and falsify the return value of a disturbed one.
THEOREM StatusStaysTrue == Spec => []StatusIsTrue
<1>1. SwitchInv => StatusIsTrue
  <2> SUFFICES ASSUME SwitchInv PROVE StatusIsTrue
    OBVIOUS
  <2>1. state = "Idle" /\ Delivered => status = Status
    BY DEF SwitchInv, ReportInv, Delivered, Underway
  <2>2. pc = "idle" /\ disturb = "none" =>
          /\ result = "OK" => ~sel_ext /\ active_sel = want /\ run_sel = want
          /\ result \in {"Unsupported", "Timeout", "Error"} => sel_ext
    BY DEF SwitchInv, DriverInv, AsAsked
  <2> QED BY <2>1, <2>2 DEF StatusIsTrue
<1> QED BY <1>1, SwitchInvariant, PTL

\* The HP root is on a PLL with the reported configuration also behind the registers
\* and channels, where a response may have to wait and a command may come at any time.
THEOREM SwitchKeepsPllStable == Spec => []PllStableInUse
<1>1. SwitchInv => PllStableInUse
  BY DEF SwitchInv, RcuInv, PllStableInUse
<1> QED BY <1>1, SwitchInvariant, PTL
=============================================================================
