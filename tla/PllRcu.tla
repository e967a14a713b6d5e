------------------------------- MODULE PllRcu -------------------------------
(***************************************************************************)
(* The AON-clocked sequencer that moves the HP root clock between EXT72    *)
(* and the PLL (rtl/mini/top/pll_rcu_controller.sv), with the PLL macro it *)
(* drives (rtl/tech/tc_pll.sv) and the LP divider that follows it          *)
(* (rtl/mini/top/soc_clock_reset_subsystem.sv).                            *)
(*                                                                         *)
(* One step is one rising edge of REF24.  The request and the handshake    *)
(* inputs are parameters of the step operators: Next below drives them     *)
(* arbitrarily, ClockSwitch connects them to the registers and the HAL.    *)
(***************************************************************************)
EXTENDS Naturals

CONSTANTS
  Sels,             \* PLL selectors software uses; frequency (3 + s) * 24 MHz
  None,             \* no request
  Timeouts,         \* values software programs into CLK_TIMEOUT
  CntMax,           \* all-ones value of s_timeout_cnt_q (65535)
  LockQualCycles

ASSUME PllAssumption ==
  /\ Sels \subseteq 0 .. 7 /\ None \notin Sels
  /\ CntMax \in Nat \ {0}
  /\ Timeouts \subseteq 1 .. CntMax
  /\ LockQualCycles \in Nat \ {0, 1}

VARIABLES
  state, pll_sel, pll_apply, sel_ext, hp_block, lp_force_ref, timeout_cnt,
  lock_qual_cnt, active_sel, active_valid, safe_clk, lock, err, fault_sticky,
  rsp_valid,
  timeout,             \* s_timeout_q of clock_config_controller.sv
  capable,             \* pll_capable_i: the build has a PLL
  pll_lock, run_sel    \* PLL macro: lock, configuration in effect

clockVars == <<sel_ext, lp_force_ref, safe_clk>>
activeVars == <<active_sel, active_valid, lock>>
seqVars == <<state, pll_sel, pll_apply, hp_block, timeout_cnt, lock_qual_cnt,
             err, fault_sticky, rsp_valid>>
pllVars == <<capable, pll_lock, run_sel>>
rcuVars == <<seqVars, clockVars, activeVars, timeout, pllVars>>

States == {"Idle", "Validate", "Quiesce", "ParkLp", "ApplyPll", "WaitLockLow",
           "QualifyLock", "SwitchPll", "RestoreLp", "Respond", "FailSafe"}

\* s_err_q
NoError == 0
Unsupported == 1
TimedOut == 2
LockLost == 3

RcuInit ==
  /\ state = "Idle" /\ pll_sel = 0 /\ pll_apply = FALSE
  /\ sel_ext = TRUE /\ hp_block = FALSE /\ lp_force_ref = TRUE
  /\ timeout_cnt = 0 /\ lock_qual_cnt = 0
  /\ active_sel = 0 /\ active_valid = FALSE /\ safe_clk = TRUE /\ lock = FALSE
  /\ err = NoError /\ fault_sticky = FALSE /\ rsp_valid = FALSE
  /\ timeout \in Timeouts
  /\ capable \in BOOLEAN /\ pll_lock = FALSE /\ run_sel = 0

----------------------------------------------------------------------------
(* The sequencer, one operator per state.                                  *)

timeout_limit == IF timeout < 2 THEN 2 ELSE timeout
Expired == timeout_cnt = timeout_limit - 1
CountUp == (timeout_cnt + 1) % (CntMax + 1)

\* A fault that is raised and cleared in the same cycle stays.
Fault(raised, clear) ==
  fault_sticky' = (raised \/ (fault_sticky /\ ~clear))

Goto(s) == state' = s /\ UNCHANGED err
Fail(reason) == state' = "FailSafe" /\ err' = reason

\* req_ready_o: a request is consumed in Idle even when it is not looked at.
IdleStep(req, force_safe, clear) ==
  /\ state = "Idle"
  /\ hp_block' = FALSE /\ rsp_valid' = FALSE /\ timeout_cnt' = 0
  /\ \/ /\ force_safe
        /\ Fail(NoError) /\ Fault(FALSE, clear) /\ UNCHANGED pll_sel
     \/ /\ ~force_safe /\ active_valid /\ ~pll_lock
        /\ Fail(LockLost) /\ Fault(TRUE, clear) /\ UNCHANGED pll_sel
     \/ /\ ~force_safe /\ (active_valid => pll_lock) /\ req # None
        /\ pll_sel' = req /\ err' = NoError /\ state' = "Validate"
        /\ Fault(FALSE, clear)
     \/ /\ ~force_safe /\ (active_valid => pll_lock) /\ req = None
        /\ Fault(FALSE, clear) /\ UNCHANGED <<state, err, pll_sel>>
  /\ UNCHANGED <<clockVars, activeVars, lock_qual_cnt>>

\* Variant: new HP traffic is not blocked.
ValidateStep_Open(clear) ==
  /\ state = "Validate"
  /\ Goto("Quiesce") /\ Fault(FALSE, clear)
  /\ timeout_cnt' = 0
  /\ UNCHANGED <<clockVars, activeVars, pll_sel, hp_block, lock_qual_cnt,
                 rsp_valid>>

ValidateStep(clear) ==
  /\ state = "Validate"
  /\ \/ /\ ~capable
        /\ Fail(Unsupported) /\ Fault(TRUE, clear)
        /\ UNCHANGED <<hp_block, timeout_cnt>>
     \/ /\ capable
        /\ Goto("Quiesce") /\ Fault(FALSE, clear)
        /\ hp_block' = TRUE /\ timeout_cnt' = 0
  /\ UNCHANGED <<clockVars, activeVars, pll_sel, lock_qual_cnt, rsp_valid>>

\* Variant: a wait has no budget.
AwaitOrFail_Forever(cond, next, clear) ==
  /\ timeout_cnt' = 0
  /\ Fault(FALSE, clear)
  /\ IF cond THEN Goto(next) ELSE UNCHANGED <<state, err>>

\* Wait for a condition, or fail when the budget of the wait is used up.
AwaitOrFail(cond, next, clear) ==
  \/ /\ cond
     /\ Goto(next) /\ Fault(FALSE, clear) /\ timeout_cnt' = 0
  \/ /\ ~cond /\ Expired
     /\ Fail(TimedOut) /\ Fault(TRUE, clear) /\ UNCHANGED timeout_cnt
  \/ /\ ~cond /\ ~Expired
     /\ timeout_cnt' = CountUp
     /\ Fault(FALSE, clear) /\ UNCHANGED <<state, err>>

QuiesceStep(idle, clear) ==
  /\ state = "Quiesce"
  /\ AwaitOrFail(idle, "ParkLp", clear)
  /\ UNCHANGED <<clockVars, activeVars, pll_sel, hp_block, lock_qual_cnt,
                 rsp_valid>>

\* Variant: the HP root stays on the PLL while it is reconfigured.
ParkLpStep_KeepsPll(clear) ==
  /\ state = "ParkLp"
  /\ lp_force_ref' = TRUE
  /\ active_valid' = FALSE /\ lock' = FALSE
  /\ Goto("ApplyPll") /\ Fault(FALSE, clear)
  /\ UNCHANGED <<sel_ext, safe_clk, active_sel, pll_sel, hp_block, timeout_cnt,
                 lock_qual_cnt, rsp_valid>>

ParkLpStep(clear) ==
  /\ state = "ParkLp"
  /\ lp_force_ref' = TRUE /\ sel_ext' = TRUE /\ safe_clk' = TRUE
  /\ active_valid' = FALSE /\ lock' = FALSE
  /\ Goto("ApplyPll") /\ Fault(FALSE, clear)
  /\ UNCHANGED <<active_sel, pll_sel, hp_block, timeout_cnt, lock_qual_cnt,
                 rsp_valid>>

\* The pulse reaches the PLL one cycle later: s_pll_apply_q is registered.
ApplyPllStep(clear) ==
  /\ state = "ApplyPll"
  /\ timeout_cnt' = 0 /\ lock_qual_cnt' = 0
  /\ Goto("WaitLockLow") /\ Fault(FALSE, clear)
  /\ UNCHANGED <<clockVars, activeVars, pll_sel, hp_block, rsp_valid>>

WaitLockLowStep(clear) ==
  /\ state = "WaitLockLow"
  /\ AwaitOrFail(~pll_lock, "QualifyLock", clear)
  /\ UNCHANGED <<clockVars, activeVars, pll_sel, hp_block, lock_qual_cnt,
                 rsp_valid>>

Qualified == pll_lock /\ lock_qual_cnt = LockQualCycles - 1

QualCount == IF pll_lock THEN lock_qual_cnt + 1 ELSE 0

\* The lock and the end of the budget may come in the same cycle: the status
\* registers take the lock, the sequencer the timeout.
QualifyLockStep(clear) ==
  /\ state = "QualifyLock"
  /\ lock_qual_cnt' = IF Qualified THEN lock_qual_cnt ELSE QualCount
  /\ IF Qualified
       THEN lock' = TRUE /\ active_sel' = pll_sel /\ active_valid' = TRUE
       ELSE UNCHANGED activeVars
  /\ IF Expired
       THEN Fail(TimedOut) /\ Fault(TRUE, clear) /\ UNCHANGED timeout_cnt
       ELSE /\ state' = IF Qualified THEN "SwitchPll" ELSE state
            /\ timeout_cnt' = CountUp
            /\ Fault(FALSE, clear) /\ UNCHANGED err
  /\ UNCHANGED <<clockVars, pll_sel, hp_block, rsp_valid>>

SwitchPllStep(clear) ==
  /\ state = "SwitchPll"
  /\ sel_ext' = FALSE /\ safe_clk' = FALSE
  /\ Goto("RestoreLp") /\ Fault(FALSE, clear)
  /\ UNCHANGED <<lp_force_ref, activeVars, pll_sel, hp_block, timeout_cnt,
                 lock_qual_cnt, rsp_valid>>

RestoreLpStep(clear) ==
  /\ state = "RestoreLp"
  /\ lp_force_ref' = FALSE /\ err' = NoError /\ state' = "Respond"
  /\ Fault(FALSE, clear)
  /\ UNCHANGED <<sel_ext, safe_clk, activeVars, pll_sel, hp_block, timeout_cnt,
                 lock_qual_cnt, rsp_valid>>

RespondStep(rsp_ready, clear) ==
  /\ state = "Respond"
  /\ LET sent == rsp_valid /\ rsp_ready
     IN  rsp_valid' = ~sent /\ state' = IF sent THEN "Idle" ELSE "Respond"
  /\ Fault(FALSE, clear)
  /\ UNCHANGED <<clockVars, activeVars, pll_sel, hp_block, timeout_cnt,
                 lock_qual_cnt, err>>

\* Variant: a fallback nobody asked for is not reported.
FailSafeStep_Silent(clear) ==
  /\ state = "FailSafe"
  /\ sel_ext' = TRUE /\ lp_force_ref' = TRUE /\ safe_clk' = TRUE
  /\ lock' = FALSE /\ active_valid' = FALSE
  /\ Goto(IF err \in {NoError, LockLost} THEN "Idle" ELSE "Respond")
  /\ Fault(FALSE, clear)
  /\ UNCHANGED <<active_sel, pll_sel, hp_block, timeout_cnt, lock_qual_cnt,
                 rsp_valid>>

FailSafeStep(clear) ==
  /\ state = "FailSafe"
  /\ sel_ext' = TRUE /\ lp_force_ref' = TRUE /\ safe_clk' = TRUE
  /\ lock' = FALSE /\ active_valid' = FALSE
  /\ Goto("Respond") /\ Fault(FALSE, clear)
  /\ UNCHANGED <<active_sel, pll_sel, hp_block, timeout_cnt, lock_qual_cnt,
                 rsp_valid>>

Sequence(req, force_safe, clear, idle, rsp_ready) ==
  /\ pll_apply' = (state = "ApplyPll")
  /\ \/ IdleStep(req, force_safe, clear)
     \/ ValidateStep(clear)
     \/ QuiesceStep(idle, clear)
     \/ ParkLpStep(clear)
     \/ ApplyPllStep(clear)
     \/ WaitLockLowStep(clear)
     \/ QualifyLockStep(clear)
     \/ SwitchPllStep(clear)
     \/ RestoreLpStep(clear)
     \/ RespondStep(rsp_ready, clear)
     \/ FailSafeStep(clear)

\* tc_pll: an apply loads the selector and drops the lock; otherwise the PLL
\* may find or lose its lock at any time.  Without a PLL there is no lock.
PllStep ==
  /\ IF pll_apply THEN pll_lock' = FALSE /\ run_sel' = pll_sel
                  ELSE pll_lock' \in {FALSE, capable} /\ UNCHANGED run_sel
  /\ UNCHANGED capable

----------------------------------------------------------------------------
(* The clock tree of soc_clock_reset_subsystem.sv, in MHz.                 *)

hp_mhz == IF sel_ext THEN 72 ELSE (run_sel + 3) * 24

\* s_req_lp_div: the divider the selected P-state asks for.
req_lp_div == CASE sel_ext \/ pll_sel = 0 -> 0
                [] ~sel_ext /\ pll_sel \in 1 .. 3 -> 1
                [] OTHER -> 2

effective_lp_div(lp_mode, lp_div) ==
  IF lp_mode = 1 \/ lp_div < req_lp_div THEN req_lp_div ELSE lp_div

lp_mhz(lp_mode, lp_div) ==
  IF lp_force_ref \/ lp_mode = 0 THEN 24
  ELSE CASE effective_lp_div(lp_mode, lp_div) = 0 -> hp_mhz
         [] effective_lp_div(lp_mode, lp_div) = 1 -> hp_mhz \div 2
         [] OTHER -> hp_mhz \div 4

----------------------------------------------------------------------------
(* The sequencer under any software, HP core and PLL.                      *)

Requests == Sels \cup {None}

RcuNext ==
  /\ \E req \in IF state = "Idle" THEN Requests ELSE {None},
        force_safe \in IF state = "Idle" THEN BOOLEAN ELSE {FALSE},
        clear, idle \in BOOLEAN :
       Sequence(req, force_safe, clear, idle, TRUE)
  /\ PllStep
  /\ timeout' \in Timeouts

\* REF24 never stops; rsp_ready_o is tied high in sysctrl_core.sv.
RcuSpec == RcuInit /\ [][RcuNext]_rcuVars /\ WF_rcuVars(RcuNext)

----------------------------------------------------------------------------
\* The sequencer's registers; both counters stay below their limits.
RcuTypeOK ==
  /\ state \in States
  /\ pll_sel \in 0 .. 7 /\ active_sel \in 0 .. 7 /\ run_sel \in 0 .. 7
  /\ pll_apply \in BOOLEAN /\ sel_ext \in BOOLEAN /\ hp_block \in BOOLEAN
  /\ lp_force_ref \in BOOLEAN /\ active_valid \in BOOLEAN
  /\ safe_clk \in BOOLEAN /\ lock \in BOOLEAN /\ fault_sticky \in BOOLEAN
  /\ rsp_valid \in BOOLEAN /\ capable \in BOOLEAN /\ pll_lock \in BOOLEAN
  /\ timeout_cnt \in 0 .. CntMax
  /\ lock_qual_cnt \in 0 .. LockQualCycles - 1
  /\ err \in 0 .. 3
  /\ timeout \in Timeouts

\* The HP root runs from the PLL only when the configuration in effect is the
\* one reported as active, and the PLL is never reconfigured under it.  At rest
\* a configuration is reported as active only if the root runs from it, also
\* when the lock came in the cycle in which its wait timed out.
PllStableInUse ==
  /\ ~sel_ext => active_valid /\ run_sel = active_sel /\ ~pll_apply
  /\ safe_clk = sel_ext
  /\ state = "Idle" => active_valid = ~sel_ext

\* The states between the quiesced HP side and the switch back to the PLL.
Blocked == {"Quiesce", "ParkLp", "ApplyPll", "WaitLockLow", "QualifyLock",
            "SwitchPll"}

\* The inductive form of the two facts around this definition: what each state
\* of the sequencer knows about the PLL, and which states hold HP traffic
\* blocked.  A build without a PLL never leaves the safe clock.
RcuInv ==
  /\ safe_clk = sel_ext
  /\ ~sel_ext => /\ active_valid /\ run_sel = active_sel
                 /\ state \notin {"ApplyPll", "WaitLockLow", "QualifyLock",
                                   "SwitchPll"}
  /\ state \in {"Idle", "Validate", "RestoreLp", "Respond"} => active_valid = ~sel_ext
  /\ pll_apply => state = "WaitLockLow"
  /\ state = "WaitLockLow" => pll_apply \/ run_sel = pll_sel
  /\ state = "QualifyLock" => run_sel = pll_sel
  /\ state = "SwitchPll" => active_valid /\ run_sel = active_sel
  /\ state \in Blocked => hp_block
  /\ state = "FailSafe" /\ err = TimedOut => hp_block
  /\ state = "FailSafe" /\ err = Unsupported => ~capable
  /\ ~capable => sel_ext /\ state \in {"Idle", "Validate", "FailSafe",
                                        "Respond"}

\* The root is switched to or from the PLL while new HP traffic is blocked,
\* except when the lock is lost or software forces the safe clock.
BlockedWhileSwitching ==
  [][sel_ext' # sel_ext =>
       hp_block \/ (state = "FailSafe" /\ err \in {NoError, LockLost})]_rcuVars

\* A failure the sequencer reports has left the sticky fault behind, and only
\* a clear command removes it.
FailureLeavesFault ==
  [][state # "FailSafe" /\ state' = "FailSafe" /\ err' # NoError
       => fault_sticky']_rcuVars

\* The LP clock is within 72 MHz whatever LP mode and divider software selects.
LpWithinLimit == \A mode, div \in 0 .. 2 : lp_mhz(mode, div) <= 72

\* Between requests the divider fits the PLL configuration in effect: the LP
\* clock is within its limit whatever LP mode software selects.
LpWithinLimitWhenIdle == state = "Idle" => LpWithinLimit

\* Whatever the PLL, the HP core and software do, the sequencer comes back to
\* Idle and can take the next request, once software leaves CLK_TIMEOUT alone:
\* a wait that a lowered budget has overtaken ends when the counter wraps.
AlwaysReturns ==
  (\E t \in Timeouts : <>[](timeout = t)) =>
    (state # "Idle" ~> state = "Idle")
=============================================================================
