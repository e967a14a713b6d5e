------------------------------ MODULE HpDrain ------------------------------
(***************************************************************************)
(* The lifecycle controller of HpLifecycle with a history of the shutdown  *)
(* in progress: how many clk_aon cycles it has taken, and which of its     *)
(* stages ended on evidence rather than on their timeout.  The inputs are  *)
(* unconstrained, so what holds here holds for every HP core, data plane   *)
(* and LP program.                                                         *)
(***************************************************************************)
EXTENDS HpLifecycle

VARIABLES
  drain_cycles,   \* clk_aon edges since the shutdown began
  evidence        \* stages of the last shutdown that saw their evidence

drainVars == <<lifecycleVars, drain_cycles, evidence>>

AllEvidence == {"cache_clean", "hp_idle", "flush_busy", "flush_done"}

DrainInit ==
  /\ LifecycleInit
  /\ drain_cycles = 0
  /\ evidence = AllEvidence

\* What the inputs of a step prove about the stage it ends.
Seen(cache_clean, hp_idle, flush_busy) ==
  CASE state = "CacheRequest" /\ cache_clean -> {"cache_clean"}
    [] state = "Quiesce" /\ hp_idle -> {"hp_idle"}
    [] state = "FlushRequest" /\ flush_busy -> {"flush_busy"}
    [] state = "FlushWait" /\ ~flush_busy -> {"flush_done"}
    [] OTHER -> {}

DrainClock(release_req, cache_clean, hp_idle, flush_busy) ==
  /\ Clock(release_req, cache_clean, hp_idle, flush_busy)
  /\ drain_cycles' = IF draining THEN drain_cycles + 1 ELSE 0
  /\ evidence' = IF state = "Running" THEN {}
                 ELSE evidence \cup Seen(cache_clean, hp_idle, flush_busy)

DrainNext ==
  \E release_req, cache_clean, hp_idle, flush_busy \in BOOLEAN :
    DrainClock(release_req, cache_clean, hp_idle, flush_busy)

\* clk_aon is the fixed 24 MHz reference and is never gated.
DrainSpec == DrainInit /\ [][DrainNext]_drainVars /\ WF_drainVars(DrainNext)

----------------------------------------------------------------------------
\* The stages a shutdown has left behind when the controller is in a state.
Passed(s) ==
  CASE s = "CacheRequest" -> {}
    [] s = "Quiesce" -> {"cache_clean"}
    [] s = "FlushRequest" -> {"cache_clean", "hp_idle"}
    [] s = "FlushWait" -> {"cache_clean", "hp_idle", "flush_busy"}
    [] OTHER -> AllEvidence

\* The sequencer's state, outputs and counter: the counter never reaches the limit.
DrainTypeOK ==
  /\ LifecycleTypeOK
  /\ drain_cycles \in Nat
  /\ evidence \subseteq AllEvidence

\* However the HP core, its software and the bridges behave, a shutdown
\* reaches reset within four timeouts (hp_lifecycle_controller.sv: every
\* drain state leaves when s_timeout_cnt_q reaches its limit).
BoundedShutdown == drain_cycles <= 4 * TimeoutLimit

\* The forced-fault flag software reads is exact: when the core is held, it
\* is set if and only if some stage of the last shutdown timed out.
ForcedFaultExact ==
  state = "Held" => (forced_fault <=> evidence # AllEvidence)

\* Admission, once closed for a shutdown, reopens only in the cycle that puts
\* the core in reset, and no flush request is left standing behind it.
ClosedUntilReset ==
  [][block_new /\ ~block_new' => hp_release /\ ~hp_release' /\ ~flush]_drainVars

\* Timeouts the earlier stages of a shutdown may already have used up.
Budget(s) ==
  CASE s = "CacheRequest" -> 0
    [] s = "Quiesce" -> TimeoutLimit
    [] s = "FlushRequest" -> 2 * TimeoutLimit
    [] s = "FlushWait" -> 3 * TimeoutLimit
    [] OTHER -> 0

FaultInv ==
  /\ state = "Running" => ~forced_fault
  /\ state # "Running" =>
       /\ evidence \subseteq Passed(state)
       /\ forced_fault <=> evidence # Passed(state)

CycleInv ==
  /\ draining => drain_cycles = 0 \/ drain_cycles <= Budget(state) + timeout_cnt
  /\ ~draining => drain_cycles <= 4 * TimeoutLimit

OutputInv ==
  /\ block_new <=> state \in {"Quiesce", "FlushRequest", "FlushWait"}
  /\ hp_release <=> state # "Held"
  /\ flush <=> state = "FlushRequest"

\* The inductive invariant: the fault flag and the evidence agree on every
\* stage behind, the cycles fit the stages behind, the outputs are functions
\* of the state.
DrainInv == FaultInv /\ CycleInv /\ OutputInv
============================================================================
