---------------------------- MODULE HpLifecycle ----------------------------
(***************************************************************************)
(* The AON-clocked controller that releases the HP core from reset and     *)
(* takes it down again (rtl/mini/top/hp_lifecycle_controller.sv).          *)
(*                                                                         *)
(* One step of this module is one rising edge of clk_aon.  The inputs      *)
(* release_req_i, cache_clean_i, hp_idle_i and flush_busy_i arrive through *)
(* synchronizers and are parameters of the step operators, so that the     *)
(* module can be driven by an arbitrary environment (LifecycleNext below) or by the *)
(* rest of the chip (HpShutdown).                                          *)
(***************************************************************************)
EXTENDS Naturals

CONSTANT TimeoutInput      \* timeout_i, the 16-bit handshake timeout

ASSUME TimeoutAssumption == TimeoutInput \in 0 .. 65535

VARIABLES
  state,         \* s_state_q
  hp_release,    \* s_hp_release_q: the HP core is out of reset
  block_new,     \* s_block_new_q: the data plane admits no new address
  flush,         \* s_flush_q: warm-flush request to the bridges
  forced_fault,  \* s_forced_fault_q: a stage ended by timeout
  timeout_cnt    \* s_timeout_cnt_q

lifecycleVars == <<state, hp_release, block_new, flush, forced_fault, timeout_cnt>>

States == {"Held", "Running", "CacheRequest", "Quiesce", "FlushRequest",
           "FlushWait"}

\* s_timeout_limit: a programmed timeout below two is raised to two.
TimeoutLimit == IF TimeoutInput < 2 THEN 2 ELSE TimeoutInput

Expired == timeout_cnt = TimeoutLimit - 1

cache_request == state = "CacheRequest"

draining == state \in {"CacheRequest", "Quiesce", "FlushRequest", "FlushWait"}

LifecycleInit ==
  /\ state = "Held"
  /\ hp_release = FALSE
  /\ block_new = FALSE
  /\ flush = FALSE
  /\ forced_fault = FALSE
  /\ timeout_cnt = 0

----------------------------------------------------------------------------
\* Variant: a stage that ends well clears the fault of an earlier one.
EndStage_ForgetsFault(next, evidence) ==
  /\ state' = next
  /\ timeout_cnt' = 0
  /\ forced_fault' = ~evidence

\* A drain stage ends: the counter restarts for the next stage, and a stage
\* that ended without its evidence records the forced fault.
EndStage(next, evidence) ==
  /\ state' = next
  /\ timeout_cnt' = 0
  /\ forced_fault' = (forced_fault \/ ~evidence)

\* A drain stage has neither its evidence nor an expired counter.
KeepWaiting ==
  /\ ~Expired
  /\ timeout_cnt' = timeout_cnt + 1
  /\ UNCHANGED <<state, forced_fault>>

HeldStep(release_req) ==
  /\ state = "Held"
  /\ block_new' = FALSE
  /\ flush' = FALSE
  /\ timeout_cnt' = 0
  /\ hp_release' = release_req
  /\ forced_fault' = (forced_fault /\ ~release_req)
  /\ state' = IF release_req THEN "Running" ELSE "Held"

RunningStep(release_req) ==
  /\ state = "Running"
  /\ hp_release' = TRUE
  /\ block_new' = FALSE
  /\ flush' = FALSE
  /\ timeout_cnt' = 0
  /\ state' = IF release_req THEN "Running" ELSE "CacheRequest"
  /\ UNCHANGED forced_fault

\* The HP core still runs and its MMIO path is open while software cleans.
CacheRequestStep(cache_clean) ==
  /\ state = "CacheRequest"
  /\ hp_release' = TRUE
  /\ flush' = FALSE
  /\ \/ /\ cache_clean \/ Expired
        /\ EndStage("Quiesce", cache_clean)
        /\ block_new' = TRUE
     \/ /\ ~cache_clean
        /\ KeepWaiting
        /\ block_new' = FALSE

QuiesceStep(hp_idle) ==
  /\ state = "Quiesce"
  /\ block_new' = TRUE
  /\ \/ /\ hp_idle \/ Expired
        /\ EndStage("FlushRequest", hp_idle)
        /\ flush' = TRUE
     \/ /\ ~hp_idle
        /\ KeepWaiting
        /\ UNCHANGED flush
  /\ UNCHANGED hp_release

\* Variant: admission reopens with the end of the flush request.
FlushRequestStep_Reopens(flush_busy) ==
  /\ state = "FlushRequest"
  /\ \/ /\ flush_busy \/ Expired
        /\ EndStage("FlushWait", flush_busy)
        /\ block_new' = FALSE
        /\ flush' = FALSE
     \/ /\ ~flush_busy
        /\ KeepWaiting
        /\ block_new' = TRUE
        /\ flush' = TRUE
  /\ UNCHANGED hp_release

\* Variant: the flush request is a pulse of one cycle.
FlushRequestStep_Pulse(flush_busy) ==
  /\ state = "FlushRequest"
  /\ block_new' = TRUE
  /\ flush' = FALSE
  /\ \/ /\ flush_busy \/ Expired
        /\ EndStage("FlushWait", flush_busy)
     \/ /\ ~flush_busy
        /\ KeepWaiting
  /\ UNCHANGED hp_release

\* The request is held until a bridge reports that it is flushing.
FlushRequestStep(flush_busy) ==
  /\ state = "FlushRequest"
  /\ block_new' = TRUE
  /\ \/ /\ flush_busy \/ Expired
        /\ EndStage("FlushWait", flush_busy)
        /\ flush' = FALSE
     \/ /\ ~flush_busy
        /\ KeepWaiting
        /\ flush' = TRUE
  /\ UNCHANGED hp_release

\* The core is put into reset, and admission reopened, in the same cycle.
FlushWaitStep(flush_busy) ==
  /\ state = "FlushWait"
  /\ flush' = FALSE
  /\ \/ /\ ~flush_busy \/ Expired
        /\ EndStage("Held", ~flush_busy)
        /\ hp_release' = FALSE
        /\ block_new' = FALSE
     \/ /\ flush_busy
        /\ KeepWaiting
        /\ block_new' = TRUE
        /\ UNCHANGED hp_release

\* One clk_aon edge with the given synchronized inputs.
Clock(release_req, cache_clean, hp_idle, flush_busy) ==
  \/ HeldStep(release_req)
  \/ RunningStep(release_req)
  \/ CacheRequestStep(cache_clean)
  \/ QuiesceStep(hp_idle)
  \/ FlushRequestStep(flush_busy)
  \/ FlushWaitStep(flush_busy)

\* The controller against every possible environment.
LifecycleNext == \E release_req, cache_clean, hp_idle, flush_busy \in BOOLEAN :
          Clock(release_req, cache_clean, hp_idle, flush_busy)

\* clk_aon is the fixed reference clock and never stops.
LifecycleSpec ==
  LifecycleInit /\ [][LifecycleNext]_lifecycleVars /\ WF_lifecycleVars(LifecycleNext)

LifecycleTypeOK ==
  /\ state \in States
  /\ hp_release \in BOOLEAN
  /\ block_new \in BOOLEAN
  /\ flush \in BOOLEAN
  /\ forced_fault \in BOOLEAN
  /\ timeout_cnt \in 0 .. (TimeoutLimit - 1)
============================================================================
