----------------------------- MODULE HpShutdown -----------------------------
(***************************************************************************)
(* The HP shutdown handshake across its three clock domains                *)
(* (rtl/mini/top/retrosoc.sv): the AON lifecycle controller, the PCLK      *)
(* registers LP software writes (HP_CTRL in sysctrl_core.sv, CACHE_CONTROL *)
(* in resource_controller.sv), and the HP data plane (crossbar admission,  *)
(* outstanding transactions, warm flush of one PCLK-to-HP bridge).         *)
(*                                                                         *)
(* A step is one edge of one clock.  Every signal that changes domain      *)
(* passes a two-stage cdc_sync, <<first stage, second stage>>.             *)
(***************************************************************************)
EXTENDS HpDrain

CONSTANTS
  MinHp, MaxHp,   \* clk_hp edges between two clk_aon edges, at least/at most
  MinGap, MaxGap, \* clk_aon edges between two clk_pclk edges, at least/at most
  Jitter          \* a first synchronizer stage may miss a change that falls
                  \* next to its clock edge

ASSUME ClockAssumption ==
  /\ MinHp \in Nat /\ MaxHp \in Nat /\ MinHp <= MaxHp
  /\ MinGap \in Nat /\ MaxGap \in Nat \ {0} /\ MinGap <= MaxGap
  /\ Jitter \in BOOLEAN

VARIABLES
  in_release, in_clean, in_idle, in_busy,   \* AON synchronizers
  release_bit,    \* s_hp_release_q of sysctrl, written by LP software
  in_request,     \* PCLK synchronizer of cache_request
  cache_clean,    \* s_cache_clean_q of the resource controller
  apb_busy,       \* the APB transfer of the last PCLK cycle still completes
  hp_rel, hp_blk, hp_fl,    \* HP synchronizers of release, block and flush
  outstanding,    \* masters with an accepted, unfinished crossbar burst
  clear_hp,       \* bridge: <<s1, s2, s_clear_dst_q>> in the HP domain
  clear_pclk,     \* bridge: <<s1, s2, s_clear_q>> in the PCLK domain
  resp_flush,     \* warm flush of the B and R FIFOs, started from HP
  req_flush,      \* warm flush of the AW, W and AR FIFOs, started from PCLK
  hp_phase, pclk_gap,       \* clock ratios
  flushed, acked            \* history of the current shutdown

aonSyncVars == <<in_release, in_clean, in_idle, in_busy>>
pclkVars == <<release_bit, in_request, cache_clean, apb_busy>>
hpVars == <<hp_rel, hp_blk, hp_fl, outstanding>>
bridgeVars == <<clear_hp, clear_pclk, resp_flush, req_flush>>
historyVars == <<flushed, acked>>

vars == <<drainVars, aonSyncVars, pclkVars, hpVars, bridgeVars, hp_phase,
          pclk_gap, historyVars>>

Masters == {"hp", "lp"}         \* the HP core and the LP data gateway
Sides == {"responses", "requests"}
FlushPhases == {"idle", "asked", "seen", "acked"}

\* cdc_sync with STAGE = 2.
Shift(sync, d) == <<d, sync[1]>>

Sampled(sync, d) ==
  IF Jitter /\ hp_phase = 0 THEN {Shift(sync, d), Shift(sync, sync[1])}
                            ELSE {Shift(sync, d)}

\* clear_busy_o of the bridge; flush_busy_o is the OR over all bridges.
clear_busy == resp_flush # "idle" \/ req_flush # "idle"

\* s_data_plane_idle && s_hp_mmio_idle, with the pause of the NPU while
\* admission is blocked; sampled by the AON domain.
data_plane_idle(npu_paused) == outstanding = {} /\ (hp_blk[2] => npu_paused)

Init ==
  /\ DrainInit
  /\ in_release = <<FALSE, FALSE>> /\ in_clean = <<FALSE, FALSE>>
  /\ in_idle = <<FALSE, FALSE>> /\ in_busy = <<FALSE, FALSE>>
  /\ release_bit = FALSE /\ in_request = <<FALSE, FALSE>>
  /\ cache_clean = FALSE /\ apb_busy = FALSE
  /\ hp_rel = <<FALSE, FALSE>> /\ hp_blk = <<FALSE, FALSE>>
  /\ hp_fl = <<FALSE, FALSE>>
  /\ outstanding = {}
  /\ clear_hp = <<FALSE, FALSE, FALSE>> /\ clear_pclk = <<FALSE, FALSE, FALSE>>
  /\ resp_flush = "idle" /\ req_flush = "idle"
  /\ hp_phase = 0 /\ pclk_gap = 0
  /\ flushed = Sides /\ acked = TRUE

----------------------------------------------------------------------------
\* One clk_aon edge: the controller steps on the synchronized inputs.
AonTick ==
  /\ hp_phase >= MinHp
  /\ pclk_gap < MaxGap
  /\ DrainClock(in_release[2], in_clean[2], in_idle[2], in_busy[2])
  /\ in_release' = Shift(in_release, release_bit)
  /\ in_clean' = Shift(in_clean, cache_clean)
  /\ \E npu_paused \in BOOLEAN :
       in_idle' = Shift(in_idle, data_plane_idle(npu_paused))
  /\ in_busy' = Shift(in_busy, clear_busy)
  /\ hp_phase' = 0
  /\ pclk_gap' = pclk_gap + 1
  /\ IF state = "Held" /\ state' = "Running"
       THEN flushed' = {} /\ acked' = FALSE
       ELSE UNCHANGED historyVars
  /\ UNCHANGED <<pclkVars, hpVars, bridgeVars>>

----------------------------------------------------------------------------
\* The crossbar: a burst finishes, an admitted address starts one, and a
\* flush clears every counter and discards the responses still due.
Admitted == (IF hp_rel[2] THEN {"hp"} ELSE {}) \cup {"lp"}

CrossbarStep ==
  IF hp_fl[2]
    THEN outstanding' = {}
    ELSE \E done \in SUBSET outstanding :
           \E new \in SUBSET (IF hp_blk[2] THEN {}
                              ELSE Admitted \ outstanding) :
             outstanding' = (outstanding \ done) \cup new

\* The HP half of the bridge: it starts the response-FIFO flush on a rising
\* clear, and takes part in the request-FIFO flush.
BridgeHpStep ==
  /\ clear_hp' = <<hp_fl[2], clear_hp[1], clear_hp[2]>>
  /\ LET pulse == clear_hp[2] /\ ~clear_hp[3] IN
       /\ resp_flush' = IF pulse /\ resp_flush = "idle" THEN "asked"
                        ELSE IF resp_flush = "acked" THEN "idle"
                        ELSE resp_flush
       /\ flushed' = IF pulse THEN flushed \cup {"responses"} ELSE flushed
  /\ req_flush' = CASE req_flush = "asked" -> "seen"
                    [] req_flush = "seen" -> "acked"
                    [] OTHER -> req_flush

\* One clk_hp edge.
HpTick ==
  /\ hp_phase < MaxHp
  /\ hp_rel' \in Sampled(hp_rel, hp_release)
  /\ hp_blk' \in Sampled(hp_blk, block_new)
  /\ hp_fl' \in Sampled(hp_fl, flush)
  /\ CrossbarStep
  /\ BridgeHpStep
  /\ hp_phase' = hp_phase + 1
  /\ UNCHANGED <<drainVars, aonSyncVars, pclkVars, clear_pclk, pclk_gap, acked>>

----------------------------------------------------------------------------
\* The acknowledgement is dropped when the request it answered is over.
\* Variant: it outlives the request.
clean_kept_Sticky == cache_clean
clean_kept == cache_clean /\ in_request[2]

\* LP software through APB: write HP_CTRL.RELEASE, write CACHE_CONTROL.CLEAN
\* (answered with an error when no request is pending), or nothing.
WriteRelease ==
  /\ ~apb_busy
  /\ apb_busy' = TRUE
  /\ release_bit' \in BOOLEAN
  /\ cache_clean' = clean_kept
  /\ UNCHANGED acked

WriteClean ==
  /\ ~apb_busy
  /\ apb_busy' = TRUE
  /\ \E ack \in BOOLEAN :
       /\ ack => in_request[2]
       /\ cache_clean' = ack
       /\ acked' = (acked \/ ack)
  /\ UNCHANGED release_bit

NoWrite ==
  /\ apb_busy' = FALSE
  /\ cache_clean' = clean_kept
  /\ UNCHANGED <<release_bit, acked>>

\* The PCLK half of the bridge: the mirror image of BridgeHpStep.
BridgePclkStep ==
  /\ clear_pclk' = <<hp_fl[2], clear_pclk[1], clear_pclk[2]>>
  /\ LET pulse == clear_pclk[2] /\ ~clear_pclk[3] IN
       /\ req_flush' = IF pulse /\ req_flush = "idle" THEN "asked"
                       ELSE IF req_flush = "acked" THEN "idle"
                       ELSE req_flush
       /\ flushed' = IF pulse THEN flushed \cup {"requests"} ELSE flushed
  /\ resp_flush' = CASE resp_flush = "asked" -> "seen"
                     [] resp_flush = "seen" -> "acked"
                     [] OTHER -> resp_flush

\* One clk_pclk edge.
PclkTick(write) ==
  /\ pclk_gap >= MinGap
  /\ write
  /\ in_request' = Shift(in_request, cache_request)
  /\ BridgePclkStep
  /\ pclk_gap' = 0
  /\ UNCHANGED <<drainVars, aonSyncVars, hpVars, clear_hp, hp_phase>>

Next ==
  \/ AonTick
  \/ HpTick
  \/ PclkTick(WriteRelease)
  \/ PclkTick(WriteClean)
  \/ PclkTick(NoWrite)

Spec == Init /\ [][Next]_vars

----------------------------------------------------------------------------
SyncType == BOOLEAN \X BOOLEAN

\* Sequencer, synchronizers, crossbar and bridge hold what the RTL can put there;
\* the timeout counter stays below its limit.
TypeOK ==
  /\ DrainTypeOK
  /\ in_release \in SyncType /\ in_clean \in SyncType
  /\ in_idle \in SyncType /\ in_busy \in SyncType
  /\ in_request \in SyncType
  /\ hp_rel \in SyncType /\ hp_blk \in SyncType /\ hp_fl \in SyncType
  /\ release_bit \in BOOLEAN /\ cache_clean \in BOOLEAN
  /\ apb_busy \in BOOLEAN /\ acked \in BOOLEAN
  /\ outstanding \subseteq Masters
  /\ flushed \subseteq Sides
  /\ clear_hp \in BOOLEAN \X BOOLEAN \X BOOLEAN
  /\ clear_pclk \in BOOLEAN \X BOOLEAN \X BOOLEAN
  /\ resp_flush \in FlushPhases /\ req_flush \in FlushPhases
  /\ hp_phase \in 0 .. MaxHp
  /\ pclk_gap \in 0 .. MaxGap

\* The HP core is in reset only when it has no burst in the crossbar: a core
\* reset under an accepted address would leave a response for the next boot.
ResetFindsNoBurst == ~hp_rel[2] => "hp" \notin outstanding

\* A shutdown that did not time out ended its cache stage because LP software
\* acknowledged this shutdown's request, not an earlier one's.
CleanAckIsFresh ==
  state \in {"Quiesce", "FlushRequest", "FlushWait"} /\ ~forced_fault => acked

\* "HP shutdown holds a flush request until every bridge sees it"
\* (docs/lp-hp-architecture.md): a shutdown without a forced fault has
\* started the flush on both sides of the bridge.  The controller withdraws
\* the request when it sees one side busy, so the side of a slow PCLK starts
\* its flush late, or never samples the request.
FlushSeenByEverySide ==
  state = "Held" /\ ~forced_fault => flushed = Sides

\* What the shutdown does guarantee: the HP half has started the flush of the
\* response FIFOs whenever the core is held, however slow PCLK is and also when
\* the request was cut short by a busy left from an earlier flush.
HpSideFlushed == state = "Held" => "responses" \in flushed

\* The HP core's burst is gone, or the flush that discards it is on its way while no
\* new address of the core is admitted.
Flushing ==
  \/ hp_fl[1] \/ hp_fl[2]
  \/ hp_blk[2] /\ "hp" \notin outstanding

\* Why reset finds no burst: the reset command follows the flush through synchronizers
\* of the same length.  Every command of the controller is sampled before the next one
\* (SampledInTime), and whichever stage the reset has reached, the stages behind it
\* still block admission and carry the flush, or the core is already quiet.
SampledInTime ==
  hp_phase > 0 =>
    hp_rel[1] = hp_release /\ hp_blk[1] = block_new /\ hp_fl[1] = flush

PipeInv ==
  /\ SampledInTime
  /\ state \in {"FlushRequest", "FlushWait"} => hp_blk[1]
  /\ state = "FlushWait" => Flushing
  /\ ~hp_release /\ hp_rel[1] => hp_blk[1] /\ Flushing
  /\ ~hp_rel[1] /\ hp_rel[2] =>
       hp_blk[2] /\ (hp_fl[2] \/ "hp" \notin outstanding)
  /\ ResetFindsNoBurst
============================================================================
