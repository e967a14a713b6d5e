-------------------------- MODULE ResourceHandoff --------------------------
(***************************************************************************)
(* An ownership hand-off, end to end: LP software in the HAL               *)
(* (crt/src/hal/resource.c) drives the resource controller, whose block    *)
(* request crosses from PCLK to the HP data plane and whose block          *)
(* acknowledgement and idle indication cross back (soc_data_plane.sv,      *)
(* retrosoc.sv), while the engine behind the resource keeps writing.       *)
(*                                                                         *)
(* Two kinds of path exist.  "dma" (resource 0, and with it the I/O        *)
(* gateways) reaches the crossbar through an asynchronous bridge that a    *)
(* quiesce does not stop.  "ga2d" (resource 8) has an address gate and a   *)
(* source-stop handshake in front of the bridge.                           *)
(*                                                                         *)
(* Both engines (ga2d_axi4_master.sv, dma_axi4_master.sv) present the      *)
(* address first and the data once the address is accepted; here one       *)
(* single-beat write is in flight at a time and a command is any number    *)
(* of writes.                                                              *)
(***************************************************************************)
EXTENDS ResourceController

CONSTANTS
  Paths,          \* the kinds of path: "dma", "ga2d"
  PollLimit,      \* RS_TIMEOUT_DEFAULT
  ApbCycles,      \* PCLK cycles of one register access
  MaxHp           \* clk_hp edges between two clk_pclk edges, at most

ASSUME HandoffAssumption ==
  /\ Paths \subseteq {"dma", "ga2d"}
  /\ {PollLimit, ApbCycles, MaxHp} \subseteq Nat \ {0}

VARIABLES
  engine,             \* where the engine's command stands
  write_pending,      \* address gate: an accepted write awaits its response
  aw_fifo, w_fifo, b_fifo,  \* bridge FIFOs, one entry each
  bursts, routes,     \* crossbar: writes without response, without data
  source_stop, source_quiesced, rearm, data_ready,  \* GA2D source control
  hp_block, hp_quiesced, hp_safe_idle,   \* synchronizers into HP
  pclk_idle, pclk_ack, pclk_master_idle, \* synchronizers into PCLK
  pc, want, polls, result, apb_wait,     \* the HAL call in progress
  hp_phase,
  path                \* the path of the resource, fixed

engineVars == <<engine, write_pending>>
fifoVars == <<aw_fifo, w_fifo, b_fifo>>
xbarVars == <<bursts, routes>>
stopVars == <<source_stop, source_quiesced, rearm, data_ready>>
hpSyncVars == <<hp_block, hp_quiesced, hp_safe_idle>>
pclkSyncVars == <<pclk_idle, pclk_ack, pclk_master_idle>>
halVars == <<pc, want, polls, result, apb_wait>>
vars == <<rcVars, engineVars, fifoVars, xbarVars, stopVars, hpSyncVars,
          pclkSyncVars, halVars, hp_phase, path>>

EngineState == {"idle", "run", "address", "data", "response"}
\* An entry crosses the bridge in two edges of the receiving clock.
Entry == {"empty", "crossing", "arriving", "visible"}
Advance(e) == CASE e = "crossing" -> "arriving"
                [] e = "arriving" -> "visible"
                [] OTHER -> e

Shift(sync, d) == <<d, sync[1]>>

Ga2d == path = "ga2d"

----------------------------------------------------------------------------
\* Combinational signals.
awvalid == engine = "address"
wvalid == engine = "data"
engine_idle == engine = "idle"                 \* ga2d_core safe_idle_o
gate_idle == ~write_pending /\ ~awvalid /\ ~wvalid
source_safe_idle == gate_idle /\ engine_idle

AwAccept ==
  /\ awvalid /\ aw_fifo = "empty"
  /\ Ga2d => ~source_stop /\ ~write_pending
WAccept ==
  /\ wvalid /\ w_fifo = "empty"
  /\ Ga2d => write_pending \/ AwAccept
BAccept == engine = "response" /\ b_fifo = "visible"

source_stop_ready ==
  /\ awvalid => AwAccept
  /\ wvalid => write_pending \/ AwAccept

\* Variant: accepted bursts are not counted.
master_idle_WiresOnly == aw_fifo # "visible" /\ w_fifo # "visible"
master_idle == bursts = 0 /\ routes = 0 /\ aw_fifo # "visible"
                 /\ w_fifo # "visible"

\* s_master_block, resource_idle_o and resource_block_ack_o in the HP domain.
master_block == hp_block[2] /\ (Ga2d => hp_quiesced[2])
resource_idle ==
  /\ Ga2d => IF hp_block[2] THEN hp_quiesced[2] ELSE hp_safe_idle[2]
  /\ master_idle
resource_block_ack ==
  hp_block[2] /\ (Ga2d => hp_quiesced[2] /\ master_idle)

\* s_resource_idle_combined and s_resource_block_ack_combined in PCLK.
idle_i == pclk_idle[2] /\ (Ga2d => source_safe_idle)
block_ack_i == pclk_ack[2] /\ (Ga2d => source_safe_idle)

Init ==
  /\ RcInit
  /\ engine = "idle" /\ write_pending = FALSE
  /\ aw_fifo = "empty" /\ w_fifo = "empty" /\ b_fifo = "empty"
  /\ bursts = 0 /\ routes = 0
  /\ source_stop = TRUE /\ source_quiesced = FALSE
  /\ rearm = TRUE /\ data_ready = FALSE
  /\ hp_block = <<FALSE, FALSE>> /\ hp_quiesced = <<FALSE, FALSE>>
  /\ hp_safe_idle = <<FALSE, FALSE>>
  /\ pclk_idle = <<FALSE, FALSE>> /\ pclk_ack = <<FALSE, FALSE>>
  /\ pclk_master_idle = <<FALSE, FALSE>>
  /\ pc = "idle" /\ want = <<OwnerLp, FALSE>> /\ polls = 0 /\ result = "none"
  /\ apb_wait = 0
  /\ hp_phase = 0
  /\ path \in Paths

----------------------------------------------------------------------------
\* clk_hp.  The crossbar accepts an unblocked address, takes the data of an
\* accepted write, and returns the response when the target has it.
CrossbarStep(respond) ==
  LET accept == aw_fifo = "visible" /\ ~master_block /\ bursts = 0
      data   == w_fifo = "visible" /\ routes = 1
      done   == respond /\ bursts = 1 /\ routes = 0 /\ b_fifo = "empty"
  IN  /\ aw_fifo' = IF accept THEN "empty" ELSE Advance(aw_fifo)
      /\ w_fifo' = IF data THEN "empty" ELSE Advance(w_fifo)
      /\ b_fifo' = IF done THEN "crossing" ELSE b_fifo
      /\ routes' = IF accept THEN 1 ELSE IF data THEN 0 ELSE routes
      /\ bursts' = IF accept THEN 1 ELSE IF done THEN 0 ELSE bursts

HpTick(respond) ==
  /\ hp_phase < MaxHp
  /\ CrossbarStep(respond)
  /\ hp_block' = Shift(hp_block, resource_block)
  /\ hp_quiesced' = Shift(hp_quiesced, source_quiesced)
  /\ hp_safe_idle' = Shift(hp_safe_idle, Ga2d /\ source_safe_idle)
  /\ hp_phase' = hp_phase + 1
  /\ UNCHANGED <<rcVars, engineVars, stopVars, pclkSyncVars, halVars,
                 path>>

----------------------------------------------------------------------------
\* clk_pclk, the source.  The GA2D core starts a command only when its data
\* path is ready, and a stop cancels what it has not committed to the bus.
resource_stop == Ga2d /\ (resource_block \/ source_stop)
MayStart == ~resource_stop /\ (Ga2d => data_ready)

\* issue: in a running command the next write is ready to be committed.
EngineStep(issue) ==
  /\ engine' = CASE engine = "idle" /\ issue /\ MayStart -> "run"
                 [] engine = "run" /\ issue /\ ~resource_stop -> "address"
                 [] engine = "run" /\ (resource_stop \/ ~issue) -> "idle"
                 [] AwAccept -> "data"
                 [] WAccept -> "response"
                 [] BAccept -> "run"
                 [] OTHER -> engine
  /\ write_pending' = (Ga2d /\ (AwAccept \/ (write_pending /\ ~BAccept)))
  /\ aw_fifo' = IF AwAccept THEN "crossing" ELSE aw_fifo
  /\ w_fifo' = IF WAccept THEN "crossing" ELSE w_fifo
  /\ b_fifo' = IF BAccept THEN "empty" ELSE Advance(b_fifo)

\* The GA2D source control of soc_data_plane.sv; other paths have none.
\* Variant: the source rearms on the acknowledgement instead of its end.
RearmReady_OnAck == source_safe_idle /\ pclk_master_idle[2] /\ pclk_ack[2]
RearmReady == source_safe_idle /\ pclk_master_idle[2] /\ ~pclk_ack[2]

StopStep ==
  /\ Ga2d
  /\ source_quiesced' = (resource_block /\ source_stop /\ source_safe_idle)
  /\ CASE resource_block ->
            /\ rearm' = TRUE
            /\ data_ready' = FALSE
            /\ source_stop' = (source_stop \/ source_stop_ready)
       [] ~resource_block /\ rearm ->
            /\ data_ready' = FALSE
            /\ source_stop' = (source_stop /\ ~RearmReady)
            /\ rearm' = ~RearmReady
       [] OTHER ->
            /\ data_ready' = TRUE
            /\ UNCHANGED <<source_stop, rearm>>

----------------------------------------------------------------------------
\* clk_pclk, LP software.  One register access per ApbCycles; everything else
\* in a HAL call is local to LP.
Access ==
  /\ apb_wait = 0
  /\ apb_wait' = ApbCycles - 1

Return(status) ==
  /\ pc' = "idle"
  /\ result' = status

\* rs_resource_set_owner: status read, refused when the owner is locked.
CallSetOwner ==
  /\ pc = "idle" /\ Access
  /\ \E o \in {OwnerLp, OwnerHp}, lock \in BOOLEAN : want' = <<o, lock>>
  /\ IF owner_lock THEN Return("EIO")
     ELSE pc' = "quiesce" /\ result' = "none"
  /\ polls' = 0
  /\ UNCHANGED rcVars

WriteQuiesce ==
  /\ pc = "quiesce" /\ Access
  /\ ControlWrite(TRUE, FALSE)
  /\ pc' = "poll"
  /\ UNCHANGED <<want, polls, result>>

PollStatus ==
  /\ pc = "poll" /\ Access
  /\ polls' = polls + 1
  /\ pc' = CASE block_ack_i /\ idle_i -> "owner"
             [] ~(block_ack_i /\ idle_i) /\ polls + 1 = PollLimit -> "giveup"
             [] OTHER -> "poll"
  /\ UNCHANGED <<rcVars, want, result>>

\* Variant: a timed-out call leaves the resource quiesced.
GiveUp_LeavesQuiesce ==
  /\ pc = "giveup" /\ Access
  /\ Return("ETIMEOUT")
  /\ UNCHANGED <<rcVars, want, polls>>

GiveUp ==
  /\ pc = "giveup" /\ Access
  /\ ControlWrite(FALSE, FALSE)
  /\ Return("ETIMEOUT")
  /\ UNCHANGED <<want, polls>>

WriteOwner ==
  /\ pc = "owner" /\ Access
  /\ OwnerWrite(want[1], want[2], block_ack_i, idle_i)
  /\ pc' = "release"
  /\ UNCHANGED <<want, polls, result>>

\* The read-back and the release; the verdict compares owner and lock.
ReleaseResource ==
  /\ pc = "release" /\ Access
  /\ ControlWrite(FALSE, FALSE)
  /\ Return(IF <<owner, owner_lock>> = want THEN "OK" ELSE "EIO")
  /\ UNCHANGED <<want, polls>>

\* rs_resource_set_lifecycle and rs_resource_clear_fault called directly.
CallSetLifecycle ==
  /\ pc = "idle" /\ Access
  /\ \E q, r \in BOOLEAN : ControlWrite(q, r)
  /\ Return("none")
  /\ UNCHANGED <<want, polls>>

CallClearFault ==
  /\ pc = "idle" /\ Access
  /\ FaultClear
  /\ Return("none")
  /\ UNCHANGED <<want, polls>>

NoAccess ==
  /\ apb_wait' = IF apb_wait = 0 THEN 0 ELSE apb_wait - 1
  /\ UNCHANGED <<rcVars, pc, want, polls, result>>

SetOwnerStep ==
  \/ WriteQuiesce
  \/ PollStatus
  \/ GiveUp
  \/ WriteOwner
  \/ ReleaseResource

Software ==
  \/ CallSetOwner
  \/ SetOwnerStep
  \/ CallSetLifecycle
  \/ CallClearFault
  \/ NoAccess

PclkTick(issue, software) ==
  /\ hp_phase > 0
  /\ software
  /\ EngineStep(issue)
  /\ StopStep \/ (~Ga2d /\ UNCHANGED stopVars)
  /\ pclk_idle' = Shift(pclk_idle, resource_idle)
  /\ pclk_ack' = Shift(pclk_ack, resource_block_ack)
  /\ pclk_master_idle' = Shift(pclk_master_idle, master_idle)
  /\ hp_phase' = 0
  /\ UNCHANGED <<xbarVars, hpSyncVars, path>>

Next ==
  \/ \E respond \in BOOLEAN : HpTick(respond)
  \/ \E issue \in BOOLEAN : PclkTick(issue, Software)

\* Both clocks run, every target answers an accepted write (the target guard
\* bounds the wait), and a HAL call in progress makes progress.
Fairness ==
  /\ WF_vars(\E issue \in BOOLEAN : PclkTick(issue, Software))
  /\ SF_vars(HpTick(TRUE))
  /\ SF_vars(\E issue \in BOOLEAN : PclkTick(issue, SetOwnerStep))

Spec == Init /\ [][Next]_vars /\ Fairness

----------------------------------------------------------------------------
\* Registers, synchronizers, paths and the driver hold what the code can put there;
\* the handoff counter saturates.
Pair == BOOLEAN \X BOOLEAN

TypeOK ==
  /\ RcTypeOK
  /\ engine \in EngineState /\ write_pending \in BOOLEAN /\ path \in Paths
  /\ aw_fifo \in Entry /\ w_fifo \in Entry /\ b_fifo \in Entry
  /\ bursts \in 0 .. 1 /\ routes \in 0 .. 1
  /\ source_stop \in BOOLEAN /\ source_quiesced \in BOOLEAN
  /\ rearm \in BOOLEAN /\ data_ready \in BOOLEAN
  /\ hp_block \in Pair /\ hp_quiesced \in Pair /\ hp_safe_idle \in Pair
  /\ pclk_idle \in Pair /\ pclk_ack \in Pair /\ pclk_master_idle \in Pair
  /\ pc \in {"idle", "quiesce", "poll", "owner", "giveup", "release"}
  /\ want \in {OwnerLp, OwnerHp} \X BOOLEAN
  /\ result \in {"none", "OK", "EIO", "ETIMEOUT"}
  /\ polls \in 0 .. PollLimit
  /\ apb_wait \in 0 .. (ApbCycles - 1)
  /\ hp_phase \in 0 .. MaxHp

\* The owner changes only when the crossbar holds no accepted burst of the
\* resource, so that a response of the old owner's traffic never meets a new
\* owner; and on the GA2D path only when the command is over altogether, with
\* nothing of it left in the bridge.
HandoffIsQuiet ==
  [][owner' # owner =>
       /\ bursts = 0 /\ routes = 0
       /\ Ga2d => engine_idle /\ aw_fifo = "empty" /\ w_fifo = "empty"]_vars

\* What rs_resource_set_owner returns is true: success leaves the requested
\* owner and lock in force and the resource running again; a timeout or an
\* error after the quiesce leaves it running again as well.
HalVerdictIsTrue ==
  /\ result = "OK" => <<owner, owner_lock>> = want /\ ~quiesce /\ ~reset
  /\ result = "ETIMEOUT" => ~quiesce /\ ~reset

\* A quiesce that software holds is eventually acknowledged with idle, even
\* when it arrives between a data beat and its address (the GA2D path: a
\* quiesce does not stop the engine of the other).
QuiesceIsAcknowledged ==
  Ga2d /\ <>[](quiesce /\ pc = "idle") => <>[](block_ack_i /\ idle_i)

\* A released GA2D eventually accepts work again.
SourceRearms == Ga2d /\ <>[](~quiesce /\ ~reset) => <>[]data_ready

\* Every HAL hand-off call returns.
SetOwnerReturns == pc # "idle" ~> pc = "idle"
=============================================================================
