----------------------- MODULE ResourceHandoff_proofs -----------------------
(***************************************************************************)
(* Proofs about one resource slice, for every width of HANDOFF_COUNT and   *)
(* every sequence of register writes, and about the hand-off as a whole,   *)
(* for every poll limit, access time and ratio of the two clocks.          *)
(***************************************************************************)
EXTENDS ResourceHandoff, TLAPS

\* The parity of a natural number flips when it is incremented.
LEMMA ParityFlips ==
  ASSUME NEW n \in Nat
  PROVE  /\ n % 2 \in {0, 1}
         /\ (n + 1) % 2 = 1 - (n % 2)
  OBVIOUS

\* No register write takes a slice out of its types.
LEMMA RcTypeStep == RcTypeOK /\ [RcNext]_rcVars => RcTypeOK'
<1> SUFFICES ASSUME RcTypeOK, [RcNext]_rcVars PROVE RcTypeOK'
  OBVIOUS
<1>1. ASSUME NEW code \in OwnerCodes, NEW lock \in BOOLEAN,
             NEW block_ack \in BOOLEAN, NEW idle \in BOOLEAN,
             OwnerWriteAccepted(code, lock, block_ack, idle)
      PROVE  RcTypeOK'
  BY <1>1, HandoffMaxAssumption
     DEF RcTypeOK, OwnerWriteAccepted, OwnerWriteError, OwnerCodes,
              OwnerLp, OwnerHp, saturating_increment
<1>2. ASSUME NEW code \in OwnerCodes,
             NEW block_ack \in BOOLEAN, NEW idle \in BOOLEAN,
             OwnerWriteRejected(code, block_ack, idle)
      PROVE  RcTypeOK'
  BY <1>2 DEF RcTypeOK, OwnerWriteRejected
<1>3. ASSUME NEW q \in BOOLEAN, NEW r \in BOOLEAN, ControlWrite(q, r)
      PROVE  RcTypeOK'
  BY <1>3 DEF RcTypeOK, ControlWrite
<1>4. CASE FaultClear
  BY <1>4 DEF RcTypeOK, FaultClear
<1>5. CASE UNCHANGED rcVars
  BY <1>5 DEF RcTypeOK, rcVars
<1> QED
  BY <1>1, <1>2, <1>3, <1>4, <1>5 DEF RcNext, OwnerWrite

\* The owner is one of the two codes and the counter never leaves its range,
\* also when it saturates (resource_controller.sv:63-65).
THEOREM RcTypeCorrect == RcSpec => []RcTypeOK
<1>1. RcInit => RcTypeOK
  <2>1. 0 \in 0 .. HandoffMax
    BY HandoffMaxAssumption
  <2> QED
    BY <2>1 DEF RcInit, RcTypeOK, OwnerLp, OwnerHp
<1> QED
  BY <1>1, RcTypeStep, PTL DEF RcSpec

\* HANDOFF_COUNT counts exactly the changes of the owner until it saturates.
THEOREM CountIsParity == RcSpec => []CountMatchesOwner
<1>1. RcInit => CountMatchesOwner
  BY DEF RcInit, CountMatchesOwner, OwnerLp
<1>2. RcTypeOK /\ CountMatchesOwner /\ [RcNext]_rcVars => CountMatchesOwner'
  <2> SUFFICES ASSUME RcTypeOK, CountMatchesOwner, [RcNext]_rcVars
               PROVE  CountMatchesOwner'
    OBVIOUS
  <2>1. ASSUME NEW code \in OwnerCodes, NEW lock \in BOOLEAN,
               NEW block_ack \in BOOLEAN, NEW idle \in BOOLEAN,
               OwnerWriteAccepted(code, lock, block_ack, idle)
        PROVE  CountMatchesOwner'
    <3>1. owner' \in {0, 1} /\ owner \in {0, 1} /\ owner' = code
      BY <2>1, HandoffMaxAssumption
       DEF RcTypeOK, OwnerWriteAccepted, OwnerWriteError, OwnerCodes,
                  OwnerLp, OwnerHp
    <3>2. CASE owner = code
      BY <2>1, <3>1, <3>2 DEF CountMatchesOwner, OwnerWriteAccepted
    <3>3. CASE owner # code
      <4> SUFFICES ASSUME handoff_count' < HandoffMax
                   PROVE  owner' = handoff_count' % 2
        BY DEF CountMatchesOwner
      <4>1. handoff_count \in Nat /\ handoff_count' = handoff_count + 1
        BY <2>1, <3>3, HandoffMaxAssumption
           DEF RcTypeOK, OwnerWriteAccepted, saturating_increment
      <4>2. owner = handoff_count % 2
        BY <4>1, HandoffMaxAssumption DEF CountMatchesOwner
      <4>3. owner' = 1 - owner
        BY <3>1, <3>3
      <4> QED
        BY <4>1, <4>2, <4>3, ParityFlips
    <3> QED
      BY <3>2, <3>3
  <2>2. ASSUME NEW code \in OwnerCodes,
               NEW block_ack \in BOOLEAN, NEW idle \in BOOLEAN,
               OwnerWriteRejected(code, block_ack, idle)
        PROVE  CountMatchesOwner'
    BY <2>2 DEF CountMatchesOwner, OwnerWriteRejected
  <2>3. ASSUME NEW q \in BOOLEAN, NEW r \in BOOLEAN, ControlWrite(q, r)
        PROVE  CountMatchesOwner'
    BY <2>3 DEF CountMatchesOwner, ControlWrite
  <2>4. CASE FaultClear
    BY <2>4 DEF CountMatchesOwner, FaultClear
  <2>5. CASE UNCHANGED rcVars
    BY <2>5 DEF CountMatchesOwner, rcVars
  <2> QED
    BY <2>1, <2>2, <2>3, <2>4, <2>5 DEF RcNext, OwnerWrite
<1> QED
  BY <1>1, <1>2, RcTypeCorrect, PTL DEF RcSpec

\* A locked owner is locked for good.
THEOREM OwnerLockIsSticky == RcSpec => LockIsSticky
<1>1. [RcNext]_rcVars => [owner_lock => owner_lock' /\ owner' = owner]_rcVars
  BY DEF RcNext, rcVars, OwnerWrite, OwnerWriteAccepted, OwnerWriteRejected,
         OwnerWriteError, ControlWrite, FaultClear
<1> QED
  BY <1>1, PTL DEF RcSpec, LockIsSticky
-----------------------------------------------------------------------------
(* The hand-off: the inductive invariant.                                  *)

Waiting == pc \in {"poll", "owner"}

\* Where the write in flight is: in the bridge, in the crossbar, or on its way
\* back; a command without one leaves nothing behind.
WriteInv ==
  /\ engine \in {"idle", "run", "address"} =>
       /\ aw_fifo = "empty" /\ w_fifo = "empty" /\ b_fifo = "empty"
       /\ bursts = 0 /\ routes = 0
  /\ engine = "data" =>
       /\ w_fifo = "empty" /\ b_fifo = "empty"
       /\ bursts = routes /\ (aw_fifo = "empty" <=> bursts = 1)
  /\ engine = "response" =>
       /\ b_fifo # "empty" => aw_fifo = "empty" /\ w_fifo = "empty" /\ bursts = 0 /\ routes = 0
       /\ aw_fifo # "empty" => w_fifo # "empty" /\ b_fifo = "empty" /\ bursts = 0 /\ routes = 0
       /\ (aw_fifo = "empty" /\ b_fifo = "empty") =>
             bursts = 1 /\ (routes = 1 <=> w_fifo # "empty")

\* The calls of the HAL: polling ends, quiesce is held while the owner is
\* written, and a verdict is there only between two calls.
HalInv ==
  /\ pc \in {"quiesce", "poll"} => polls < PollLimit
  /\ Waiting => quiesce
  /\ result \in {"OK", "ETIMEOUT"} => pc = "idle"

\* The block request as the HP domain sees it: between two PCLK edges it was
\* sampled, and once more before a call that has read the status goes on.
BlockInv ==
  /\ hp_phase > 0 => (hp_block[1] <=> resource_block)
  /\ pc = "quiesce" => (hp_block[1] <=> resource_block)
  /\ (pc = "quiesce" /\ hp_phase > 0) => (hp_block[2] <=> resource_block)
  /\ Waiting => (hp_block[2] => hp_block[1])

Quiet == hp_block[1] /\ hp_block[2] /\ bursts = 0 /\ routes = 0

\* An acknowledgement and an idle sample that are on their way to PCLK together
\* were taken behind the block, and the block holds since.
SampleInv ==
  ~Ga2d =>
    /\ (Waiting /\ pclk_ack[1] /\ pclk_idle[1]) => Quiet
    /\ (pc = "owner" /\ pclk_ack[2] /\ pclk_idle[2]) => Quiet

HandoffInv == TypeOK /\ WriteInv /\ HalInv /\ BlockInv /\ SampleInv /\ HalVerdictIsTrue

-----------------------------------------------------------------------------
(* Lemmas.                                                                 *)

\* One edge of a two-flop synchronizer.
LEMMA ShiftPair ==
  ASSUME NEW s \in Pair, NEW d \in BOOLEAN
  PROVE  Shift(s, d) \in Pair /\ (Shift(s, d)[1] <=> d) /\ (Shift(s, d)[2] <=> s[1])
BY DEF Shift, Pair

\* The signals that cross between the clocks are Boolean.
LEMMA Signals ==
  /\ resource_block \in BOOLEAN /\ resource_idle \in BOOLEAN
  /\ resource_block_ack \in BOOLEAN /\ master_idle \in BOOLEAN
  /\ block_ack_i \in BOOLEAN /\ idle_i \in BOOLEAN
  /\ (Ga2d /\ source_safe_idle) \in BOOLEAN
BY DEF resource_block, resource_idle, resource_block_ack, master_idle, block_ack_i, idle_i

\* Whatever the HAL does to the registers is a write of the slice.
LEMMA SoftwareWrites ==
  ASSUME TypeOK, Software
  PROVE  [RcNext]_rcVars
<1>1. CASE CallSetOwner \/ PollStatus \/ NoAccess
  BY <1>1 DEF CallSetOwner, PollStatus, NoAccess
<1>2. CASE WriteQuiesce \/ GiveUp \/ ReleaseResource
  BY <1>2 DEF WriteQuiesce, GiveUp, ReleaseResource, RcNext
<1>3. CASE WriteOwner
  <2>1. want[1] \in OwnerCodes /\ want[2] \in BOOLEAN
    BY DEF TypeOK, OwnerLp, OwnerHp, OwnerCodes
  <2> QED BY <1>3, <2>1, Signals DEF WriteOwner, RcNext
<1>4. CASE CallSetLifecycle
  BY <1>4 DEF CallSetLifecycle, RcNext
<1>5. CASE CallClearFault
  BY <1>5 DEF CallClearFault, RcNext
<1> QED BY <1>1, <1>2, <1>3, <1>4, <1>5 DEF Software, SetOwnerStep

\* Type correctness of a step.
LEMMA HandoffTypeStep == TypeOK /\ HalInv /\ [Next]_vars => TypeOK'
<1> SUFFICES ASSUME TypeOK, HalInv, [Next]_vars PROVE TypeOK'
  OBVIOUS
<1>1. ASSUME NEW respond \in BOOLEAN, HpTick(respond) PROVE TypeOK'
  <2>1. aw_fifo' \in Entry /\ w_fifo' \in Entry /\ b_fifo' \in Entry
    BY <1>1 DEF HpTick, CrossbarStep, TypeOK, Entry, Advance
  <2>2. bursts' \in 0 .. 1 /\ routes' \in 0 .. 1
    BY <1>1 DEF HpTick, CrossbarStep, TypeOK
  <2>3. source_quiesced \in BOOLEAN /\ hp_block \in Pair /\ hp_quiesced \in Pair
        /\ hp_safe_idle \in Pair
    BY DEF TypeOK
  <2>4. hp_block' \in Pair /\ hp_quiesced' \in Pair /\ hp_safe_idle' \in Pair
    BY <1>1, <2>3, Signals, ShiftPair DEF HpTick
  <2>5. hp_phase' \in 0 .. MaxHp
    BY <1>1, HandoffAssumption DEF HpTick, TypeOK
  <2>6. RcTypeOK'
    BY <1>1 DEF HpTick, rcVars, TypeOK, RcTypeOK
  <2>7. UNCHANGED <<engineVars, stopVars, pclkSyncVars, halVars, path>>
    BY <1>1 DEF HpTick
  <2> QED
    BY <2>1, <2>2, <2>4, <2>5, <2>6, <2>7 DEF TypeOK, engineVars, stopVars, pclkSyncVars, halVars
<1>2. ASSUME NEW issue \in BOOLEAN, PclkTick(issue, Software) PROVE TypeOK'
  <2>1. RcTypeOK'
    BY <1>2, SoftwareWrites, RcTypeStep DEF PclkTick, TypeOK
  <2>2. engine' \in EngineState
    BY <1>2 DEF PclkTick, EngineStep, TypeOK, EngineState
  <2>3. write_pending' \in BOOLEAN
    BY <1>2 DEF PclkTick, EngineStep
  <2>4. aw_fifo' \in Entry /\ w_fifo' \in Entry /\ b_fifo' \in Entry
    BY <1>2 DEF PclkTick, EngineStep, TypeOK, Entry, Advance
  <2>5. /\ source_stop' \in BOOLEAN /\ source_quiesced' \in BOOLEAN
        /\ rearm' \in BOOLEAN /\ data_ready' \in BOOLEAN
    <3>1. CASE StopStep
      BY <3>1 DEF StopStep, TypeOK
    <3>2. CASE UNCHANGED stopVars
      BY <3>2 DEF stopVars, TypeOK
    <3> QED BY <1>2, <3>1, <3>2 DEF PclkTick
  <2>6. pclk_idle \in Pair /\ pclk_ack \in Pair /\ pclk_master_idle \in Pair
    BY DEF TypeOK
  <2>7. pclk_idle' \in Pair /\ pclk_ack' \in Pair /\ pclk_master_idle' \in Pair
    BY <1>2, <2>6, Signals, ShiftPair DEF PclkTick
  <2>8. hp_phase' \in 0 .. MaxHp
    BY <1>2, HandoffAssumption DEF PclkTick
  <2>9. /\ pc' \in {"idle", "quiesce", "poll", "owner", "giveup", "release"}
        /\ result' \in {"none", "OK", "EIO", "ETIMEOUT"}
        /\ polls' \in 0 .. PollLimit /\ apb_wait' \in 0 .. (ApbCycles - 1)
    <3> USE HandoffAssumption DEF TypeOK, Access, Return
    <3>1. CASE CallSetOwner
      BY <3>1 DEF CallSetOwner
    <3>2. CASE WriteQuiesce
      BY <3>2 DEF WriteQuiesce
    <3>3. CASE PollStatus
      BY <3>3 DEF PollStatus, HalInv
    <3>4. CASE GiveUp
      BY <3>4 DEF GiveUp
    <3>5. CASE WriteOwner
      BY <3>5 DEF WriteOwner
    <3>6. CASE ReleaseResource
      BY <3>6 DEF ReleaseResource
    <3>7. CASE CallSetLifecycle
      BY <3>7 DEF CallSetLifecycle
    <3>8. CASE CallClearFault
      BY <3>8 DEF CallClearFault
    <3>9. CASE NoAccess
      BY <3>9 DEF NoAccess
    <3> QED
      BY <1>2, <3>1, <3>2, <3>3, <3>4, <3>5, <3>6, <3>7, <3>8, <3>9 DEF PclkTick, Software,
         SetOwnerStep
  <2>10. want' \in {OwnerLp, OwnerHp} \X BOOLEAN
    <3>1. CASE CallSetOwner
      <4>1. PICK o \in {OwnerLp, OwnerHp}, lock \in BOOLEAN : want' = <<o, lock>>
        BY <3>1 DEF CallSetOwner
      <4> QED BY <4>1
    <3>2. CASE ~CallSetOwner
      <4>1. want' = want
        BY <1>2, <3>2 DEF PclkTick, Software, SetOwnerStep, WriteQuiesce, PollStatus, GiveUp,
           WriteOwner, ReleaseResource, CallSetLifecycle, CallClearFault, NoAccess
      <4> QED BY <4>1 DEF TypeOK
    <3> QED BY <3>1, <3>2
  <2>11. UNCHANGED <<xbarVars, hpSyncVars, path>>
    BY <1>2 DEF PclkTick
  <2> QED
    BY <2>1, <2>2, <2>3, <2>4, <2>5, <2>7, <2>8, <2>9, <2>10, <2>11 DEF TypeOK, xbarVars, hpSyncVars
<1>3. CASE UNCHANGED vars
  BY <1>3 DEF vars, rcVars, engineVars, fifoVars, xbarVars, stopVars, hpSyncVars, pclkSyncVars,
     halVars, TypeOK, RcTypeOK
<1> QED BY <1>1, <1>2, <1>3 DEF Next

-----------------------------------------------------------------------------
(* The invariant of the hand-off is kept.                                  *)

LEMMA HandoffStep == HandoffInv /\ [Next]_vars => HandoffInv'
<1> SUFFICES ASSUME HandoffInv, [Next]_vars PROVE HandoffInv'
  OBVIOUS
<1>t. TypeOK /\ TypeOK'
  BY HandoffTypeStep DEF HandoffInv
<1>1. ASSUME NEW respond \in BOOLEAN, HpTick(respond) PROVE HandoffInv'
  <2>1. WriteInv'
    <3> USE <1>t, <1>1 DEF HpTick, CrossbarStep, engineVars, HandoffInv, WriteInv, TypeOK,
                           EngineState, Entry, Advance
    <3>1. CASE engine \in {"idle", "run", "address"}
      BY <3>1
    <3>2. CASE engine = "data"
      BY <3>2
    <3>3. CASE engine = "response"
      BY <3>3
    <3> QED BY <3>1, <3>2, <3>3
  <2>2. HalInv' /\ HalVerdictIsTrue'
    BY <1>1 DEF HpTick, halVars, rcVars, HandoffInv, HalInv, HalVerdictIsTrue, Waiting
  <2>3. (hp_block'[1] <=> resource_block) /\ (hp_block'[2] <=> hp_block[1])
    BY <1>1, <1>t, Signals, ShiftPair DEF HpTick, TypeOK
  <2>4. resource_block' <=> resource_block
    BY <1>1 DEF HpTick, rcVars, resource_block
  <2>5. pc' = pc /\ (Waiting' <=> Waiting) /\ (Ga2d' <=> Ga2d)
        /\ pclk_ack' = pclk_ack /\ pclk_idle' = pclk_idle
    BY <1>1 DEF HpTick, halVars, Waiting, Ga2d, pclkSyncVars
  <2>6. Waiting => resource_block
    BY DEF HandoffInv, HalInv, resource_block
  <2>7. BlockInv'
    BY <2>3, <2>4, <2>5, <2>6 DEF HandoffInv, BlockInv
  <2>8. (~Ga2d /\ Quiet /\ Waiting) => Quiet'
    BY <1>1, <1>t, <2>3, <2>6 DEF Quiet, HpTick, CrossbarStep, master_block, TypeOK
  <2>9. SampleInv'
    BY <2>5, <2>8 DEF HandoffInv, SampleInv, Waiting
  <2> QED BY <1>t, <2>1, <2>2, <2>7, <2>9 DEF HandoffInv
<1>2. ASSUME NEW issue \in BOOLEAN, PclkTick(issue, Software) PROVE HandoffInv'
  <2>1. WriteInv'
    <3> USE <1>t, <1>2 DEF PclkTick, EngineStep, xbarVars, HandoffInv, WriteInv, TypeOK,
                           EngineState, Entry, Advance, AwAccept, WAccept, BAccept, awvalid, wvalid
    <3>1. CASE engine \in {"idle", "run"}
      BY <3>1
    <3>2. CASE engine = "address"
      BY <3>2
    <3>3. CASE engine = "data"
      BY <3>3
    <3>4. CASE engine = "response"
      BY <3>4
    <3> QED BY <3>1, <3>2, <3>3, <3>4
  <2>2. HalInv' /\ HalVerdictIsTrue'
    <3> USE <1>t, HandoffAssumption DEF HandoffInv, HalInv, HalVerdictIsTrue, Waiting, Access,
                                        Return, ControlWrite, rcVars
    <3>1. CASE CallSetOwner
      BY <3>1 DEF CallSetOwner
    <3>2. CASE WriteQuiesce
      BY <3>2 DEF WriteQuiesce
    <3>3. CASE PollStatus
      BY <3>3 DEF PollStatus, TypeOK
    <3>4. CASE GiveUp
      BY <3>4 DEF GiveUp
    <3>5. CASE WriteOwner
      BY <3>5 DEF WriteOwner
    <3>6. CASE ReleaseResource
      BY <3>6 DEF ReleaseResource
    <3>7. CASE CallSetLifecycle
      BY <3>7 DEF CallSetLifecycle
    <3>8. CASE CallClearFault
      BY <3>8 DEF CallClearFault
    <3>9. CASE NoAccess
      BY <3>9 DEF NoAccess
    <3> QED
      BY <1>2, <3>1, <3>2, <3>3, <3>4, <3>5, <3>6, <3>7, <3>8, <3>9 DEF PclkTick, Software,
         SetOwnerStep
  <2>3. hp_block' = hp_block /\ bursts' = bursts /\ routes' = routes /\ hp_phase > 0 /\ hp_phase' = 0
        /\ (Ga2d' <=> Ga2d)
    BY <1>2 DEF PclkTick, hpSyncVars, xbarVars, Ga2d
  <2>4. (hp_block[1] <=> resource_block) /\ (pc = "quiesce" => (hp_block[2] <=> resource_block))
    BY <2>3 DEF HandoffInv, BlockInv
  <2>5. \/ pc' = "quiesce" /\ UNCHANGED rcVars
        \/ pc' \in {"poll", "owner"} /\ pc = "quiesce"
        \/ pc' \in {"poll", "owner"} /\ pc \in {"poll", "owner"}
        \/ pc' \notin {"quiesce", "poll", "owner"}
    BY <1>2, <1>t DEF PclkTick, Software, SetOwnerStep, CallSetOwner, WriteQuiesce, PollStatus, GiveUp,
       WriteOwner, ReleaseResource, CallSetLifecycle, CallClearFault, NoAccess, Return, TypeOK
  <2>6. BlockInv'
    <3>1. pc' = "quiesce" => (resource_block' <=> resource_block)
      BY <2>5 DEF resource_block, rcVars
    <3>2. Waiting' => (hp_block[2] => hp_block[1])
      BY <2>4, <2>5 DEF Waiting, HandoffInv, BlockInv
    <3> QED BY <2>3, <2>4, <3>1, <3>2 DEF BlockInv
  <2>7. /\ (pclk_ack'[1] <=> resource_block_ack) /\ (pclk_ack'[2] <=> pclk_ack[1])
        /\ (pclk_idle'[1] <=> resource_idle) /\ (pclk_idle'[2] <=> pclk_idle[1])
    BY <1>2, <1>t, Signals, ShiftPair DEF PclkTick, TypeOK
  <2>8. SampleInv'
    <3> SUFFICES ASSUME ~Ga2d
                 PROVE  /\ (Waiting' /\ pclk_ack'[1] /\ pclk_idle'[1]) => Quiet'
                        /\ (pc' = "owner" /\ pclk_ack'[2] /\ pclk_idle'[2]) => Quiet'
      BY <2>3 DEF SampleInv
    <3>1. Quiet' <=> Quiet
      BY <2>3 DEF Quiet
    <3>2. (Waiting' /\ resource_block_ack /\ resource_idle) => Quiet
      <4>1. Waiting' => (hp_block[2] => hp_block[1])
        BY <2>3, <2>6 DEF BlockInv
      <4> QED BY <4>1 DEF resource_block_ack, resource_idle, master_idle, Quiet
    <3>3. pc' = "owner" => Waiting
      BY <1>2, <1>t DEF PclkTick, Software, SetOwnerStep, CallSetOwner, WriteQuiesce, PollStatus, GiveUp,
         WriteOwner, ReleaseResource, CallSetLifecycle, CallClearFault, NoAccess, Return, TypeOK, Waiting
    <3> QED BY <2>7, <3>1, <3>2, <3>3 DEF HandoffInv, SampleInv
  <2> QED BY <1>t, <2>1, <2>2, <2>6, <2>8 DEF HandoffInv
<1>3. CASE UNCHANGED vars
  <2> USE <1>3 DEF vars, rcVars, engineVars, fifoVars, xbarVars, stopVars, hpSyncVars, pclkSyncVars,
                   halVars, HandoffInv
  <2>1. WriteInv' /\ HalInv' /\ HalVerdictIsTrue'
    BY DEF WriteInv, HalInv, HalVerdictIsTrue, Waiting
  <2>2. BlockInv' /\ SampleInv'
    BY DEF BlockInv, SampleInv, Waiting, Quiet, Ga2d, resource_block
  <2> QED BY <1>t, <2>1, <2>2
<1> QED BY <1>1, <1>2, <1>3 DEF Next

LEMMA HandoffStart == Init => HandoffInv
<1> SUFFICES ASSUME Init PROVE HandoffInv
  OBVIOUS
<1>1. RcTypeOK
  <2>1. 0 \in 0 .. HandoffMax
    BY HandoffMaxAssumption
  <2> QED BY <2>1 DEF Init, RcInit, RcTypeOK, OwnerLp, OwnerHp
<1>2. <<FALSE, FALSE>> \in Pair /\ ~<<FALSE, FALSE>>[1] /\ ~<<FALSE, FALSE>>[2]
  BY DEF Pair
<1>3. TypeOK
  <2>1. /\ polls \in 0 .. PollLimit /\ apb_wait \in 0 .. (ApbCycles - 1) /\ hp_phase \in 0 .. MaxHp
        /\ bursts \in 0 .. 1 /\ routes \in 0 .. 1
    BY HandoffAssumption DEF Init
  <2>2. /\ engine \in EngineState /\ path \in Paths
        /\ aw_fifo \in Entry /\ w_fifo \in Entry /\ b_fifo \in Entry
        /\ pc \in {"idle", "quiesce", "poll", "owner", "giveup", "release"}
        /\ result \in {"none", "OK", "EIO", "ETIMEOUT"}
        /\ want \in {OwnerLp, OwnerHp} \X BOOLEAN
    BY DEF Init, EngineState, Entry
  <2>3. /\ source_stop \in BOOLEAN /\ source_quiesced \in BOOLEAN /\ write_pending \in BOOLEAN
        /\ rearm \in BOOLEAN /\ data_ready \in BOOLEAN
        /\ hp_block \in Pair /\ hp_quiesced \in Pair /\ hp_safe_idle \in Pair
        /\ pclk_idle \in Pair /\ pclk_ack \in Pair /\ pclk_master_idle \in Pair
    BY <1>2, Zenon DEF Init
  <2> QED BY <1>1, <2>1, <2>2, <2>3 DEF TypeOK
<1>4. WriteInv /\ HalInv /\ HalVerdictIsTrue
  BY DEF Init, WriteInv, HalInv, HalVerdictIsTrue, Waiting
<1>5. BlockInv /\ SampleInv
  BY <1>2 DEF Init, RcInit, BlockInv, SampleInv, Waiting, Quiet, resource_block
<1> QED BY <1>3, <1>4, <1>5 DEF HandoffInv

-----------------------------------------------------------------------------
(* The theorems about the hand-off.                                        *)

\* The invariant of the hand-off, of which the theorems below are consequences.
THEOREM HandoffInvariant == Spec => []HandoffInv
BY HandoffStart, HandoffStep, PTL DEF Spec

\* Type correctness of the HAL, the registers, the crossings and the data path.
THEOREM HandoffTypeCorrect == Spec => []TypeOK
<1>1. HandoffInv => TypeOK
  BY DEF HandoffInv
<1> QED BY <1>1, HandoffInvariant, PTL

\* What rs_resource_set_owner returns is true, however the clocks interleave.
THEOREM HalTellsTheTruth == Spec => []HalVerdictIsTrue
<1>1. HandoffInv => HalVerdictIsTrue
  BY DEF HandoffInv
<1> QED BY <1>1, HandoffInvariant, PTL

\* The owner changes only when no burst of the resource is in the crossbar, and on
\* the GA2D path only when its command is over and nothing of it is in the bridge.
THEOREM OwnerChangesQuietly == Spec => HandoffIsQuiet
<1>1. HandoffInv /\ [Next]_vars =>
        [owner' # owner =>
           /\ bursts = 0 /\ routes = 0
           /\ Ga2d => engine_idle /\ aw_fifo = "empty" /\ w_fifo = "empty"]_vars
  <2> SUFFICES ASSUME HandoffInv, [Next]_vars, owner' # owner
               PROVE  /\ bursts = 0 /\ routes = 0
                      /\ Ga2d => engine_idle /\ aw_fifo = "empty" /\ w_fifo = "empty"
    OBVIOUS
  <2>1. PICK issue \in BOOLEAN : PclkTick(issue, Software)
    BY DEF Next, HpTick, rcVars, vars
  <2>2. WriteOwner
    BY <2>1 DEF PclkTick, Software, SetOwnerStep, CallSetOwner, WriteQuiesce, PollStatus, GiveUp,
       ReleaseResource, CallSetLifecycle, CallClearFault, NoAccess, ControlWrite, FaultClear, rcVars
  <2>3. pc = "owner" /\ block_ack_i /\ idle_i
    BY <2>2 DEF WriteOwner, OwnerWrite, OwnerWriteAccepted, OwnerWriteRejected, OwnerWriteError
  <2>4. CASE Ga2d
    BY <2>3, <2>4 DEF idle_i, source_safe_idle, engine_idle, HandoffInv, WriteInv
  <2>5. CASE ~Ga2d
    BY <2>3, <2>5 DEF idle_i, block_ack_i, HandoffInv, SampleInv, Quiet
  <2> QED BY <2>4, <2>5
<1> QED BY <1>1, HandoffInvariant, PTL DEF Spec, HandoffIsQuiet

\* The HAL drives a slice only through its register writes: the hand-off implements
\* the slice, whose theorems therefore hold of it.
THEOREM HandoffDrivesSlice == Spec => RcSpec
<1>1. Init => RcInit
  BY DEF Init
<1>2. HandoffInv /\ [Next]_vars => [RcNext]_rcVars
  <2> SUFFICES ASSUME HandoffInv, [Next]_vars PROVE [RcNext]_rcVars
    OBVIOUS
  <2>1. ASSUME NEW respond \in BOOLEAN, HpTick(respond) PROVE [RcNext]_rcVars
    BY <2>1 DEF HpTick
  <2>2. ASSUME NEW issue \in BOOLEAN, PclkTick(issue, Software) PROVE [RcNext]_rcVars
    BY <2>2, SoftwareWrites DEF PclkTick, HandoffInv
  <2>3. CASE UNCHANGED vars
    BY <2>3 DEF vars, rcVars
  <2> QED BY <2>1, <2>2, <2>3 DEF Next
<1> QED BY <1>1, <1>2, HandoffInvariant, PTL DEF Spec, RcSpec

\* The lock is sticky and the count is the parity of the owner in the composition.
THEOREM HandoffKeepsSlice == Spec => LockIsSticky /\ []CountMatchesOwner
BY HandoffDrivesSlice, OwnerLockIsSticky, CountIsParity, PTL
=============================================================================
