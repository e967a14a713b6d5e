-------------------------- MODULE HpShutdown_proofs --------------------------
(***************************************************************************)
(* Proofs about the HP shutdown: the lifecycle controller for every        *)
(* programmed timeout and every input, and the handshake across the three  *)
(* clock domains for every ratio of the clocks.                            *)
(***************************************************************************)
EXTENDS HpShutdown, TLAPS

----------------------------------------------------------------------------
(* The controller under arbitrary inputs (HpDrain).                        *)

LEMMA LimitFacts == TimeoutLimit \in Nat /\ TimeoutLimit >= 2
  BY TimeoutAssumption DEF TimeoutLimit

\* Ending a stage with evidence s: the fault flag stays in step with the
\* evidence still missing.
LEMMA StageEnds ==
  ASSUME NEW E, NEW P, NEW x, x \notin P, E \subseteq P,
         NEW f \in BOOLEAN, NEW s \in BOOLEAN, f <=> E # P
  PROVE  LET E2 == E \cup (IF s THEN {x} ELSE {})
         IN  /\ E2 \subseteq P \cup {x}
             /\ (f \/ ~s) <=> E2 # P \cup {x}
  <1>1. CASE s
    <2>1. E \cup {x} = P \cup {x} <=> E = P
      OBVIOUS
    <2> QED BY <1>1, <2>1
  <1>2. CASE ~s
    <2>1. E \cup {} # P \cup {x}
      OBVIOUS
    <2> QED BY <1>2, <2>1
  <1> QED BY <1>1, <1>2

LEMMA DrainTypeInit == DrainInit => DrainTypeOK
<1> SUFFICES ASSUME DrainInit PROVE DrainTypeOK
  OBVIOUS
<1>1. timeout_cnt \in 0 .. (TimeoutLimit - 1) /\ drain_cycles \in Nat
  BY LimitFacts DEF DrainInit, LifecycleInit
<1> QED BY <1>1, Zenon DEF DrainInit, DrainTypeOK, LifecycleInit, LifecycleTypeOK, States

LEMMA DrainTypePreserved == DrainTypeOK /\ [DrainNext]_drainVars => DrainTypeOK'
<1> SUFFICES ASSUME DrainTypeOK, [DrainNext]_drainVars
             PROVE  DrainTypeOK'
  OBVIOUS
<1>1. CASE UNCHANGED drainVars
  BY <1>1 DEF drainVars, lifecycleVars, DrainTypeOK, LifecycleTypeOK
<1>2. CASE DrainNext
  <2> PICK r, c, i, b \in BOOLEAN : DrainClock(r, c, i, b)
    BY <1>2 DEF DrainNext
  <2>1. LifecycleTypeOK'
    <3>1. timeout_cnt' \in 0 .. (TimeoutLimit - 1)
      BY LimitFacts DEF DrainClock, Clock, HeldStep, RunningStep,
         CacheRequestStep, QuiesceStep, FlushRequestStep, FlushWaitStep,
         EndStage, KeepWaiting, Expired, DrainTypeOK, LifecycleTypeOK
    <3>2. /\ state' \in States
          /\ <<hp_release, block_new, flush, forced_fault>>' \in
               BOOLEAN \X BOOLEAN \X BOOLEAN \X BOOLEAN
      BY DEF DrainClock, Clock, HeldStep, RunningStep,
         CacheRequestStep, QuiesceStep, FlushRequestStep, FlushWaitStep,
         EndStage, KeepWaiting, DrainTypeOK, LifecycleTypeOK, States
    <3> QED BY <3>1, <3>2 DEF LifecycleTypeOK
  <2>2. drain_cycles' \in Nat
    BY DEF DrainClock, DrainTypeOK
  <2>3. Seen(c, i, b) \subseteq AllEvidence
    BY DEF Seen, AllEvidence
  <2>4. evidence' \subseteq AllEvidence
    BY <2>3 DEF DrainClock, DrainTypeOK
  <2> QED BY <2>1, <2>2, <2>4 DEF DrainTypeOK
<1> QED BY <1>1, <1>2

\* Type correctness, with the cycle counter below its limit: the 16-bit
\* s_timeout_cnt_q of the code never overflows.
THEOREM TypeCorrect == DrainSpec => []DrainTypeOK
BY DrainTypeInit, DrainTypePreserved, PTL DEF DrainSpec

LEMMA DrainInvInit == DrainInit => DrainInv
BY LimitFacts DEF DrainInit, LifecycleInit, DrainInv, FaultInv, CycleInv, OutputInv,
   Passed, Budget, AllEvidence, draining

LEMMA DrainInvStep == DrainTypeOK /\ DrainInv /\ [DrainNext]_drainVars => DrainInv'
<1> SUFFICES ASSUME DrainTypeOK, DrainInv, [DrainNext]_drainVars
             PROVE  DrainInv'
  OBVIOUS
<1>1. CASE UNCHANGED drainVars
  BY <1>1 DEF drainVars, lifecycleVars, DrainInv, FaultInv, CycleInv, OutputInv,
     draining
<1>2. CASE DrainNext
  <2> PICK r, c, i, b \in BOOLEAN : DrainClock(r, c, i, b)
    BY <1>2 DEF DrainNext
  <2>1. FaultInv'
    <3>1. CASE HeldStep(r)
      BY <3>1 DEF HeldStep, DrainClock, DrainInv, FaultInv, DrainTypeOK,
         LifecycleTypeOK, Seen, Passed, draining
    <3>2. CASE RunningStep(r)
      BY <3>2 DEF RunningStep, DrainClock, DrainInv, FaultInv, DrainTypeOK,
         LifecycleTypeOK, Passed, draining
    <3>3. CASE CacheRequestStep(c)
      <4>1. /\ Passed(state) = {}
            /\ Passed("Quiesce") = {} \cup {"cache_clean"}
            /\ "cache_clean" \notin {}
        BY <3>3 DEF CacheRequestStep, Passed, AllEvidence
      <4>2. /\ evidence \subseteq {}
            /\ forced_fault <=> evidence # {}
            /\ forced_fault \in BOOLEAN
        BY <3>3, <4>1 DEF CacheRequestStep, DrainInv, FaultInv, DrainTypeOK, LifecycleTypeOK
      <4>3. evidence' = evidence \cup (IF c THEN {"cache_clean"} ELSE {})
        BY <3>3 DEF CacheRequestStep, DrainClock, Seen
      <4>4. CASE EndStage("Quiesce", c)
        <5>1. /\ evidence' \subseteq {} \cup {"cache_clean"}
              /\ (forced_fault \/ ~(c)) <=>
                    evidence' # {} \cup {"cache_clean"}
          BY StageEnds, <4>1, <4>2, <4>3
        <5> QED BY <4>4, <4>1, <5>1 DEF EndStage, FaultInv
      <4>5. CASE KeepWaiting /\ ~(c)
        <5>1. evidence' = evidence /\ state' = state /\ forced_fault' = forced_fault
          BY <4>3, <4>5 DEF KeepWaiting
        <5> QED BY <5>1, <3>3 DEF DrainInv, FaultInv
      <4> QED BY <3>3, <4>4, <4>5 DEF CacheRequestStep
    <3>4. CASE QuiesceStep(i)
      <4>1. /\ Passed(state) = {"cache_clean"}
            /\ Passed("FlushRequest") = {"cache_clean"} \cup {"hp_idle"}
            /\ "hp_idle" \notin {"cache_clean"}
        BY <3>4 DEF QuiesceStep, Passed, AllEvidence
      <4>2. /\ evidence \subseteq {"cache_clean"}
            /\ forced_fault <=> evidence # {"cache_clean"}
            /\ forced_fault \in BOOLEAN
        BY <3>4, <4>1 DEF QuiesceStep, DrainInv, FaultInv, DrainTypeOK, LifecycleTypeOK
      <4>3. evidence' = evidence \cup (IF i THEN {"hp_idle"} ELSE {})
        BY <3>4 DEF QuiesceStep, DrainClock, Seen
      <4>4. CASE EndStage("FlushRequest", i)
        <5>1. /\ evidence' \subseteq {"cache_clean"} \cup {"hp_idle"}
              /\ (forced_fault \/ ~(i)) <=>
                    evidence' # {"cache_clean"} \cup {"hp_idle"}
          BY StageEnds, <4>1, <4>2, <4>3
        <5> QED BY <4>4, <4>1, <5>1 DEF EndStage, FaultInv
      <4>5. CASE KeepWaiting /\ ~(i)
        <5>1. evidence' = evidence /\ state' = state /\ forced_fault' = forced_fault
          BY <4>3, <4>5 DEF KeepWaiting
        <5> QED BY <5>1, <3>4 DEF DrainInv, FaultInv
      <4> QED BY <3>4, <4>4, <4>5 DEF QuiesceStep
    <3>5. CASE FlushRequestStep(b)
      <4>1. /\ Passed(state) = {"cache_clean", "hp_idle"}
            /\ Passed("FlushWait") = {"cache_clean", "hp_idle"} \cup {"flush_busy"}
            /\ "flush_busy" \notin {"cache_clean", "hp_idle"}
        BY <3>5 DEF FlushRequestStep, Passed, AllEvidence
      <4>2. /\ evidence \subseteq {"cache_clean", "hp_idle"}
            /\ forced_fault <=> evidence # {"cache_clean", "hp_idle"}
            /\ forced_fault \in BOOLEAN
        BY <3>5, <4>1 DEF FlushRequestStep, DrainInv, FaultInv, DrainTypeOK, LifecycleTypeOK
      <4>3. evidence' = evidence \cup (IF b THEN {"flush_busy"} ELSE {})
        BY <3>5 DEF FlushRequestStep, DrainClock, Seen
      <4>4. CASE EndStage("FlushWait", b)
        <5>1. /\ evidence' \subseteq {"cache_clean", "hp_idle"} \cup {"flush_busy"}
              /\ (forced_fault \/ ~(b)) <=>
                    evidence' # {"cache_clean", "hp_idle"} \cup {"flush_busy"}
          BY StageEnds, <4>1, <4>2, <4>3
        <5> QED BY <4>4, <4>1, <5>1 DEF EndStage, FaultInv
      <4>5. CASE KeepWaiting /\ ~(b)
        <5>1. evidence' = evidence /\ state' = state /\ forced_fault' = forced_fault
          BY <4>3, <4>5 DEF KeepWaiting
        <5> QED BY <5>1, <3>5 DEF DrainInv, FaultInv
      <4> QED BY <3>5, <4>4, <4>5 DEF FlushRequestStep
    <3>6. CASE FlushWaitStep(b)
      <4>1. /\ Passed(state) = {"cache_clean", "hp_idle", "flush_busy"}
            /\ Passed("Held") = {"cache_clean", "hp_idle", "flush_busy"} \cup {"flush_done"}
            /\ "flush_done" \notin {"cache_clean", "hp_idle", "flush_busy"}
        BY <3>6 DEF FlushWaitStep, Passed, AllEvidence
      <4>2. /\ evidence \subseteq {"cache_clean", "hp_idle", "flush_busy"}
            /\ forced_fault <=> evidence # {"cache_clean", "hp_idle", "flush_busy"}
            /\ forced_fault \in BOOLEAN
        BY <3>6, <4>1 DEF FlushWaitStep, DrainInv, FaultInv, DrainTypeOK, LifecycleTypeOK
      <4>3. evidence' = evidence \cup (IF ~b THEN {"flush_done"} ELSE {})
        BY <3>6 DEF FlushWaitStep, DrainClock, Seen
      <4>4. CASE EndStage("Held", ~b)
        <5>1. /\ evidence' \subseteq {"cache_clean", "hp_idle", "flush_busy"} \cup {"flush_done"}
              /\ (forced_fault \/ ~(~b)) <=>
                    evidence' # {"cache_clean", "hp_idle", "flush_busy"} \cup {"flush_done"}
          BY StageEnds, <4>1, <4>2, <4>3
        <5> QED BY <4>4, <4>1, <5>1 DEF EndStage, FaultInv
      <4>5. CASE KeepWaiting /\ ~(~b)
        <5>1. evidence' = evidence /\ state' = state /\ forced_fault' = forced_fault
          BY <4>3, <4>5 DEF KeepWaiting
        <5> QED BY <5>1, <3>6 DEF DrainInv, FaultInv
      <4> QED BY <3>6, <4>4, <4>5 DEF FlushWaitStep
    <3> QED BY <3>1, <3>2, <3>3, <3>4, <3>5, <3>6 DEF DrainClock, Clock
  <2>2. CycleInv'
    BY LimitFacts DEF DrainClock, Clock, HeldStep, RunningStep,
       CacheRequestStep, QuiesceStep, FlushRequestStep, FlushWaitStep,
       EndStage, KeepWaiting, Expired, DrainTypeOK, LifecycleTypeOK, States,
       DrainInv, CycleInv, Budget, draining
  <2>3. OutputInv'
    BY DEF DrainClock, Clock, HeldStep, RunningStep,
       CacheRequestStep, QuiesceStep, FlushRequestStep, FlushWaitStep,
       EndStage, KeepWaiting, DrainTypeOK, LifecycleTypeOK, States,
       DrainInv, OutputInv
  <2> QED BY <2>1, <2>2, <2>3 DEF DrainInv
<1> QED BY <1>1, <1>2

\* The inductive invariant holds in every reachable state.
THEOREM DrainInvariant == DrainSpec => []DrainInv
BY DrainInvInit, DrainInvStep, TypeCorrect, PTL DEF DrainSpec

\* Every shutdown reaches reset within four timeouts, whatever the inputs do.
THEOREM ShutdownIsBounded == DrainSpec => []BoundedShutdown
<1>1. DrainTypeOK /\ DrainInv => BoundedShutdown
  BY LimitFacts DEF DrainTypeOK, LifecycleTypeOK, States, DrainInv, CycleInv, Budget,
     BoundedShutdown
<1> QED BY <1>1, TypeCorrect, DrainInvariant, PTL

\* The forced-fault flag tells software exactly whether a stage timed out.
THEOREM ForcedFaultIsExact == DrainSpec => []ForcedFaultExact
<1>1. DrainInv => ForcedFaultExact
  BY DEF DrainInv, FaultInv, Passed, ForcedFaultExact
<1> QED BY <1>1, DrainInvariant, PTL

\* Admission reopens only in the cycle that puts the core in reset.
THEOREM AdmissionClosedUntilReset == DrainSpec => ClosedUntilReset
<1>1. DrainTypeOK /\ DrainInv /\ [DrainNext]_drainVars =>
        [block_new /\ ~block_new' => hp_release /\ ~hp_release' /\ ~flush]_drainVars
  <2> SUFFICES ASSUME DrainTypeOK, DrainInv, DrainNext, block_new, ~block_new'
               PROVE  hp_release /\ ~hp_release' /\ ~flush
    BY DEF drainVars, lifecycleVars
  <2> PICK r, c, i, b \in BOOLEAN : DrainClock(r, c, i, b)
    BY DEF DrainNext
  <2> QED BY DEF DrainClock, Clock, HeldStep, RunningStep,
         CacheRequestStep, QuiesceStep, FlushRequestStep, FlushWaitStep,
         EndStage, KeepWaiting, DrainTypeOK, LifecycleTypeOK, States,
         DrainInv, OutputInv
<1> QED BY <1>1, TypeCorrect, DrainInvariant, PTL DEF DrainSpec, ClosedUntilReset

----------------------------------------------------------------------------
(* The handshake across AON, PCLK and HP (HpShutdown).                     *)

LEMMA Shifted ==
  ASSUME NEW sync \in SyncType, NEW d \in BOOLEAN
  PROVE  /\ Shift(sync, d) \in SyncType
         /\ Shift(sync, d)[1] = d /\ Shift(sync, d)[2] = sync[1]
         /\ sync[1] \in BOOLEAN /\ sync[2] \in BOOLEAN
BY DEF Shift, SyncType

LEMMA SampledType ==
  ASSUME NEW sync \in SyncType, NEW d \in BOOLEAN, NEW s \in Sampled(sync, d)
  PROVE  s \in SyncType
BY DEF Sampled, Shift, SyncType

\* The inputs of the controller are the second stages of its synchronizers, so an
\* AON edge of the composition is a step of the controller alone; the edges of the
\* other clocks leave it where it is.
LEMMA StepIsDrainStep == TypeOK /\ [Next]_vars => [DrainNext]_drainVars
<1> SUFFICES ASSUME TypeOK, [Next]_vars PROVE [DrainNext]_drainVars
  OBVIOUS
<1>1. CASE AonTick
  <2>1. /\ in_release[2] \in BOOLEAN /\ in_clean[2] \in BOOLEAN
        /\ in_idle[2] \in BOOLEAN /\ in_busy[2] \in BOOLEAN
    BY DEF TypeOK, SyncType
  <2> QED BY <1>1, <2>1 DEF AonTick, DrainNext
<1>2. CASE HpTick
  BY <1>2 DEF HpTick
<1>3. ASSUME NEW write, PclkTick(write) PROVE UNCHANGED drainVars
  BY <1>3 DEF PclkTick
<1>4. CASE UNCHANGED vars
  BY <1>4 DEF vars
<1> QED BY <1>1, <1>2, <1>3, <1>4 DEF Next

LEMMA PclkEdgeTypes ==
  ASSUME TypeOK, NEW write, PclkTick(write),
         write => /\ release_bit' \in BOOLEAN /\ cache_clean' \in BOOLEAN
                  /\ apb_busy' \in BOOLEAN /\ acked' \in BOOLEAN
  PROVE  TypeOK'
<1>1. DrainTypeOK'
  BY Zenon DEF PclkTick, TypeOK, drainVars, lifecycleVars, DrainTypeOK, LifecycleTypeOK
<1>2. /\ release_bit' \in BOOLEAN /\ cache_clean' \in BOOLEAN
      /\ apb_busy' \in BOOLEAN /\ acked' \in BOOLEAN
  BY DEF PclkTick
<1>3. in_request' \in SyncType
  <2>1. cache_request \in BOOLEAN
    BY DEF cache_request
  <2> QED BY <2>1, Shifted DEF PclkTick, TypeOK
<1>4. clear_pclk' \in BOOLEAN \X BOOLEAN \X BOOLEAN
  BY DEF PclkTick, BridgePclkStep, TypeOK, SyncType
<1>5. req_flush' \in FlushPhases /\ resp_flush' \in FlushPhases
  BY DEF PclkTick, BridgePclkStep, TypeOK, FlushPhases
<1>6. flushed' \subseteq Sides
  BY DEF PclkTick, BridgePclkStep, TypeOK, Sides
<1>7. pclk_gap' \in 0 .. MaxGap
  BY ClockAssumption DEF PclkTick
<1>8. UNCHANGED <<aonSyncVars, hpVars, clear_hp, hp_phase>>
  BY DEF PclkTick
<1> QED BY <1>1, <1>2, <1>3, <1>4, <1>5, <1>6, <1>7, <1>8, Zenon
        DEF TypeOK, aonSyncVars, hpVars

\* Type correctness of the composition: controller, synchronizers, crossbar, bridge
\* and clock ratios hold only what the RTL can put there.
THEOREM ShutdownTypeCorrect == Spec => []TypeOK
<1>1. Init => TypeOK
  <2> SUFFICES ASSUME Init PROVE TypeOK
    OBVIOUS
  <2>1. DrainTypeOK
    BY DrainTypeInit DEF Init
  <2>2. hp_phase \in 0 .. MaxHp /\ pclk_gap \in 0 .. MaxGap
    BY ClockAssumption DEF Init
  <2> QED BY <2>1, <2>2 DEF Init, TypeOK, SyncType, Masters, Sides, FlushPhases
<1>2. TypeOK /\ [Next]_vars => TypeOK'
  <2> SUFFICES ASSUME TypeOK, [Next]_vars PROVE TypeOK'
    OBVIOUS
  <2>1. CASE AonTick
    <3>1. DrainTypeOK'
      BY StepIsDrainStep, DrainTypePreserved DEF TypeOK
    <3>2. /\ clear_busy \in BOOLEAN
          /\ \A npu_paused \in BOOLEAN : data_plane_idle(npu_paused) \in BOOLEAN
      BY DEF clear_busy, data_plane_idle
    <3>3. /\ in_release' \in SyncType /\ in_clean' \in SyncType
          /\ in_idle' \in SyncType /\ in_busy' \in SyncType
      BY <2>1, <3>2, Shifted DEF AonTick, TypeOK
    <3>4. hp_phase' \in 0 .. MaxHp /\ pclk_gap' \in 0 .. MaxGap
      BY <2>1, ClockAssumption DEF AonTick, TypeOK
    <3>5. flushed' \subseteq Sides /\ acked' \in BOOLEAN
      BY <2>1 DEF AonTick, TypeOK, historyVars
    <3>6. UNCHANGED <<pclkVars, hpVars, bridgeVars>>
      BY <2>1 DEF AonTick
    <3> QED BY <3>1, <3>3, <3>4, <3>5, <3>6, Zenon
            DEF TypeOK, pclkVars, hpVars, bridgeVars
  <2>2. CASE HpTick
    <3>1. DrainTypeOK'
      BY <2>2, StepIsDrainStep, DrainTypePreserved DEF TypeOK
    <3>2. hp_rel' \in SyncType /\ hp_blk' \in SyncType /\ hp_fl' \in SyncType
      <4>1. hp_release \in BOOLEAN /\ block_new \in BOOLEAN /\ flush \in BOOLEAN
        BY DEF TypeOK, DrainTypeOK, LifecycleTypeOK
      <4> QED BY <2>2, <4>1, SampledType DEF HpTick, TypeOK
    <3>3. outstanding' \subseteq Masters
      BY <2>2 DEF HpTick, CrossbarStep, Admitted, TypeOK, Masters
    <3>4. clear_hp' \in BOOLEAN \X BOOLEAN \X BOOLEAN
      BY <2>2 DEF HpTick, BridgeHpStep, TypeOK, SyncType
    <3>5. resp_flush' \in FlushPhases /\ req_flush' \in FlushPhases
      BY <2>2 DEF HpTick, BridgeHpStep, TypeOK, FlushPhases
    <3>6. flushed' \subseteq Sides
      BY <2>2 DEF HpTick, BridgeHpStep, TypeOK, Sides
    <3>7. hp_phase' \in 0 .. MaxHp
      BY <2>2, ClockAssumption DEF HpTick, TypeOK
    <3>8. UNCHANGED <<aonSyncVars, pclkVars, clear_pclk, pclk_gap, acked>>
      BY <2>2 DEF HpTick
    <3> QED BY <3>1, <3>2, <3>3, <3>4, <3>5, <3>6, <3>7, <3>8, Zenon
            DEF TypeOK, aonSyncVars, pclkVars
  <2>3. CASE PclkTick(WriteRelease)
    <3>1. cache_clean \in BOOLEAN /\ in_request[2] \in BOOLEAN /\ acked \in BOOLEAN
      BY DEF TypeOK, SyncType
    <3> QED BY <2>3, <3>1, PclkEdgeTypes DEF WriteRelease, clean_kept
  <2>4. CASE PclkTick(WriteClean)
    <3>1. acked \in BOOLEAN /\ release_bit \in BOOLEAN
      BY DEF TypeOK
    <3> QED BY <2>4, <3>1, PclkEdgeTypes DEF WriteClean
  <2>5. CASE PclkTick(NoWrite)
    <3>1. /\ cache_clean \in BOOLEAN /\ in_request[2] \in BOOLEAN
          /\ acked \in BOOLEAN /\ release_bit \in BOOLEAN
      BY DEF TypeOK, SyncType
    <3> QED BY <2>5, <3>1, PclkEdgeTypes DEF NoWrite, clean_kept
  <2>6. CASE UNCHANGED vars
    <3>1. DrainTypeOK'
      BY <2>6, StepIsDrainStep, DrainTypePreserved DEF TypeOK
    <3> QED BY <2>6, <3>1, Zenon DEF vars, TypeOK, aonSyncVars, pclkVars, hpVars,
            bridgeVars, historyVars
  <2> QED BY <2>1, <2>2, <2>3, <2>4, <2>5, <2>6 DEF Next
<1> QED BY <1>1, <1>2, PTL DEF Spec

\* Behind real synchronizers, with the LP software, the data plane and the bridges as
\* they are, the controller does nothing it would not do under arbitrary inputs.
THEOREM ShutdownIsDrain == Spec => DrainInit /\ [][DrainNext]_drainVars
<1>1. Init => DrainInit
  BY DEF Init
<1> QED BY <1>1, StepIsDrainStep, ShutdownTypeCorrect, PTL DEF Spec

\* ForcedFaultExact behind the synchronizers: when the core is held, the flag LP
\* software reads is set exactly if some stage of the last shutdown timed out.
THEOREM ForcedFaultStaysExact == Spec => []ForcedFaultExact
<1>1. DrainInit => DrainInv
  BY DrainInvInit
<1>2. DrainTypeOK /\ DrainInv /\ [DrainNext]_drainVars => DrainInv'
  BY DrainInvStep
<1>3. TypeOK => DrainTypeOK
  BY DEF TypeOK
<1>4. DrainInv => ForcedFaultExact
  BY DEF DrainInv, FaultInv, Passed, ForcedFaultExact
<1> QED BY <1>1, <1>2, <1>3, <1>4, ShutdownIsDrain, ShutdownTypeCorrect, PTL

----------------------------------------------------------------------------
(* Reset finds no burst.  Without jitter the first stage of a synchronizer *)
(* takes what its input is, and with an HP edge between any two AON edges  *)
(* no command of the controller is overwritten before it is sampled.       *)

LEMMA SampledExactly ==
  ASSUME ~Jitter, TypeOK, HpTick
  PROVE  /\ hp_rel' = <<hp_release, hp_rel[1]>>
         /\ hp_blk' = <<block_new, hp_blk[1]>>
         /\ hp_fl' = <<flush, hp_fl[1]>>
BY DEF HpTick, Sampled, Shift

\* What an edge of the crossbar does to the bursts of the HP core.
LEMMA CrossbarQuiets ==
  ASSUME CrossbarStep
  PROVE  /\ hp_fl[2] => "hp" \notin outstanding'
         /\ "hp" \notin outstanding /\ (hp_blk[2] \/ ~hp_rel[2])
              => "hp" \notin outstanding'
BY DEF CrossbarStep, Admitted

LEMMA PipeHpStep ==
  ASSUME ~Jitter, TypeOK, DrainInv, PipeInv, HpTick
  PROVE  PipeInv'
<1>1. /\ hp_rel[1]' = hp_release /\ hp_rel[2]' = hp_rel[1]
      /\ hp_blk[1]' = block_new /\ hp_blk[2]' = hp_blk[1]
      /\ hp_fl[1]' = flush /\ hp_fl[2]' = hp_fl[1]
  BY SampledExactly
<1>2. UNCHANGED <<state, hp_release, block_new, flush>>
  BY DEF HpTick, drainVars, lifecycleVars
<1>3. /\ hp_fl[2] => "hp" \notin outstanding'
      /\ "hp" \notin outstanding /\ (hp_blk[2] \/ ~hp_rel[2])
           => "hp" \notin outstanding'
  BY CrossbarQuiets DEF HpTick
<1>4. block_new <=> state \in {"Quiesce", "FlushRequest", "FlushWait"}
  BY DEF DrainInv, OutputInv
<1>5. SampledInTime'
  BY <1>1, <1>2 DEF SampledInTime
<1>6. state' \in {"FlushRequest", "FlushWait"} => hp_blk[1]'
  BY <1>1, <1>2, <1>4
\* A flush on its way moves on or has discarded the burst.
<1>7. Flushing /\ hp_blk[1] => hp_fl[2]' \/ (hp_blk[2]' /\ "hp" \notin outstanding')
  BY <1>1, <1>3 DEF Flushing
<1>8. state' = "FlushWait" => Flushing'
  BY <1>2, <1>7 DEF PipeInv, Flushing
<1>9. ~hp_release' /\ hp_rel[1]' => hp_blk[1]' /\ Flushing'
  BY <1>1, <1>2
<1>10. ~hp_rel[1]' /\ hp_rel[2]' => hp_blk[2]' /\ (hp_fl[2]' \/ "hp" \notin outstanding')
  BY <1>1, <1>7 DEF PipeInv
<1>11. ResetFindsNoBurst'
  BY <1>1, <1>3 DEF PipeInv, ResetFindsNoBurst
<1> QED BY <1>5, <1>6, <1>8, <1>9, <1>10, <1>11 DEF PipeInv

LEMMA PipeAonStep ==
  ASSUME MinHp >= 1, TypeOK, DrainInv, PipeInv, AonTick
  PROVE  PipeInv'
<1>1. UNCHANGED <<hp_rel, hp_blk, hp_fl, outstanding>> /\ hp_phase' = 0
  BY DEF AonTick, hpVars
<1>2. hp_rel[1] = hp_release /\ hp_blk[1] = block_new /\ hp_fl[1] = flush
  <2>1. hp_phase > 0
    BY ClockAssumption DEF AonTick, TypeOK
  <2> QED BY <2>1 DEF PipeInv, SampledInTime
<1>3. /\ block_new <=> state \in {"Quiesce", "FlushRequest", "FlushWait"}
      /\ hp_release <=> state # "Held"
      /\ flush <=> state = "FlushRequest"
  BY DEF DrainInv, OutputInv
<1>4. /\ state' = "FlushRequest" => state \in {"Quiesce", "FlushRequest"}
      /\ state' = "FlushWait" => state \in {"FlushRequest", "FlushWait"}
      /\ ~hp_release' => state \in {"Held", "FlushWait"}
  BY <1>3 DEF AonTick, DrainClock, Clock, HeldStep, RunningStep, CacheRequestStep,
     QuiesceStep, FlushRequestStep, FlushWaitStep, EndStage, KeepWaiting
<1>5. SampledInTime'
  BY <1>1 DEF SampledInTime
<1>6. state' \in {"FlushRequest", "FlushWait"} => hp_blk[1]'
  BY <1>1, <1>2, <1>3, <1>4
<1>7. state' = "FlushWait" => Flushing'
  BY <1>1, <1>2, <1>3, <1>4 DEF PipeInv, Flushing
<1>8. ~hp_release' /\ hp_rel[1]' => hp_blk[1]' /\ Flushing'
  BY <1>1, <1>2, <1>3, <1>4 DEF PipeInv, Flushing
<1>9. ~hp_rel[1]' /\ hp_rel[2]' => hp_blk[2]' /\ (hp_fl[2]' \/ "hp" \notin outstanding')
  BY <1>1 DEF PipeInv
<1>10. ResetFindsNoBurst'
  BY <1>1 DEF PipeInv, ResetFindsNoBurst
<1> QED BY <1>5, <1>6, <1>7, <1>8, <1>9, <1>10 DEF PipeInv

LEMMA PipeUnchanged ==
  ASSUME PipeInv, UNCHANGED <<state, hp_release, block_new, flush, hp_phase>>,
         UNCHANGED hpVars
  PROVE  PipeInv'
BY DEF hpVars, PipeInv, SampledInTime, Flushing, ResetFindsNoBurst

\* ResetFindsNoBurst for every timeout and every ratio of the clocks with an HP edge
\* between two AON edges (also an HP root on the 24 MHz safe clock), as long as the
\* three synchronizers into HP take an edge of the controller in the same cycle: the
\* reset reaches the HP core behind the flush that discards its burst.
THEOREM ResetCutsNoBurst ==
  ASSUME ~Jitter, MinHp >= 1
  PROVE  Spec => []ResetFindsNoBurst
<1>1. Init => PipeInv /\ DrainInv
  <2> SUFFICES ASSUME Init PROVE PipeInv /\ DrainInv
    OBVIOUS
  <2>1. DrainInv
    BY DrainInvInit DEF Init
  <2>2. PipeInv
    BY DEF Init, DrainInit, LifecycleInit, PipeInv, SampledInTime, Flushing,
       ResetFindsNoBurst
  <2> QED BY <2>1, <2>2
<1>2. TypeOK /\ (PipeInv /\ DrainInv) /\ [Next]_vars => (PipeInv /\ DrainInv)'
  <2> SUFFICES ASSUME TypeOK, PipeInv, DrainInv, [Next]_vars
               PROVE  PipeInv' /\ DrainInv'
    OBVIOUS
  <2>1. DrainInv'
    BY StepIsDrainStep, DrainInvStep DEF TypeOK
  <2>2. CASE AonTick
    BY <2>1, <2>2, PipeAonStep
  <2>3. CASE HpTick
    BY <2>1, <2>3, PipeHpStep
  <2>4. ASSUME NEW write, PclkTick(write) PROVE PipeInv'
    BY <2>4, PipeUnchanged DEF PclkTick, drainVars, lifecycleVars
  <2>5. ASSUME UNCHANGED vars PROVE PipeInv'
    BY <2>5, PipeUnchanged DEF vars, drainVars, lifecycleVars
  <2> QED BY <2>1, <2>2, <2>3, <2>4, <2>5 DEF Next
<1>3. PipeInv => ResetFindsNoBurst
  BY DEF PipeInv
<1> QED BY <1>1, <1>2, <1>3, ShutdownTypeCorrect, PTL DEF Spec

----------------------------------------------------------------------------
(* The flush reaches both sides, and the acknowledgement is this           *)
(* shutdown's.  Nothing in the RTL waits for either: they hold because the *)
(* controller is slow compared with the levels it sends.  The HP bridge    *)
(* half has seen a command three HP edges after it, the PCLK half three    *)
(* PCLK edges after that, and the controller stays in a stage until it     *)
(* sees the bridge busy, then idle.  The invariant says how far each level *)
(* has come, and bounds the clk_aon edges spent before it gets further.    *)

\* A level in the three stages of the PCLK half: it has not arrived, has
\* entered the first stage, or the second, whose next edge starts the flush;
\* or the stages empty behind a level withdrawn.
NotYet == ~clear_pclk[1] /\ (clear_pclk[2] => clear_pclk[3])
First == clear_pclk[1] /\ ~clear_pclk[2]
Second == clear_pclk[2] /\ ~clear_pclk[3]
Falling == (clear_pclk[1] => clear_pclk[2]) /\ (clear_pclk[2] => clear_pclk[3])

\* The cache request has left its synchronizer, so the acknowledgement of it
\* is dropped at the next PCLK edge.
NoRequest == ~in_request[1] /\ ~in_request[2]

\* The PCLK half has started its flush, three PCLK edges or more into it.
Closed == "requests" \in flushed /\ NoRequest /\ ~cache_clean

\* clk_aon edges since the core was held, at least.
Elapsed ==
  CASE state = "Held" -> 0
    [] state = "Running" -> 1
    [] state = "CacheRequest" -> 2 + timeout_cnt
    [] OTHER -> 3 + timeout_cnt

\* The flush command is in a stage of its HP synchronizer two, or three, HP
\* edges after the edge of the controller (one more than without jitter).
SyncInv ==
  /\ hp_phase >= 2 => (hp_fl[1] <=> state = "FlushRequest")
  /\ hp_phase >= 3 => (hp_fl[2] <=> state = "FlushRequest")

\* The flush command is out: the HP half fills stage by stage, within two
\* edges of the controller, and the level starts the response flush.
RiseHp == state = "FlushRequest" =>
  /\ timeout_cnt >= 1 => hp_fl[1] /\ hp_fl[2]
  /\ hp_fl[2] => hp_fl[1]
  /\ clear_hp[1] => hp_fl[2]
  /\ clear_hp[2] => clear_hp[1]
  /\ clear_hp[3] => clear_hp[2] /\ "responses" \in flushed
  /\ timeout_cnt = 1 => /\ hp_phase >= 1 => clear_hp[1]
                        /\ hp_phase >= 2 => clear_hp[2]
                        /\ hp_phase >= 3 => clear_hp[3]
  /\ timeout_cnt >= 2 => clear_hp[3]
  /\ resp_flush # "idle" => clear_hp[3]

\* The PCLK half follows the HP half, with a PCLK edge at least every two
\* edges of the controller; when the level is through, that side is flushed.
RisePclk == state = "FlushRequest" =>
  /\ clear_pclk[1] => hp_fl[2]
  /\ \/ NotYet
     \/ First
     \/ clear_pclk[1] /\ Second
     \/ clear_pclk[1] /\ clear_pclk[2] /\ clear_pclk[3]
  /\ NotYet => timeout_cnt <= pclk_gap
  /\ First => timeout_cnt <= pclk_gap + 2 /\ ~in_request[1]
  /\ Second => timeout_cnt <= pclk_gap + 4 /\ NoRequest
  /\ NotYet \/ First \/ Second \/ Closed

\* The response flush waits for PCLK edges of its own, so the controller sees
\* the bridge busy, and only this flush's busy, before the level is through.
RiseBusy == state = "FlushRequest" =>
  /\ NotYet /\ clear_hp[3] => resp_flush = "asked"
  /\ First /\ clear_hp[3] => resp_flush \in {"asked", "seen"}
  /\ in_busy[1] => timeout_cnt >= 1
  /\ in_busy[2] => timeout_cnt >= 2
  /\ (NotYet \/ First \/ resp_flush # "idle") /\ timeout_cnt >= 2 => in_busy[1]
  /\ Second /\ in_busy[2] /\ ~in_busy[1] => pclk_gap >= 1

\* The flush command is withdrawn: the HP half was full and empties.
HpFalling ==
  /\ hp_fl[1] => hp_fl[2]
  /\ hp_fl[2] => clear_hp[1]
  /\ clear_hp[1] => clear_hp[2]
  /\ clear_hp[2] => clear_hp[3]

FallHp == state = "FlushWait" => HpFalling /\ "responses" \in flushed

\* Whatever the PCLK half still has to do, the controller sees a busy that
\* keeps it in this stage until it is done.
FallPclk == state = "FlushWait" =>
  /\ hp_fl[2] => clear_pclk[1]
  /\ First => /\ resp_flush \in {"asked", "seen"} /\ in_busy[1] /\ in_busy[2]
              /\ timeout_cnt <= pclk_gap /\ ~in_request[1]
  /\ Second => /\ ~in_busy[1] => pclk_gap >= 1
               /\ ~in_busy[2] => pclk_gap >= 2
               /\ timeout_cnt <= pclk_gap + 2 /\ NoRequest
  /\ Falling => Closed

FallBusy == state = "FlushWait" =>
  /\ resp_flush # "idle" => in_busy[1] /\ in_busy[2]
  /\ resp_flush = "asked" => timeout_cnt <= pclk_gap
  /\ resp_flush = "seen" => timeout_cnt <= pclk_gap + 2
  /\ resp_flush = "acked" =>
       timeout_cnt <= 5 /\ (timeout_cnt = 5 => hp_phase = 0)

Before == state \in {"Held", "Running", "CacheRequest", "Quiesce"}

\* Before the next flush command the HP half is empty, and the PCLK half and
\* the request flush run out within a PCLK edge's time.
RestHp == Before =>
  /\ ~hp_fl[1] /\ ~hp_fl[2] /\ HpFalling
  /\ hp_phase >= 1 => ~clear_hp[1]
  /\ hp_phase >= 2 => ~clear_hp[2]
  /\ hp_phase >= 3 => ~clear_hp[3]
  /\ Falling
  /\ clear_pclk[1] => Elapsed <= pclk_gap

RestBusy == Before =>
  /\ resp_flush = "idle"
  /\ req_flush = "asked" => state = "Held" /\ hp_phase = 0
  /\ req_flush = "seen" => state = "Held" /\ hp_phase <= 1
  /\ req_flush = "acked" => Elapsed <= pclk_gap
  /\ in_busy[1] => Elapsed <= 2

\* No acknowledgement survives to the next boot, nor one made before the
\* request of this shutdown.
RestClean ==
  /\ state \in {"Held", "Running"} =>
       /\ ~cache_clean /\ ~in_clean[1] /\ NoRequest
       /\ timeout_cnt = 0
  /\ state = "CacheRequest" /\ (cache_clean \/ in_clean[1] \/ in_clean[2]) => acked

RiseInv == RiseHp /\ RisePclk /\ RiseBusy
FallInv == FallHp /\ FallPclk /\ FallBusy
RestInv == RestHp /\ RestBusy /\ RestClean
FlushInv == /\ SyncInv /\ RiseInv /\ FallInv /\ RestInv
            /\ CleanAckIsFresh /\ FlushSeenByEverySide

LEMMA Stages ==
  ASSUME TypeOK
  PROVE  /\ hp_fl[1] \in BOOLEAN /\ hp_fl[2] \in BOOLEAN
         /\ in_busy[1] \in BOOLEAN /\ in_busy[2] \in BOOLEAN
         /\ in_clean[1] \in BOOLEAN /\ in_clean[2] \in BOOLEAN
         /\ in_request[1] \in BOOLEAN /\ in_request[2] \in BOOLEAN
         /\ clear_hp[1] \in BOOLEAN /\ clear_hp[2] \in BOOLEAN /\ clear_hp[3] \in BOOLEAN
         /\ clear_pclk[1] \in BOOLEAN /\ clear_pclk[2] \in BOOLEAN
         /\ clear_pclk[3] \in BOOLEAN
         /\ cache_clean \in BOOLEAN /\ acked \in BOOLEAN /\ forced_fault \in BOOLEAN
         /\ hp_phase \in Nat /\ pclk_gap \in Nat /\ timeout_cnt \in Nat
         /\ resp_flush \in FlushPhases /\ req_flush \in FlushPhases
         /\ state \in States
<1>1. hp_phase \in Nat /\ pclk_gap \in Nat /\ timeout_cnt \in Nat
  BY LimitFacts, ClockAssumption DEF TypeOK, DrainTypeOK, LifecycleTypeOK
<1> QED BY <1>1 DEF TypeOK, SyncType, DrainTypeOK, LifecycleTypeOK

\* What an edge of clk_hp does to the flush levels; with jitter the first
\* edge after an edge of the controller may miss its command.
LEMMA HpEdge ==
  ASSUME TypeOK, DrainInv, HpTick
  PROVE  /\ \/ hp_fl[1]' <=> state = "FlushRequest"
            \/ hp_phase = 0 /\ (hp_fl[1]' <=> hp_fl[1])
         /\ hp_fl[2]' <=> hp_fl[1]
         /\ clear_hp[1]' <=> hp_fl[2]
         /\ clear_hp[2]' <=> clear_hp[1]
         /\ clear_hp[3]' <=> clear_hp[2]
         /\ resp_flush' = IF clear_hp[2] /\ ~clear_hp[3] /\ resp_flush = "idle" THEN "asked"
                          ELSE IF resp_flush = "acked" THEN "idle" ELSE resp_flush
         /\ req_flush' = IF req_flush = "asked" THEN "seen"
                         ELSE IF req_flush = "seen" THEN "acked" ELSE req_flush
         /\ "responses" \in flushed' <=>
              "responses" \in flushed \/ (clear_hp[2] /\ ~clear_hp[3])
         /\ "requests" \in flushed' <=> "requests" \in flushed
         /\ hp_phase' = hp_phase + 1
         /\ UNCHANGED <<state, timeout_cnt, forced_fault, acked, pclk_gap, in_busy, in_clean,
                        in_request, cache_clean, clear_pclk>>
<1>1. flush <=> state = "FlushRequest"
  BY DEF DrainInv, OutputInv
<1>2. flush \in BOOLEAN /\ hp_fl \in BOOLEAN \X BOOLEAN
  BY DEF TypeOK, SyncType, DrainTypeOK, LifecycleTypeOK
<1>3. /\ hp_fl'[2] = hp_fl[1]
      /\ hp_fl'[1] = flush \/ (hp_phase = 0 /\ hp_fl'[1] = hp_fl[1])
  BY <1>2 DEF HpTick, Sampled, Shift
<1>4. /\ clear_hp'[1] = hp_fl[2] /\ clear_hp'[2] = clear_hp[1]
      /\ clear_hp'[3] = clear_hp[2]
  BY DEF HpTick, BridgeHpStep
<1>5. /\ resp_flush' = IF clear_hp[2] /\ ~clear_hp[3] /\ resp_flush = "idle" THEN "asked"
                          ELSE IF resp_flush = "acked" THEN "idle" ELSE resp_flush
      /\ req_flush' = IF req_flush = "asked" THEN "seen"
                         ELSE IF req_flush = "seen" THEN "acked" ELSE req_flush
  BY DEF HpTick, BridgeHpStep, TypeOK, FlushPhases
<1>6. /\ "responses" \in flushed' <=>
              "responses" \in flushed \/ (clear_hp[2] /\ ~clear_hp[3])
      /\ "requests" \in flushed' <=> "requests" \in flushed
  BY DEF HpTick, BridgeHpStep
<1>7. hp_phase' = hp_phase + 1 /\
      UNCHANGED <<state, timeout_cnt, forced_fault, acked, pclk_gap, in_busy, in_clean,
                        in_request, cache_clean, clear_pclk>>
  BY DEF HpTick, drainVars, lifecycleVars, aonSyncVars, pclkVars
<1>8. \/ hp_fl[1]' <=> state = "FlushRequest"
      \/ hp_phase = 0 /\ (hp_fl[1]' <=> hp_fl[1])
  BY <1>1, <1>3
<1> QED BY <1>3, <1>4, <1>5, <1>6, <1>7, <1>8

\* What an edge of clk_pclk does to them, whatever LP software writes.
LEMMA PclkEdge ==
  ASSUME TypeOK, PclkTick(WriteRelease) \/ PclkTick(WriteClean) \/ PclkTick(NoWrite)
  PROVE  /\ in_request[1]' <=> state = "CacheRequest"
         /\ in_request[2]' <=> in_request[1]
         /\ clear_pclk[1]' <=> hp_fl[2]
         /\ clear_pclk[2]' <=> clear_pclk[1]
         /\ clear_pclk[3]' <=> clear_pclk[2]
         /\ req_flush' = IF clear_pclk[2] /\ ~clear_pclk[3] /\ req_flush = "idle" THEN "asked"
                         ELSE IF req_flush = "acked" THEN "idle" ELSE req_flush
         /\ resp_flush' = IF resp_flush = "asked" THEN "seen"
                          ELSE IF resp_flush = "seen" THEN "acked" ELSE resp_flush
         /\ "requests" \in flushed' <=>
              "requests" \in flushed \/ (clear_pclk[2] /\ ~clear_pclk[3])
         /\ "responses" \in flushed' <=> "responses" \in flushed
         /\ cache_clean' => in_request[2]
         /\ cache_clean' => cache_clean \/ acked'
         /\ acked => acked'
         /\ pclk_gap' = 0
         /\ UNCHANGED <<state, timeout_cnt, forced_fault, hp_phase, in_busy, in_clean,
                        hp_fl, clear_hp>>
<1>1. PICK write : write /\ PclkTick(write)
  BY DEF PclkTick
<1>2. /\ cache_clean' => in_request[2]
      /\ cache_clean' => cache_clean \/ acked'
      /\ acked => acked'
  BY DEF PclkTick, WriteRelease, WriteClean, NoWrite, clean_kept, TypeOK, SyncType
<1>3. in_request'[1] = cache_request /\ in_request'[2] = in_request[1]
  BY <1>1 DEF PclkTick, Shift
<1>4. /\ clear_pclk'[1] = hp_fl[2] /\ clear_pclk'[2] = clear_pclk[1]
      /\ clear_pclk'[3] = clear_pclk[2]
  BY <1>1 DEF PclkTick, BridgePclkStep
<1>5. /\ req_flush' = IF clear_pclk[2] /\ ~clear_pclk[3] /\ req_flush = "idle" THEN "asked"
                          ELSE IF req_flush = "acked" THEN "idle" ELSE req_flush
      /\ resp_flush' = IF resp_flush = "asked" THEN "seen"
                         ELSE IF resp_flush = "seen" THEN "acked" ELSE resp_flush
  BY <1>1 DEF PclkTick, BridgePclkStep, TypeOK, FlushPhases
<1>6. /\ "requests" \in flushed' <=>
              "requests" \in flushed \/ (clear_pclk[2] /\ ~clear_pclk[3])
      /\ "responses" \in flushed' <=> "responses" \in flushed
  BY <1>1 DEF PclkTick, BridgePclkStep
<1>7. pclk_gap' = 0 /\
      UNCHANGED <<state, timeout_cnt, forced_fault, hp_phase, in_busy, in_clean,
                        hp_fl, clear_hp>>
  BY <1>1 DEF PclkTick, drainVars, lifecycleVars, aonSyncVars, hpVars
<1>8. in_request[1]' <=> state = "CacheRequest"
  BY <1>3 DEF cache_request
<1> QED BY <1>2, <1>3, <1>4, <1>5, <1>6, <1>7, <1>8

\* What an edge of clk_aon does to the synchronizers of the controller.
LEMMA AonEdge ==
  ASSUME TypeOK, AonTick
  PROVE  /\ in_busy[1]' <=> resp_flush # "idle" \/ req_flush # "idle"
         /\ in_busy[2]' <=> in_busy[1]
         /\ in_clean[1]' <=> cache_clean
         /\ in_clean[2]' <=> in_clean[1]
         /\ hp_phase >= MinHp /\ hp_phase' = 0
         /\ pclk_gap < MaxGap /\ pclk_gap' = pclk_gap + 1
         /\ DrainClock(in_release[2], in_clean[2], in_idle[2], in_busy[2])
         /\ UNCHANGED <<hp_fl, clear_hp, clear_pclk, resp_flush, req_flush, in_request,
                        cache_clean>>
         /\ ~(state = "Held" /\ state' = "Running") => UNCHANGED <<flushed, acked>>
<1>1. in_busy'[1] = clear_busy /\ in_busy'[2] = in_busy[1]
  BY DEF AonTick, Shift
<1>2. in_clean'[1] = cache_clean /\ in_clean'[2] = in_clean[1]
  BY DEF AonTick, Shift
<1>3. /\ hp_phase >= MinHp /\ hp_phase' = 0
      /\ pclk_gap < MaxGap /\ pclk_gap' = pclk_gap + 1
      /\ DrainClock(in_release[2], in_clean[2], in_idle[2], in_busy[2])
      /\ UNCHANGED <<hp_fl, clear_hp, clear_pclk, resp_flush, req_flush, in_request,
                        cache_clean>>
      /\ ~(state = "Held" /\ state' = "Running") => UNCHANGED <<flushed, acked>>
  BY DEF AonTick, hpVars, bridgeVars, pclkVars, historyVars
<1> QED BY <1>1, <1>2, <1>3 DEF clear_busy

\* No edge of clk_hp disturbs the invariant: the levels move one stage on, and the
\* bounds count only edges of the controller.
LEMMA HpFlush ==
  ASSUME TypeOK, DrainInv, MaxGap <= 2, FlushInv, HpTick
  PROVE  FlushInv'
<1> USE Stages, HpEdge
<1>1. SyncInv'
  BY DEF FlushInv, SyncInv
<1>2. RiseInv'
  <2> SUFFICES ASSUME state = "FlushRequest" PROVE RiseInv'
    BY DEF RiseInv, RiseHp, RisePclk, RiseBusy
  <2> USE DEF FlushInv, SyncInv, RiseInv
  <2>1. RiseHp'
    BY DEF RiseHp
  <2>2. RisePclk'
    BY DEF RiseHp, RisePclk, NotYet, First, Second, NoRequest, Closed
  <2>3. RiseBusy'
    BY DEF RiseHp, RisePclk, RiseBusy, NotYet, First, Second
  <2> QED BY <2>1, <2>2, <2>3
<1>3. FallInv'
  <2> SUFFICES ASSUME state = "FlushWait" PROVE FallInv'
    BY DEF FallInv, FallHp, FallPclk, FallBusy
  <2> USE DEF FlushInv, SyncInv, FallInv
  <2>1. FallHp'
    BY DEF FallHp, HpFalling
  <2>2. FallPclk'
    BY DEF FallHp, HpFalling, FallPclk, NotYet, First, Second, Falling, NoRequest, Closed
  <2>3. FallBusy'
    BY DEF FallHp, HpFalling, FallBusy, FlushPhases
  <2> QED BY <2>1, <2>2, <2>3
<1>4. RestInv'
  <2> USE DEF FlushInv, SyncInv, RestInv
  <2>1. RestHp'
    BY DEF RestHp, HpFalling, Before, Elapsed, Falling
  <2>2. RestBusy'
    BY DEF RestHp, RestBusy, HpFalling, Before, Elapsed, FlushPhases
  <2>3. RestClean'
    BY DEF RestClean, NoRequest
  <2> QED BY <2>1, <2>2, <2>3
<1>5. CleanAckIsFresh' 
  BY DEF FlushInv, CleanAckIsFresh
<1>6. FlushSeenByEverySide'
  BY DEF FlushInv, FlushSeenByEverySide, Sides, HpTick, BridgeHpStep
<1> QED BY <1>1, <1>2, <1>3, <1>4, <1>5, <1>6 DEF FlushInv

\* Nor does an edge of clk_pclk: the level it moves on has the time of the edges until
\* the next one.
LEMMA PclkFlush ==
  ASSUME TypeOK, DrainInv, MaxGap <= 2, FlushInv,
         PclkTick(WriteRelease) \/ PclkTick(WriteClean) \/ PclkTick(NoWrite)
  PROVE  FlushInv'
<1> USE Stages, PclkEdge
<1>0. pclk_gap <= 2
  BY ClockAssumption DEF TypeOK
<1>1. SyncInv'
  BY DEF FlushInv, SyncInv
<1>2. RiseInv'
  <2> SUFFICES ASSUME state = "FlushRequest" PROVE RiseInv'
    BY DEF RiseInv, RiseHp, RisePclk, RiseBusy
  <2> USE <1>0 DEF FlushInv, SyncInv, RiseInv
  <2>1. RiseHp'
    BY DEF RiseHp
  <2>2. RisePclk'
    BY DEF RiseHp, RisePclk, NotYet, First, Second, NoRequest, Closed
  <2>3. RiseBusy'
    BY DEF RiseHp, RisePclk, RiseBusy, NotYet, First, Second
  <2> QED BY <2>1, <2>2, <2>3
<1>3. FallInv'
  <2> SUFFICES ASSUME state = "FlushWait" PROVE FallInv'
    BY DEF FallInv, FallHp, FallPclk, FallBusy
  <2> USE <1>0 DEF FlushInv, SyncInv, FallInv
  <2>1. FallHp'
    BY DEF FallHp, HpFalling
  <2>2. FallPclk'
    BY DEF FallHp, HpFalling, FallPclk, NotYet, First, Second, Falling, NoRequest, Closed
  <2>3. FallBusy'
    BY DEF FallHp, HpFalling, FallBusy, FlushPhases
  <2> QED BY <2>1, <2>2, <2>3
<1>4. RestInv'
  <2> USE <1>0 DEF FlushInv, SyncInv, RestInv
  <2>1. RestHp'
    BY DEF RestHp, HpFalling, Before, Elapsed, Falling
  <2>2. RestBusy'
    BY DEF RestHp, RestBusy, HpFalling, Before, Elapsed, FlushPhases, Falling
  <2>3. RestClean'
    BY DEF RestClean, NoRequest
  <2> QED BY <2>1, <2>2, <2>3
<1>5. CleanAckIsFresh' 
  BY DEF FlushInv, CleanAckIsFresh
<1>6. FlushSeenByEverySide'
  BY DEF FlushInv, FlushSeenByEverySide, Sides, TypeOK, PclkTick, BridgePclkStep
<1> QED BY <1>1, <1>2, <1>3, <1>4, <1>5, <1>6 DEF FlushInv

\* An edge of the controller finds every command sampled by the HP domain, ends a stage
\* on what it sees of the bridge, and no stage on its timeout before the level is through.
LEMMA AonFlush ==
  ASSUME TypeOK, MinHp >= 3, MaxGap <= 2, TimeoutInput >= 6, FlushInv, AonTick
  PROVE  FlushInv'
<1>c. Expired => timeout_cnt >= 5
  BY TimeoutAssumption DEF Expired, TimeoutLimit
<1> USE Stages, AonEdge
<1>a. /\ hp_phase >= 3 /\ hp_phase' = 0 /\ pclk_gap <= 1 /\ pclk_gap' = pclk_gap + 1
  BY ClockAssumption DEF TypeOK
<1>b. SyncInv'
  BY <1>a DEF SyncInv
<1>d. (hp_fl[1] <=> state = "FlushRequest") /\ (hp_fl[2] <=> state = "FlushRequest")
  BY <1>a DEF FlushInv, SyncInv
<1>e. DrainClock(in_release[2], in_clean[2], in_idle[2], in_busy[2])
  OBVIOUS
\* A boot forgets the last shutdown.
<1>1. CASE HeldStep(in_release[2])
  <2>1. state = "Held" /\ state' \in {"Held", "Running"} /\ timeout_cnt' = 0
    BY <1>1 DEF HeldStep
  <2>2. RestInv'
    <3> USE <1>a, <1>d, <2>1 DEF FlushInv, RestInv
    <3>1. RestHp'
      BY DEF RestHp, HpFalling, Before, Elapsed, Falling
    <3>2. RestBusy'
      BY DEF RestHp, RestBusy, Before, Elapsed, FlushPhases
    <3>3. RestClean'
      BY DEF RestClean, NoRequest
    <3> QED BY <3>1, <3>2, <3>3
  <2>3. RiseInv' /\ FallInv' /\ CleanAckIsFresh'
    BY <2>1 DEF RiseInv, RiseHp, RisePclk, RiseBusy, FallInv, FallHp, FallPclk, FallBusy,
       CleanAckIsFresh
  <2>4. FlushSeenByEverySide'
    BY <1>1, <2>1 DEF FlushInv, FlushSeenByEverySide, HeldStep
  <2> QED BY <1>b, <2>2, <2>3, <2>4 DEF FlushInv
<1>2. CASE RunningStep(in_release[2])
  <2>1. state = "Running" /\ state' \in {"Running", "CacheRequest"} /\ timeout_cnt' = 0
    BY <1>2 DEF RunningStep
  <2>2. RestInv'
    <3> USE <1>a, <1>d, <2>1 DEF FlushInv, RestInv
    <3>1. RestHp'
      BY DEF RestHp, HpFalling, Before, Elapsed, Falling
    <3>2. RestBusy'
      BY DEF RestHp, RestBusy, Before, Elapsed, FlushPhases
    <3>3. RestClean'
      BY DEF RestClean, NoRequest
    <3> QED BY <3>1, <3>2, <3>3
  <2>3. RiseInv' /\ FallInv' /\ CleanAckIsFresh' /\ FlushSeenByEverySide'
    BY <2>1 DEF RiseInv, RiseHp, RisePclk, RiseBusy, FallInv, FallHp, FallPclk, FallBusy,
       CleanAckIsFresh, FlushSeenByEverySide
  <2> QED BY <1>b, <2>2, <2>3 DEF FlushInv
<1>3. CASE CacheRequestStep(in_clean[2])
  <2>1. /\ state = "CacheRequest"
        /\ \/ state' = "CacheRequest" /\ timeout_cnt' = timeout_cnt + 1
           \/ state' = "Quiesce" /\ timeout_cnt' = 0
    BY <1>3 DEF CacheRequestStep, EndStage, KeepWaiting
  <2>2. RestInv'
    <3> USE <1>a, <1>d, <2>1 DEF FlushInv, RestInv
    <3>1. RestHp'
      BY DEF RestHp, HpFalling, Before, Elapsed, Falling
    <3>2. RestBusy'
      BY DEF RestHp, RestBusy, Before, Elapsed, FlushPhases
    <3>3. RestClean'
      BY DEF RestClean, NoRequest
    <3> QED BY <3>1, <3>2, <3>3
  <2>3. RiseInv' /\ FallInv' /\ FlushSeenByEverySide'
    BY <2>1 DEF RiseInv, RiseHp, RisePclk, RiseBusy, FallInv, FallHp, FallPclk, FallBusy,
       FlushSeenByEverySide
  <2>4. state' = "Quiesce" => in_clean[2] \/ forced_fault'
    BY <1>3 DEF CacheRequestStep, EndStage, KeepWaiting
  <2>5. CleanAckIsFresh'
    BY <2>1, <2>4 DEF FlushInv, RestInv, RestClean, CleanAckIsFresh
  <2> QED BY <1>b, <2>2, <2>3, <2>5 DEF FlushInv
<1>4. CASE QuiesceStep(in_idle[2])
  <2>1. /\ state = "Quiesce"
        /\ \/ state' = "Quiesce" /\ timeout_cnt' = timeout_cnt + 1
           \/ state' = "FlushRequest" /\ timeout_cnt' = 0
    BY <1>4 DEF QuiesceStep, EndStage, KeepWaiting
  <2>2. RestInv'
    <3> USE <1>a, <1>d, <2>1 DEF FlushInv, RestInv
    <3>1. RestHp'
      BY DEF RestHp, HpFalling, Before, Elapsed, Falling
    <3>2. RestBusy'
      BY DEF RestHp, RestBusy, Before, Elapsed, FlushPhases
    <3>3. RestClean'
      BY DEF RestClean, NoRequest
    <3> QED BY <3>1, <3>2, <3>3
  <2>3. RiseInv'
    <3>1. Before /\ Elapsed \in Nat /\ Elapsed >= 3 /\ pclk_gap <= 1
      BY <1>a, <2>1 DEF Before, Elapsed
    <3>2. /\ ~hp_fl[1] /\ ~hp_fl[2]
          /\ ~clear_hp[1] /\ ~clear_hp[2] /\ ~clear_hp[3]
          /\ ~clear_pclk[1] /\ NotYet
          /\ resp_flush = "idle" /\ req_flush = "idle" /\ ~in_busy[1]
      BY <1>a, <2>1, <3>1 DEF FlushInv, RestInv, RestHp, RestBusy, Falling, NotYet, FlushPhases
    <3>3. /\ ~hp_fl'[1] /\ ~hp_fl'[2]
          /\ ~clear_hp'[1] /\ ~clear_hp'[2] /\ ~clear_hp'[3]
          /\ ~clear_pclk'[1] /\ NotYet' /\ ~First' /\ resp_flush' = "idle"
          /\ ~in_busy'[1] /\ ~in_busy'[2]
      BY <3>2 DEF NotYet, First
    <3>4. state' = "FlushRequest" => timeout_cnt' = 0
      BY <2>1
    <3>5. pclk_gap' >= 0
      BY <1>a
    <3> USE <3>3, <3>4, <3>5
    <3>6. RiseHp'
      BY DEF RiseHp
    <3>7. RisePclk'
      BY DEF RisePclk, NotYet, Second
    <3>8. RiseBusy'
      BY DEF RiseBusy
    <3> QED BY <3>6, <3>7, <3>8 DEF RiseInv
  <2>4. FallInv' /\ FlushSeenByEverySide'
    BY <2>1 DEF FallInv, FallHp, FallPclk, FallBusy, FlushSeenByEverySide
  <2>5. CleanAckIsFresh'
    BY <1>4, <2>1 DEF FlushInv, CleanAckIsFresh, QuiesceStep, EndStage, KeepWaiting
  <2> QED BY <1>b, <2>2, <2>3, <2>4, <2>5 DEF FlushInv
<1>5. CASE FlushRequestStep(in_busy[2])
  <2>1. /\ state = "FlushRequest"
        /\ \/ /\ state' = "FlushRequest" /\ timeout_cnt' = timeout_cnt + 1
              /\ ~in_busy[2] /\ ~Expired
           \/ /\ state' = "FlushWait" /\ timeout_cnt' = 0
              /\ in_busy[2] \/ Expired
    BY <1>5 DEF FlushRequestStep, EndStage, KeepWaiting
  <2>2. RestInv' /\ FlushSeenByEverySide'
    BY <2>1 DEF RestInv, RestHp, RestBusy, RestClean, Before, FlushSeenByEverySide
  <2>3. RiseInv'
    <3> USE <1>a, <1>d, <2>1 DEF FlushInv, RiseInv
    <3>1. RiseHp'
      BY DEF RiseHp
    <3>2. RisePclk'
      BY DEF RiseHp, RisePclk, NotYet, First, Second, NoRequest, Closed
    <3>3. RiseBusy'
      BY DEF RiseHp, RisePclk, RiseBusy, NotYet, First, Second
    <3> QED BY <3>1, <3>2, <3>3
  <2>4. FallInv'
    <3> USE <1>a, <1>c, <1>d, <2>1 DEF FlushInv, RiseInv, RiseHp
    <3>1. FallHp'
      BY DEF FallHp, HpFalling, RiseBusy
    <3>2. FallPclk'
      BY DEF RisePclk, RiseBusy, FallPclk, NotYet, First, Second, Falling, NoRequest, Closed
    <3>3. FallBusy'
      BY DEF RisePclk, RiseBusy, FallBusy, NotYet, First, Second, Falling
    <3> QED BY <3>1, <3>2, <3>3 DEF FallInv
  <2>5. CleanAckIsFresh'
    BY <1>5, <2>1 DEF FlushInv, CleanAckIsFresh, FlushRequestStep, EndStage, KeepWaiting
  <2> QED BY <1>b, <2>2, <2>3, <2>4, <2>5 DEF FlushInv
<1>6. CASE FlushWaitStep(in_busy[2])
  <2>1. /\ state = "FlushWait"
        /\ \/ /\ state' = "FlushWait" /\ timeout_cnt' = timeout_cnt + 1
              /\ in_busy[2] /\ ~Expired
           \/ /\ state' = "Held" /\ timeout_cnt' = 0
              /\ ~in_busy[2] \/ Expired
    BY <1>6 DEF FlushWaitStep, EndStage, KeepWaiting
  <2>2. RestInv'
    <3> USE <1>a, <1>c, <1>d, <2>1 DEF FlushInv, FallInv
    <3>1. RestHp'
      BY DEF FallHp, FallPclk, RestHp, HpFalling, Before, Elapsed, Falling, First, Second
    <3>2. RestBusy'
      BY DEF FallHp, FallPclk, FallBusy, RestBusy, Before, Elapsed, FlushPhases
    <3>3. RestClean'
      BY DEF FallPclk, RestClean, NoRequest, Closed, Falling, First, Second
    <3> QED BY <3>1, <3>2, <3>3 DEF RestInv
  <2>3. FallInv'
    <3> USE <1>a, <1>d, <2>1 DEF FlushInv, FallInv
    <3>1. FallHp'
      BY DEF FallHp, HpFalling
    <3>2. FallPclk'
      BY DEF FallPclk, FallHp, HpFalling, First, Second, Falling, NoRequest, Closed
    <3>3. FallBusy'
      BY DEF FallBusy, FallPclk
    <3> QED BY <3>1, <3>2, <3>3
  <2>4. RiseInv'
    BY <2>1 DEF RiseInv, RiseHp, RisePclk, RiseBusy
  <2>5. CleanAckIsFresh'
    BY <1>6, <2>1 DEF FlushInv, CleanAckIsFresh, FlushWaitStep, EndStage, KeepWaiting
  <2>6. state' = "Held" => ~in_busy[2] \/ forced_fault'
    BY <1>6 DEF FlushWaitStep, EndStage, KeepWaiting
  <2>7. in_busy[2] \/ (~First /\ ~Second)
    BY <1>a, <2>1 DEF FlushInv, FallInv, FallPclk
  <2>8. ~in_busy[2] => "responses" \in flushed /\ "requests" \in flushed
    BY <2>1, <2>7 DEF FlushInv, FallInv, FallHp, FallPclk, First, Second, Falling, Closed
  <2>9. FlushSeenByEverySide'
    BY <2>1, <2>6, <2>8 DEF FlushSeenByEverySide, Sides, TypeOK
  <2> QED BY <1>b, <2>2, <2>3, <2>4, <2>5, <2>9 DEF FlushInv
<1> QED BY <1>e, <1>1, <1>2, <1>3, <1>4, <1>5, <1>6 DEF DrainClock, Clock

LEMMA FlushInit ==
  ASSUME MinHp >= 3, MaxGap <= 2, TimeoutInput >= 6, Init
  PROVE  FlushInv
<1> USE DEF Init, DrainInit, LifecycleInit
<1>1. SyncInv /\ RestInv
  BY ClockAssumption DEF SyncInv, RestInv, RestHp, RestBusy, RestClean, HpFalling, Falling,
     NoRequest, Before, Elapsed
<1>2. RiseInv /\ FallInv
  BY DEF RiseInv, RiseHp, RisePclk, RiseBusy, FallInv, FallHp, FallPclk, FallBusy
<1>3. CleanAckIsFresh /\ FlushSeenByEverySide
  BY DEF CleanAckIsFresh, FlushSeenByEverySide
<1> QED BY <1>1, <1>2, <1>3 DEF FlushInv

LEMMA FlushUnchanged ==
  ASSUME FlushInv, UNCHANGED vars
  PROVE  FlushInv'
<1>1. UNCHANGED <<state, timeout_cnt, forced_fault, in_clean, in_busy, in_request, cache_clean,
                  hp_fl, clear_hp, clear_pclk, resp_flush, req_flush, hp_phase, pclk_gap,
                  flushed, acked>>
  BY DEF vars, drainVars, lifecycleVars, aonSyncVars, pclkVars, hpVars, bridgeVars, historyVars
<1> USE <1>1 DEF FlushInv
<1>2. SyncInv' /\ CleanAckIsFresh' /\ FlushSeenByEverySide'
  BY DEF SyncInv, CleanAckIsFresh, FlushSeenByEverySide
<1>3. RiseInv'
  BY DEF RiseInv, RiseHp, RisePclk, RiseBusy, NotYet, First, Second, NoRequest, Closed
<1>4. FallInv'
  BY DEF FallInv, FallHp, FallPclk, FallBusy, HpFalling, First, Second, Falling, NoRequest, Closed
<1>5. RestInv'
  BY DEF RestInv, RestHp, RestBusy, RestClean, HpFalling, Falling, NoRequest, Before, Elapsed
<1> QED BY <1>2, <1>3, <1>4, <1>5

\* The invariant holds for every jitter of the first stages, with clk_hp at least three
\* times clk_aon (72 MHz and 24 MHz), at most two edges of clk_aon between two of
\* clk_pclk, and a timeout of six or more (the chip ties it to 65535).
LEMMA FlushInvariant ==
  ASSUME MinHp >= 3, MaxGap <= 2, TimeoutInput >= 6
  PROVE  Spec => []FlushInv
<1>1. Init => FlushInv /\ DrainInv
  BY FlushInit, DrainInvInit DEF Init
<1>2. TypeOK /\ (FlushInv /\ DrainInv) /\ [Next]_vars => (FlushInv /\ DrainInv)'
  <2> SUFFICES ASSUME TypeOK, FlushInv, DrainInv, [Next]_vars
               PROVE  FlushInv' /\ DrainInv'
    OBVIOUS
  <2>1. DrainInv'
    BY StepIsDrainStep, DrainInvStep DEF TypeOK
  <2>2. CASE AonTick
    BY <2>1, <2>2, AonFlush
  <2>3. CASE HpTick
    BY <2>1, <2>3, HpFlush
  <2>4. CASE PclkTick(WriteRelease) \/ PclkTick(WriteClean) \/ PclkTick(NoWrite)
    BY <2>1, <2>4, PclkFlush
  <2>5. CASE UNCHANGED vars
    BY <2>1, <2>5, FlushUnchanged
  <2> QED BY <2>2, <2>3, <2>4, <2>5 DEF Next
<1> QED BY <1>1, <1>2, ShutdownTypeCorrect, PTL DEF Spec

\* With PCLK at half the frequency of AON or faster, FlushSeenByEverySide does hold:
\* the bound is sharp, a PCLK of a third loses the flush of its side.
LEMMA FastPclkFlushesBothSides ==
  ASSUME MinHp >= 3, MaxGap <= 2, TimeoutInput >= 6
  PROVE  Spec => []FlushSeenByEverySide
<1>1. FlushInv => FlushSeenByEverySide
  BY DEF FlushInv
<1> QED BY <1>1, FlushInvariant, PTL

----------------------------------------------------------------------------
(* The HP side of the flush, for every PCLK, timeout and jitter.  A        *)
(* request that lasts one clk_aon cycle is a level of three HP edges, and  *)
(* those fill the HP half before the controller can hold the core.         *)

\* The HP half is empty between two flush requests.
HpResting ==
  /\ ~hp_fl[1] /\ ~hp_fl[2]
  /\ hp_phase >= 1 => ~clear_hp[1]
  /\ hp_phase >= 2 => ~clear_hp[2]
  /\ hp_phase >= 3 => ~clear_hp[3]

\* A request withdrawn before the HP half was full goes on filling it.
HpArriving ==
  \/ hp_phase = 0 /\ hp_fl[2]
  \/ hp_phase = 1 /\ clear_hp[1]
  \/ hp_phase = 2 /\ clear_hp[2]

HpSideInv ==
  /\ SyncInv
  /\ Before => HpResting
  /\ state \in {"FlushRequest", "FlushWait"} /\ clear_hp[3] => "responses" \in flushed
  /\ state = "FlushWait" => "responses" \in flushed \/ HpArriving
  /\ HpSideFlushed

LEMMA HpSideHp ==
  ASSUME TypeOK, DrainInv, HpSideInv, HpTick
  PROVE  HpSideInv'
<1> USE Stages, HpEdge DEF HpSideInv
<1>1. SyncInv'
  BY DEF SyncInv
<1>2. Before' => HpResting'
  BY DEF Before, HpResting
<1>3. state' \in {"FlushRequest", "FlushWait"} /\ clear_hp[3]' => "responses" \in flushed'
  BY DEF SyncInv
<1>4. state' = "FlushWait" => "responses" \in flushed' \/ HpArriving'
  BY DEF HpArriving
<1>5. HpSideFlushed'
  BY DEF HpSideFlushed
<1> QED BY <1>1, <1>2, <1>3, <1>4, <1>5

LEMMA HpSidePclk ==
  ASSUME TypeOK, HpSideInv,
         PclkTick(WriteRelease) \/ PclkTick(WriteClean) \/ PclkTick(NoWrite)
  PROVE  HpSideInv'
<1> USE PclkEdge DEF HpSideInv
<1>1. SyncInv' /\ HpSideFlushed'
  BY DEF SyncInv, HpSideFlushed
<1>2. Before' => HpResting'
  BY DEF Before, HpResting
<1>3. state' = "FlushWait" => "responses" \in flushed' \/ HpArriving'
  BY DEF HpArriving
<1> QED BY <1>1, <1>2, <1>3

\* Which state an edge of the controller can lead to.
LEMMA AonState ==
  ASSUME TypeOK, AonTick
  PROVE  \/ state = "Held" /\ state' = "Held" /\ UNCHANGED <<flushed, acked>>
         \/ state = "Held" /\ state' = "Running" /\ in_release[2]
         \/ state = "Running" /\ state' = "Running"
         \/ state = "Running" /\ state' = "CacheRequest" /\ ~in_release[2] /\ timeout_cnt' = 0
         \/ /\ state = "CacheRequest" /\ state' = "CacheRequest"
            /\ timeout_cnt' = timeout_cnt + 1
         \/ /\ state = "CacheRequest" /\ state' = "Quiesce" /\ timeout_cnt' = 0
            /\ in_clean[2] \/ (Expired /\ forced_fault')
         \/ state = "Quiesce" /\ state' = "Quiesce" /\ UNCHANGED forced_fault
         \/ /\ state = "Quiesce" /\ state' = "FlushRequest" /\ timeout_cnt' = 0
            /\ forced_fault => forced_fault'
         \/ /\ state = "FlushRequest" /\ state' = "FlushRequest"
            /\ timeout_cnt' = timeout_cnt + 1 /\ ~in_busy[2] /\ UNCHANGED forced_fault
         \/ /\ state = "FlushRequest" /\ state' = "FlushWait" /\ timeout_cnt' = 0
            /\ in_busy[2] \/ Expired
            /\ forced_fault => forced_fault'
         \/ /\ state = "FlushWait" /\ state' = "FlushWait"
            /\ timeout_cnt' = timeout_cnt + 1 /\ UNCHANGED forced_fault
         \/ /\ state = "FlushWait" /\ state' = "Held"
            /\ ~in_busy[2] \/ Expired
<1>1. /\ in_release[2] \in BOOLEAN /\ in_clean[2] \in BOOLEAN
      /\ forced_fault \in BOOLEAN
  BY DEF TypeOK, SyncType, DrainTypeOK, LifecycleTypeOK
<1>2. Clock(in_release[2], in_clean[2], in_idle[2], in_busy[2])
  BY AonEdge DEF DrainClock
<1>3. CASE HeldStep(in_release[2])
  BY <1>1, <1>3, AonEdge DEF HeldStep
<1>4. CASE RunningStep(in_release[2])
  BY <1>1, <1>4 DEF RunningStep
<1>5. CASE CacheRequestStep(in_clean[2])
  <2>1. /\ state = "CacheRequest"
        /\ \/ state' = "CacheRequest" /\ timeout_cnt' = timeout_cnt + 1
           \/ /\ state' = "Quiesce" /\ timeout_cnt' = 0
              /\ in_clean[2] \/ Expired
              /\ forced_fault' = (forced_fault \/ ~in_clean[2])
    BY <1>5 DEF CacheRequestStep, EndStage, KeepWaiting
  <2>2. ~in_clean[2] => (forced_fault \/ ~in_clean[2])
    OBVIOUS
  <2>3. state' = "Quiesce" /\ ~in_clean[2] => Expired /\ forced_fault'
    BY <2>1, <2>2
  <2>4. state' = "Quiesce" => timeout_cnt' = 0
    BY <2>1
  <2>5. state' = "CacheRequest" => timeout_cnt' = timeout_cnt + 1
    BY <2>1
  <2>6. state = "CacheRequest" /\ state' \in {"CacheRequest", "Quiesce"}
    BY <2>1
  <2> QED BY <2>3, <2>4, <2>5, <2>6
<1>6. CASE QuiesceStep(in_idle[2])
  BY <1>6 DEF QuiesceStep, EndStage, KeepWaiting
<1>7. CASE FlushRequestStep(in_busy[2])
  BY <1>7 DEF FlushRequestStep, EndStage, KeepWaiting
<1>8. CASE FlushWaitStep(in_busy[2])
  BY <1>8 DEF FlushWaitStep, EndStage, KeepWaiting
<1> QED BY <1>2, <1>3, <1>4, <1>5, <1>6, <1>7, <1>8 DEF Clock

LEMMA HpSideAon ==
  ASSUME TypeOK, MinHp >= 3, HpSideInv, AonTick
  PROVE  HpSideInv'
<1> USE Stages, AonEdge DEF HpSideInv
<1>1. hp_phase >= 3 /\ hp_phase' = 0
  BY ClockAssumption
<1>2. (hp_fl[1] <=> state = "FlushRequest") /\ (hp_fl[2] <=> state = "FlushRequest")
  BY <1>1 DEF SyncInv
<1>3. SyncInv'
  BY <1>1 DEF SyncInv
<1>4. Before' => HpResting'
  BY <1>1, <1>2, AonState DEF Before, HpResting
<1>5. state' \in {"FlushRequest", "FlushWait"} /\ clear_hp[3]' => "responses" \in flushed'
  BY <1>1, AonState DEF Before, HpResting
<1>6. state' = "FlushWait" => "responses" \in flushed' \/ HpArriving'
  BY <1>1, <1>2, AonState DEF HpArriving
<1>7. HpSideFlushed'
  BY <1>1, AonState DEF HpSideFlushed, HpArriving
<1> QED BY <1>3, <1>4, <1>5, <1>6, <1>7

\* HpSideFlushed: however slow PCLK is, however short the timeout and whichever stage
\* it ended, the response FIFOs were flushed before the core was held; a request cut
\* short by an old busy still fills the HP half.
THEOREM HpSideIsFlushed ==
  ASSUME MinHp >= 3
  PROVE  Spec => []HpSideFlushed
<1>1. Init => HpSideInv /\ DrainInv
  BY DrainInvInit DEF Init, DrainInit, LifecycleInit, HpSideInv, SyncInv, Before, HpResting,
     HpSideFlushed, Sides
<1>2. TypeOK /\ (HpSideInv /\ DrainInv) /\ [Next]_vars => (HpSideInv /\ DrainInv)'
  <2> SUFFICES ASSUME TypeOK, HpSideInv, DrainInv, [Next]_vars
               PROVE  HpSideInv' /\ DrainInv'
    OBVIOUS
  <2>1. DrainInv'
    BY StepIsDrainStep, DrainInvStep DEF TypeOK
  <2>2. CASE AonTick
    BY <2>1, <2>2, HpSideAon
  <2>3. CASE HpTick
    BY <2>1, <2>3, HpSideHp
  <2>4. CASE PclkTick(WriteRelease) \/ PclkTick(WriteClean) \/ PclkTick(NoWrite)
    BY <2>1, <2>4, HpSidePclk
  <2>5. CASE UNCHANGED vars
    <3>1. UNCHANGED <<state, hp_phase, hp_fl, clear_hp, flushed>>
      BY <2>5 DEF vars, drainVars, lifecycleVars, hpVars, bridgeVars, historyVars
    <3> QED BY <2>1, <3>1 DEF HpSideInv, SyncInv, Before, HpResting, HpArriving, HpSideFlushed
  <2> QED BY <2>2, <2>3, <2>4, <2>5 DEF Next
<1>3. HpSideInv => HpSideFlushed
  BY DEF HpSideInv
<1> QED BY <1>1, <1>2, <1>3, ShutdownTypeCorrect, PTL DEF Spec

----------------------------------------------------------------------------
(* The acknowledgement when PCLK is slower than AON by two or more.  The   *)
(* request flush may now be missed or run late into the next shutdown, but *)
(* the response flush waits for two PCLK edges, which take the cache       *)
(* request out of its synchronizer, and LP software needs two more writes  *)
(* before the next shutdown can ask.                                       *)

\* HP_CTRL.RELEASE changes at PCLK edges only.
ReleaseInv ==
  /\ pclk_gap >= 1 => (in_release[1] <=> release_bit)
  /\ pclk_gap >= 2 => (in_release[2] <=> release_bit)

\* Three HP edges lie between two PCLK edges: the HP half has answered.
AnswerInv ==
  /\ req_flush = "asked" => pclk_gap = 0 \/ (pclk_gap = 1 /\ hp_phase = 0)
  /\ req_flush = "seen" => pclk_gap = 0 \/ (pclk_gap = 1 /\ hp_phase <= 1)

PclkQuiet ==
  /\ ~clear_pclk[1] /\ ~clear_pclk[2] /\ ~clear_pclk[3]
  /\ req_flush = "idle"

\* FlushRequest: nothing but the flush of this shutdown makes the bridge busy,
\* and the response flush is as far as the cache request.
SlowRise == state = "FlushRequest" =>
  /\ clear_pclk[1] => timeout_cnt >= pclk_gap
  /\ clear_pclk[2] \/ req_flush # "idle" => timeout_cnt >= 2
  /\ in_busy[1] => clear_hp[3]
  /\ in_busy[2] => clear_hp[3] /\ (resp_flush # "idle" => in_busy[1])
  /\ timeout_cnt >= 3 => in_busy[1]
  /\ timeout_cnt >= 4 => in_busy[2]
  /\ resp_flush = "seen" => /\ ~in_request[1]
                            /\ pclk_gap >= 1 => in_busy[1]
                            /\ pclk_gap >= 2 => in_busy[2]
  /\ resp_flush = "acked" \/ (resp_flush = "idle" /\ clear_hp[3]) =>
       NoRequest /\ in_busy[1] /\ in_busy[2]

\* FlushWait: the controller stays until the response flush is over, and a
\* cycle longer for an acknowledgement still to be dropped.
SlowFall == state = "FlushWait" =>
  /\ HpFalling
  /\ resp_flush # "idle" => in_busy[1] /\ in_busy[2]
  /\ resp_flush = "asked" => timeout_cnt <= pclk_gap
  /\ resp_flush = "seen" => timeout_cnt <= MaxGap + pclk_gap /\ ~in_request[1]
  /\ resp_flush = "acked" => \/ timeout_cnt <= 2 * MaxGap
                             \/ timeout_cnt = 2 * MaxGap + 1 /\ hp_phase = 0
  /\ resp_flush \in {"acked", "idle"} =>
       /\ NoRequest
       /\ cache_clean => /\ timeout_cnt <= 2 * MaxGap + pclk_gap
                         /\ ~in_busy[1] => pclk_gap >= 1
                         /\ ~in_busy[2] => pclk_gap >= 2

\* Held and Running: an acknowledgement left over is older than the last change
\* of HP_CTRL.RELEASE, so it is gone when the core is asked to stop again.
SlowRest ==
  /\ Before => HpResting /\ HpFalling /\ resp_flush = "idle"
  /\ state \in {"Held", "Running"} => NoRequest
  /\ state = "Held" /\ cache_clean => pclk_gap >= 2
  /\ state = "Running" =>
       /\ cache_clean => release_bit /\ in_release[1] /\ in_release[2]
       /\ in_clean[1] => in_release[2]

\* CacheRequest and Quiesce: an answer takes three PCLK edges, and so does a
\* timeout; by then the late request flush of the last shutdown is over.
Answered == cache_clean \/ in_clean[1] \/ in_clean[2]

SlowCache ==
  /\ state = "CacheRequest" =>
       /\ Answered => acked /\ in_request[2] /\ PclkQuiet
       /\ in_request[2] => in_request[1] /\ ~clear_pclk[2]
       /\ in_request[1] => ~clear_pclk[1]
       /\ in_clean[1] \/ in_clean[2] => ~in_busy[1]
       /\ in_clean[2] => ~in_busy[2]
       /\ ~in_request[1] => timeout_cnt <= pclk_gap
       /\ ~in_request[2] => timeout_cnt <= MaxGap + pclk_gap
       /\ ~PclkQuiet => timeout_cnt <= 2 * MaxGap + pclk_gap
       /\ in_busy[1] => timeout_cnt <= 3 * MaxGap
  /\ state = "Quiesce" => PclkQuiet /\ ~in_busy[1] /\ ~in_busy[2]

SlowInv ==
  /\ SyncInv /\ ReleaseInv /\ AnswerInv
  /\ RiseHp /\ SlowRise /\ SlowFall /\ SlowRest /\ SlowCache
  /\ CleanAckIsFresh

\* The other synchronizers of the two domains at their edges.
LEMMA MoreEdges ==
  ASSUME TypeOK
  PROVE  /\ HpTick => UNCHANGED <<in_release, release_bit>>
         /\ PclkTick(WriteRelease) \/ PclkTick(WriteClean) \/ PclkTick(NoWrite) =>
              pclk_gap >= MinGap /\ UNCHANGED in_release
         /\ AonTick => /\ in_release'[1] = release_bit /\ in_release'[2] = in_release[1]
                       /\ UNCHANGED release_bit
BY DEF HpTick, PclkTick, AonTick, Shift, aonSyncVars, pclkVars

LEMMA SlowTypes ==
  ASSUME TypeOK
  PROVE  /\ pclk_gap <= MaxGap /\ MaxGap \in Nat
         /\ in_release[1] \in BOOLEAN /\ in_release[2] \in BOOLEAN /\ release_bit \in BOOLEAN
BY ClockAssumption DEF TypeOK, SyncType

LEMMA SlowHp ==
  ASSUME TypeOK, DrainInv, SlowInv, HpTick
  PROVE  SlowInv'
<1> USE Stages, SlowTypes, HpEdge, MoreEdges DEF SlowInv
<1>1. SyncInv' /\ ReleaseInv' /\ CleanAckIsFresh'
  BY DEF SyncInv, ReleaseInv, CleanAckIsFresh
<1>2. AnswerInv'
  BY DEF AnswerInv
<1>3. RiseHp'
  BY DEF SyncInv, RiseHp
<1>4. SlowRise'
  BY DEF RiseHp, SlowRise, NoRequest, FlushPhases
<1>5. SlowFall'
  BY DEF SyncInv, SlowFall, HpFalling, NoRequest, FlushPhases
<1>6. SlowRest'
  BY DEF SlowRest, Before, HpResting, HpFalling, NoRequest, FlushPhases
<1>7. SlowCache'
  BY DEF SlowCache, Answered, PclkQuiet, FlushPhases
<1> QED BY <1>1, <1>2, <1>3, <1>4, <1>5, <1>6, <1>7

LEMMA SlowPclk ==
  ASSUME TypeOK, MinGap >= 2, SlowInv,
         PclkTick(WriteRelease) \/ PclkTick(WriteClean) \/ PclkTick(NoWrite)
  PROVE  SlowInv'
<1> USE Stages, SlowTypes, PclkEdge, MoreEdges DEF SlowInv
<1>1. SyncInv' /\ ReleaseInv' /\ CleanAckIsFresh' /\ RiseHp'
  BY DEF SyncInv, ReleaseInv, CleanAckIsFresh, RiseHp
<1>2. pclk_gap >= 2
  BY ClockAssumption
<1>3. AnswerInv' /\ req_flush \notin {"asked", "seen"}
  BY <1>2 DEF AnswerInv
<1>4. SlowRise'
  BY <1>2, <1>3 DEF RiseHp, SlowRise, NoRequest, FlushPhases
<1>5. SlowFall'
  BY <1>2 DEF SlowFall, HpFalling, NoRequest, FlushPhases
<1>6. SlowRest'
  BY DEF SlowRest, Before, HpResting, HpFalling, NoRequest, FlushPhases
<1>7. SlowCache'
  BY <1>3 DEF SlowCache, SlowRest, Before, HpResting, Answered, PclkQuiet, FlushPhases
<1> QED BY <1>1, <1>3, <1>4, <1>5, <1>6, <1>7

LEMMA SlowExpiry ==
  ASSUME TypeOK, TimeoutInput >= 3 * MaxGap + 3, Expired
  PROVE  timeout_cnt >= 3 * MaxGap + 2
<1>1. MaxGap \in Nat /\ TimeoutInput \in Nat
  BY ClockAssumption, TimeoutAssumption
<1>2. TimeoutLimit = TimeoutInput
  BY <1>1 DEF TimeoutLimit
<1> QED BY <1>1, <1>2 DEF Expired

LEMMA SlowAon ==
  ASSUME TypeOK, MinHp >= 3, MinGap >= 2, TimeoutInput >= 3 * MaxGap + 3, SlowInv, AonTick
  PROVE  SlowInv'
<1> USE Stages, SlowTypes, AonEdge, MoreEdges DEF SlowInv
<1>1. /\ hp_phase >= 3 /\ hp_phase' = 0 /\ pclk_gap' = pclk_gap + 1
      /\ pclk_gap + 1 <= MaxGap /\ MaxGap >= 2
  BY ClockAssumption
<1>2. (hp_fl[1] <=> state = "FlushRequest") /\ (hp_fl[2] <=> state = "FlushRequest")
  BY <1>1 DEF SyncInv
<1>3. Expired => timeout_cnt >= 3 * MaxGap + 2
  BY SlowExpiry
<1>4. SyncInv' /\ ReleaseInv'
  BY <1>1 DEF SyncInv, ReleaseInv
<1>5. AnswerInv'
  BY <1>1 DEF AnswerInv
<1>6. RiseHp'
  BY <1>1, <1>2, AonState DEF RiseHp, SlowRest, Before, HpResting, SlowCache
<1>7. SlowRise'
  BY <1>1, <1>2, AonState DEF RiseHp, SlowRise, SlowRest, Before, HpResting, SlowCache,
     PclkQuiet, NoRequest, FlushPhases
<1>8. SlowFall'
  BY <1>1, <1>2, <1>3, AonState DEF RiseHp, SlowRise, SlowFall, HpFalling, NoRequest, FlushPhases
<1>9. SlowRest'
  BY <1>1, <1>2, <1>3, AonState DEF ReleaseInv, SlowFall, SlowRest, Before, HpResting, HpFalling,
     NoRequest, FlushPhases
<1>10. SlowCache'
  BY <1>1, <1>2, <1>3, AonState DEF SlowRest, SlowCache, Before, Answered, PclkQuiet, NoRequest,
     FlushPhases
<1>11. CleanAckIsFresh'
  BY AonState DEF CleanAckIsFresh, SlowCache, Answered
<1> QED BY <1>4, <1>5, <1>6, <1>7, <1>8, <1>9, <1>10, <1>11

LEMMA SlowInit ==
  ASSUME Init
  PROVE  SlowInv
<1> USE DEF Init, DrainInit, LifecycleInit, SlowInv
<1>1. SyncInv /\ ReleaseInv /\ AnswerInv /\ RiseHp
  BY DEF SyncInv, ReleaseInv, AnswerInv, RiseHp
<1>2. SlowRise /\ SlowFall /\ SlowRest /\ SlowCache /\ CleanAckIsFresh
  BY DEF SlowRise, SlowFall, SlowRest, SlowCache, Before, HpResting, HpFalling, NoRequest,
     CleanAckIsFresh
<1> QED BY <1>1, <1>2

LEMMA SlowUnchanged ==
  ASSUME SlowInv, UNCHANGED vars
  PROVE  SlowInv'
<1>1. UNCHANGED <<state, timeout_cnt, forced_fault, in_release, in_clean, in_busy, in_request,
                  release_bit, cache_clean, hp_fl, clear_hp, clear_pclk, resp_flush, req_flush,
                  hp_phase, pclk_gap, flushed, acked>>
  BY DEF vars, drainVars, lifecycleVars, aonSyncVars, pclkVars, hpVars, bridgeVars, historyVars
<1> USE <1>1 DEF SlowInv
<1>2. SyncInv' /\ ReleaseInv' /\ AnswerInv' /\ RiseHp' /\ CleanAckIsFresh'
  BY DEF SyncInv, ReleaseInv, AnswerInv, RiseHp, CleanAckIsFresh
<1>3. SlowRise' /\ SlowFall'
  BY DEF SlowRise, SlowFall, HpFalling, NoRequest
<1>4. SlowRest' /\ SlowCache'
  BY DEF SlowRest, SlowCache, Before, HpResting, HpFalling, NoRequest, Answered, PclkQuiet
<1> QED BY <1>2, <1>3, <1>4

LEMMA SlowInvariant ==
  ASSUME MinHp >= 3, MinGap >= 2, TimeoutInput >= 3 * MaxGap + 3
  PROVE  Spec => []SlowInv
<1>1. Init => SlowInv /\ DrainInv
  BY SlowInit, DrainInvInit DEF Init
<1>2. TypeOK /\ (SlowInv /\ DrainInv) /\ [Next]_vars => (SlowInv /\ DrainInv)'
  <2> SUFFICES ASSUME TypeOK, SlowInv, DrainInv, [Next]_vars
               PROVE  SlowInv' /\ DrainInv'
    OBVIOUS
  <2>1. DrainInv'
    BY StepIsDrainStep, DrainInvStep DEF TypeOK
  <2>2. CASE AonTick
    BY <2>1, <2>2, SlowAon
  <2>3. CASE HpTick
    BY <2>1, <2>3, SlowHp
  <2>4. CASE PclkTick(WriteRelease) \/ PclkTick(WriteClean) \/ PclkTick(NoWrite)
    BY <2>1, <2>4, SlowPclk
  <2>5. CASE UNCHANGED vars
    BY <2>1, <2>5, SlowUnchanged
  <2> QED BY <2>2, <2>3, <2>4, <2>5 DEF Next
<1> QED BY <1>1, <1>2, ShutdownTypeCorrect, PTL DEF Spec

----------------------------------------------------------------------------
\* CleanAckIsFresh: a shutdown whose cache stage did not time out was acknowledged by
\* LP software after its own request; no acknowledgement of an earlier one is left in
\* s_cache_clean_q or its synchronizer.  The two cases are all periodic PCLKs: one of at
\* least half the frequency of AON has at most two AON edges between its own, one of at
\* most half has at least two.  The chip ties the timeout to 65535.
THEOREM CleanAckStaysFresh ==
  ASSUME MinHp >= 3, MaxGap <= 2 \/ MinGap >= 2, TimeoutInput >= 3 * MaxGap + 3
  PROVE  Spec => []CleanAckIsFresh
<1>1. CASE MaxGap <= 2
  <2>1. TimeoutInput >= 6
    BY ClockAssumption, TimeoutAssumption
  <2>2. FlushInv => CleanAckIsFresh
    BY DEF FlushInv
  <2> QED BY <1>1, <2>1, <2>2, FlushInvariant, PTL
<1>2. CASE MinGap >= 2
  <2>1. SlowInv => CleanAckIsFresh
    BY DEF SlowInv
  <2> QED BY <1>2, <2>1, SlowInvariant, PTL
<1> QED BY <1>1, <1>2
=============================================================================
