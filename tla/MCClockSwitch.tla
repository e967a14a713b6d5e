--------------------------- MODULE MCClockSwitch ---------------------------
(***************************************************************************)
(* Two scenes in one run: "driver", the whole of ClockSwitch with the      *)
(* requests of the HAL, and "any", the sequencer of PllRcu under any       *)
(* software, whose PLL_STATUS follows the clocks without a channel.        *)
(***************************************************************************)
EXTENDS ClockSwitch

CONSTANTS
  DriverSels,      \* selectors the driver asks for
  DriverTimeout    \* CLK_TIMEOUT while the driver runs

ASSUME SceneAssumption == DriverSels \subseteq Sels /\ DriverTimeout \in Timeouts

VARIABLE scene

sceneVars == <<vars, scene>>

SceneInit ==
  \/ scene = "driver" /\ Init /\ timeout = DriverTimeout
  \/ scene = "any" /\ RcuInit /\ SwitchInit /\ disturb = "none"

AnyStep ==
  /\ scene = "any" /\ RcuNext
  /\ status' = Status'
  /\ UNCHANGED <<req_valid, cfg, busy, err_reason, chanVars, halVars, disturb, scene>>

DriverAon == scene = "driver" /\ (\E idle \in BOOLEAN : AonTick(idle)) /\ UNCHANGED scene
DriverPclk == scene = "driver" /\ PclkIdle /\ UNCHANGED scene
DriverCall ==
  /\ scene = "driver" /\ (\E frequency \in DriverSels : CallSetFrequency(frequency))
  /\ UNCHANGED scene
DriverStep == scene = "driver" /\ Driver /\ UNCHANGED scene

SceneNext == AnyStep \/ DriverAon \/ DriverPclk \/ DriverCall \/ DriverStep

\* The fairness of RcuSpec and of Spec, each in its scene.
SceneSpec ==
  /\ SceneInit /\ [][SceneNext]_sceneVars
  /\ WF_sceneVars(AnyStep \/ DriverAon)
  /\ WF_sceneVars(DriverPclk) /\ WF_sceneVars(DriverStep)
============================================================================
