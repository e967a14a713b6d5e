---------------------------- MODULE ClockSwitch ----------------------------
(***************************************************************************)
(* A change of the HP frequency end to end: rs_clock_set_frequency         *)
(* (crt/src/hal/clock.c) on the LP core, the PLL registers of              *)
(* sysctrl_core.sv in PCLK, the two cdc_2phase channels of                 *)
(* pll_rcu_controller.sv, the sequencer and the PLL of PllRcu, and the     *)
(* force-safe command of clock_config_controller.sv that reaches the       *)
(* sequencer beside its request channel.                                   *)
(*                                                                         *)
(* A step is one edge of REF24 or of PCLK, in any ratio.                   *)
(***************************************************************************)
EXTENDS PllRcu

CONSTANTS
  Disturbances,   \* what may happen beside the requests: "none", "lock" (the
                  \* PLL may lose its lock in use), "force" (force-safe commands)
  MaxForceSafe,   \* bound: force-safe commands software issues
  PollLimit       \* timeout argument of rs_clock_set_frequency

ASSUME SwitchAssumption ==
  /\ Disturbances \subseteq {"none", "lock", "force"}
  /\ MaxForceSafe \in Nat /\ PollLimit \in Nat \ {0}

VARIABLES
  req_valid, cfg, busy, err_reason, status,  \* sysctrl: s_pll_*_q
  req_cdc, req_word, rsp_cdc, rsp_word,      \* u_pll_req_cdc, u_pll_rsp_cdc
  cmd_cdc, commands,                         \* u_clock_req_cdc, issued so far
  pc, want, polls, busy_observed, result,    \* rs_clock_set_frequency
  disturb                                    \* the disturbance of this run

regVars == <<req_valid, cfg, busy, err_reason, status>>
chanVars == <<req_cdc, req_word, rsp_cdc, rsp_word, cmd_cdc, commands>>
halVars == <<pc, want, polls, busy_observed, result>>
vars == <<rcuVars, regVars, chanVars, halVars, disturb>>

\* cdc_2phase: a word crosses in two edges of the receiving clock and is
\* acknowledged in two edges of the sending clock.
Phase == {"free", "sent", "arriving", "valid", "taken", "acking"}
Receive(p) == CASE p = "sent" -> "arriving"
                [] p = "arriving" -> "valid"
                [] OTHER -> p
Acknowledge(p) == CASE p = "taken" -> "acking"
                    [] p = "acking" -> "free"
                    [] OTHER -> p

Status == <<safe_clk, lock, active_valid, active_sel>>

\* Registers, channels and driver after reset, beside any sequencer.
SwitchInit ==
  /\ req_valid = FALSE /\ cfg = 0 /\ busy = FALSE /\ err_reason = NoError
  /\ status = Status
  /\ req_cdc = "free" /\ req_word = None
  /\ rsp_cdc = "free" /\ rsp_word = <<err, Status>>
  /\ cmd_cdc = "free" /\ commands = 0
  /\ pc = "idle" /\ want = 0 /\ polls = 0 /\ busy_observed = FALSE
  /\ result = "none"
  /\ disturb \in Disturbances

Init == RcuInit /\ capable /\ SwitchInit

----------------------------------------------------------------------------
(* REF24.                                                                  *)

\* The clock configuration controller registers force_safe_o: it is high in
\* the cycle after the command was taken.
force_safe == cmd_cdc = "pulse"

CommandStep(p) == CASE p = "valid" -> "pulse"
                    [] p = "pulse" -> "taken"
                    [] OTHER -> Receive(p)

\* req_ready_o is state = Idle, whatever the sequencer does with the request.
TakesRequest == state = "Idle" /\ req_cdc = "valid"

AonTick(idle) ==
  /\ Sequence(IF req_cdc = "valid" THEN req_word ELSE None,
              force_safe, FALSE, idle, rsp_cdc = "free")
  /\ PllStep
  /\ disturb = "lock" \/ (active_valid' => pll_lock')
  /\ req_cdc' = IF TakesRequest THEN "taken" ELSE Receive(req_cdc)
  /\ LET send == rsp_valid /\ rsp_cdc = "free"
     IN  /\ rsp_cdc' = IF send THEN "sent" ELSE Acknowledge(rsp_cdc)
         /\ rsp_word' = IF send THEN <<err, Status>> ELSE rsp_word
  /\ cmd_cdc' = CommandStep(cmd_cdc)
  /\ UNCHANGED <<timeout, regVars, req_word, commands, halVars, disturb>>

----------------------------------------------------------------------------
(* PCLK.                                                                   *)

\* The PLL registers of sysctrl_core.sv for one write of the driver:
\* "clear" and "apply" of PLL_CMD, "cfg" of PLL_CFG, or "none".
\* Variant: a failure that comes back is not recorded.
Registers_DropError(write) ==
  LET accept == rsp_cdc = "valid"
      apply == write = "apply" /\ ~busy /\ ~req_valid
  IN  /\ cfg' = IF write = "cfg" THEN want ELSE cfg
      /\ req_valid' = (apply \/ (req_valid /\ req_cdc # "free"))
      /\ busy' = (~accept /\ (apply \/ busy))
      /\ status' = IF accept THEN rsp_word[2] ELSE status
      /\ err_reason' = IF write = "clear" THEN NoError ELSE err_reason

Registers(write) ==
  LET accept == rsp_cdc = "valid"
      free == ~busy /\ ~req_valid
      apply == write = "apply" /\ free
  IN  /\ cfg' = IF write = "cfg" THEN want ELSE cfg
      /\ req_valid' = (apply \/ (req_valid /\ req_cdc # "free"))
      /\ busy' = (~accept /\ (apply \/ busy))
      /\ status' = IF accept THEN rsp_word[2] ELSE status
      /\ err_reason' =
           IF accept /\ rsp_word[1] # NoError THEN rsp_word[1]
           ELSE CASE write = "apply" /\ ~free -> 3
                  [] write = "clear" -> NoError
                  [] OTHER -> err_reason

\* The PCLK ends of the channels; rsp_ready_o is always high.
Channels ==
  LET send == req_valid /\ req_cdc = "free"
  IN  /\ req_cdc' = IF send THEN "sent" ELSE Acknowledge(req_cdc)
      /\ req_word' = IF send THEN cfg ELSE req_word
      /\ rsp_cdc' = IF rsp_cdc = "valid" THEN "taken" ELSE Receive(rsp_cdc)

\* sysctrl accepts a clock command when the one before has been answered;
\* the answer is taken to arrive with the acknowledgement.
Commands ==
  \/ /\ cmd_cdc' = Acknowledge(cmd_cdc) /\ UNCHANGED commands
  \/ /\ disturb = "force" /\ commands < MaxForceSafe /\ cmd_cdc = "free"
     /\ cmd_cdc' = "sent" /\ commands' = commands + 1

PclkEdge(write) ==
  /\ Registers(write) /\ Channels /\ Commands
  /\ UNCHANGED <<rcuVars, rsp_word, disturb>>

\* No access of the driver on this edge.
PclkIdle == PclkEdge("none") /\ UNCHANGED halVars

----------------------------------------------------------------------------
(* rs_clock_set_frequency, one bus access per step.                        *)

Goes(to) == pc' = to /\ UNCHANGED <<want, polls, busy_observed, result>>

\* "Busy" is the RS_EIO of a call that finds the controller busy.
CallSetFrequency(frequency) ==
  /\ pc = "idle"
  /\ IF busy THEN result' = "Busy" /\ UNCHANGED <<pc, want>>
             ELSE result' = "none" /\ want' = frequency /\ pc' = "clear"
  /\ polls' = 0 /\ busy_observed' = FALSE
  /\ PclkEdge("none")

ClearError == pc = "clear" /\ Goes("cfg") /\ PclkEdge("clear")
SetConfig == pc = "cfg" /\ Goes("apply") /\ PclkEdge("cfg")
ApplyConfig == pc = "apply" /\ Goes("poll") /\ PclkEdge("apply")

\* RS_ENOTSUP, RS_ETIMEOUT, RS_OK and RS_EIO of a finished request.
Verdict == CASE err_reason = Unsupported -> "Unsupported"
             [] err_reason = TimedOut -> "Timeout"
             [] err_reason = NoError -> "OK"
             [] OTHER -> "Error"

\* "GaveUp" is the RS_ETIMEOUT of a call that polled PollLimit times.
PollStatus ==
  /\ pc = "poll"
  /\ busy_observed' = (busy_observed \/ busy)
  /\ CASE busy_observed' /\ ~busy ->
            result' = Verdict /\ pc' = "idle" /\ polls' = 0
       [] ~(busy_observed' /\ ~busy) /\ polls + 1 = PollLimit ->
            result' = "GaveUp" /\ pc' = "idle" /\ polls' = 0
       [] OTHER -> polls' = polls + 1 /\ UNCHANGED <<pc, result>>
  /\ UNCHANGED want
  /\ PclkEdge("none")

Driver == ClearError \/ SetConfig \/ ApplyConfig \/ PollStatus

Next ==
  \/ \E idle \in BOOLEAN : AonTick(idle)
  \/ PclkIdle
  \/ \E frequency \in Sels : CallSetFrequency(frequency)
  \/ Driver

\* Both clocks run and the LP core executes the driver it has entered.
Spec ==
  /\ Init /\ [][Next]_vars
  /\ WF_vars(\E idle \in BOOLEAN : AonTick(idle))
  /\ WF_vars(PclkIdle) /\ WF_vars(Driver)

----------------------------------------------------------------------------
Statuses == BOOLEAN \X BOOLEAN \X BOOLEAN \X (0 .. 7)
Results == {"none", "OK", "Unsupported", "Timeout", "Error", "GaveUp", "Busy"}

\* The registers, the two channels and the driver hold what the code can put there;
\* the counters of the sequencer stay below their limits.
TypeOK ==
  /\ RcuTypeOK
  /\ req_valid \in BOOLEAN /\ busy \in BOOLEAN /\ busy_observed \in BOOLEAN
  /\ cfg \in 0 .. 7 /\ err_reason \in 0 .. 3 /\ status \in Statuses
  /\ req_cdc \in Phase /\ rsp_cdc \in Phase /\ cmd_cdc \in Phase \cup {"pulse"}
  /\ rsp_word \in (0 .. 3) \X Statuses
  /\ commands \in 0 .. MaxForceSafe
  /\ pc \in {"idle", "clear", "cfg", "apply", "poll"} /\ want \in Sels \cup {0}
  /\ polls \in 0 .. PollLimit - 1
  /\ result \in Results /\ disturb \in Disturbances

\* No response is on its way to the registers.
Delivered == ~rsp_valid /\ rsp_cdc \in {"free", "taken", "acking"}

\* What software sees of the clock is true.  Once the sequencer rests and its
\* response has been delivered, PLL_STATUS shows the clocks as they are, however
\* many commands, lost locks and overlapping requests led there.  Undisturbed, a
\* success of rs_clock_set_frequency means that the HP root runs at the frequency
\* asked for when it returns, a failure that it runs from the safe clock; a lost
\* lock or a force-safe command during the call excuses what it returns.
StatusIsTrue ==
  /\ state = "Idle" /\ Delivered => status = Status
  /\ pc = "idle" /\ disturb = "none" =>
       /\ result = "OK" => ~sel_ext /\ active_sel = want /\ run_sel = want
       /\ result \in {"Unsupported", "Timeout", "Error"} => sel_ext

\* Every request gets its answer: PLL_STATUS.BUSY does not stay set, also when
\* the request is consumed by a lost lock or a force-safe command, and the
\* driver returns.
BusyEnds == (busy ~> ~busy) /\ (pc = "poll" ~> pc = "idle")
=============================================================================
