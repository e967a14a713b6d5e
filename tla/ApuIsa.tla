------------------------------- MODULE ApuIsa -------------------------------
(***************************************************************************)
(* The microcode of the audio processor: its assembler (apu_mcasm.py) and  *)
(* what apu_isa.py demands of an instruction, of an entry and of a bundle  *)
(* before it is packed or loaded, the proof of bounded control flow        *)
(* included.                                                               *)
(*                                                                         *)
(* A source line is a mnemonic, its operands, the label it branches to and *)
(* its predicate.                                                          *)
(* Bits are left out: a primitive mask is a set of names, and the widths   *)
(* of the fields are the bounds below.                                     *)
(***************************************************************************)
EXTENDS Naturals, Sequences, FiniteSets, SequencesExt

CONSTANTS MaxBranch,        \* longest branch an image can encode
          MaxInstructions,  \* instruction words of an image
          Slots,            \* loop slots, 0..3
          CallDepth         \* return addresses kept, 4

Control   == {"nop", "end", "trap", "jump_fwd", "call_fwd", "ret", "loop_setup", "loop_back",
              "wait"}
Scalar    == {"mov", "movi", "add", "sub", "cmp", "min", "sat"}
Bitstream == {"refill", "peek", "get", "skip", "align"}
Entropy   == {"unary", "rice4", "rice5", "sign_restore"}
Local     == {"ld32", "st32", "fifo_pop", "fifo_push"}
Kernel    == {"fixed", "stereo", "decorrelate"}
Transport == {"input_refill", "output_commit", "output_stream", "dma_wait", "frame_commit",
              "job_result", "event"}
Predicates == {"always", "eq", "ne", "slt", "sge", "ult", "uge", "input_exhausted",
               "input_ready", "output_ready", "kernel_done", "transport_done"}
WaitSources == <<"dma", "kernel", "input_fifo", "output_fifo", "tx_stream", "ring_writeback">>
LastRegister == 3

\* _encode_instruction's tokens.
Line(op, args) == [op |-> op, args |-> args, to |-> "", pred |-> "always"]

------------------------------------------------------------------------------
(* apu_isa.py: what a target has, and what an instruction needs of it.     *)

TargetMask(target) ==
    CASE target = "p3" -> {}
      [] target = "p4" -> {"bitstream", "entropy", "local_memory", "local_fifo", "kernel"}
      [] target = "p5" -> {"bitstream", "entropy", "local_memory", "local_fifo", "kernel",
                           "dma_input", "dma_output", "stream_output", "frame_commit", "event"}

\* A kernel WAIT names every kernel, one of which suffices.
Instruction_required_mask(i) ==
    CASE i.op = "wait" -> LET source == WaitSources[i.aux + 1]
                          IN  CASE source = "kernel" -> {"kernel"}
                                [] source \in {"input_fifo", "output_fifo"} -> {"local_fifo"}
                                [] source = "tx_stream" -> {"stream_output"}
                                [] source = "ring_writeback" -> {"dma_output"}
                                [] OTHER -> {}
      [] i.op \in Bitstream -> {"bitstream"}
      [] i.op \in Entropy -> {"bitstream", "entropy"}
      [] i.op \in Local -> {IF i.op \in {"fifo_pop", "fifo_push"} THEN "local_fifo"
                            ELSE "local_memory"}
      [] i.op \in Kernel -> {"kernel"}
      [] i.op = "input_refill" -> {"dma_input"}
      [] i.op = "output_commit" -> {"dma_output"}
      [] i.op = "output_stream" -> {"stream_output"}
      [] i.op \in {"frame_commit", "job_result"} -> {"frame_commit"}
      [] i.op = "event" -> {"event"}
      [] OTHER -> {}

Fields == {"dst", "src0", "src1", "aux", "imm"}
Require_zero(i, names) == \A f \in names : i[f] = 0

Validate_control(i, target) ==
    /\ i.op \in {"nop", "end", "ret"} => Require_zero(i, Fields)
    /\ i.op \in {"trap", "jump_fwd", "call_fwd"} => Require_zero(i, Fields \ {"imm"})
    /\ i.op \in {"jump_fwd", "call_fwd", "loop_back"} => i.imm \in 1..MaxBranch
    /\ i.op \in {"ret", "loop_setup", "loop_back", "wait"} => i.pred = "always"
    /\ i.op = "loop_setup" => Require_zero(i, {"dst", "src1", "imm"})
    /\ i.op = "loop_back" => Require_zero(i, {"dst", "src0", "src1"})
    /\ i.op \in {"loop_setup", "loop_back"} => i.aux \in Slots
    /\ i.op = "wait" => /\ Require_zero(i, Fields \ {"aux"}) /\ i.aux <= 5
                        /\ target # "p3" /\ (target = "p4" => i.aux \in 1..3)

Validate_scalar(i) ==
    /\ i.op = "mov" => Require_zero(i, {"src1", "aux", "imm"})
    /\ i.op = "movi" => Require_zero(i, {"src0", "src1", "aux"})
    /\ i.op \in {"add", "sub"} => Require_zero(i, {"aux", "imm"})
    /\ i.op = "cmp" => Require_zero(i, {"dst", "aux", "imm"})
    /\ i.op = "min" => i.imm = 0 /\ i.aux <= 1
    /\ i.op = "sat" => Require_zero(i, {"src1", "imm"})

Validate_primitive(i, target) ==
    /\ target # "p3" /\ (target = "p4" => i.op \notin Transport)
    /\ i.op \in {"refill", "peek", "get"} => Require_zero(i, {"src0", "src1", "aux"}) /\ i.imm >= 1
    /\ i.op = "skip" => Require_zero(i, Fields \ {"imm"}) /\ i.imm >= 1
    /\ i.op = "align" => Require_zero(i, Fields)
    /\ i.op = "unary" => Require_zero(i, {"src0", "src1"}) /\ i.aux <= 1 /\ i.imm >= 1
    /\ i.op \in Entropy \ {"unary"} => Require_zero(i, {"aux", "imm"})
    /\ i.op = "ld32" => Require_zero(i, {"src1", "aux"})
    /\ i.op = "st32" => Require_zero(i, {"dst", "aux"})
    /\ i.op = "fifo_pop" => Require_zero(i, Fields \ {"dst"}) /\ i.dst < LastRegister
    /\ i.op = "fifo_push" => Require_zero(i, {"dst", "aux", "imm"})
    /\ i.op \in Kernel => i.imm >= 1 /\ i.aux <= IF i.op = "fixed" THEN 4 ELSE 3
    /\ i.op \in {"input_refill", "output_commit", "output_stream"} =>
         Require_zero(i, {"aux", "imm"})
    /\ i.op = "dma_wait" => Require_zero(i, Fields \ {"dst"})
    /\ i.op = "frame_commit" => Require_zero(i, {"dst", "aux", "imm"})
    /\ i.op = "job_result" => Require_zero(i, {"dst", "imm"})
    /\ i.op = "event" => Require_zero(i, Fields \ {"imm"}) /\ i.imm > 0
    /\ Instruction_required_mask(i) \subseteq TargetMask(target)

Validate_instruction(i, target) ==
    /\ i.pred \in Predicates
    /\ i.op \in Control => Validate_control(i, target)
    /\ i.op \in Scalar => Validate_scalar(i)
    /\ i.op \notin Control \cup Scalar => Validate_primitive(i, target)

\* Scratch and tables are one region each here; a P3 entry has neither.
Validate_entry(e, count, target) ==
    /\ 0 <= e.first /\ e.first <= e.entry /\ e.entry <= e.last /\ e.last < count
    /\ count <= MaxInstructions
    /\ e.max_loop >= 1 /\ e.max_retired >= 1
    /\ target = "p3" => e.mask = {} /\ e.scratch = 0
    /\ e.mask \subseteq TargetMask(target)

------------------------------------------------------------------------------
(* apu_isa.control_flow_report: the loops pair up and do not cross, and no *)
(* path from the entry leaves the range, overflows or underflows the       *)
(* return stack, or meets a loop slot in the wrong state.                  *)

\* Program counters are those of the image: the first instruction is 0.
Word(program, pc) == program[pc + 1]

\* The scan for pairs: the open setups and the loops found up to pc.
RECURSIVE Loops(_, _, _)
Loops(program, e, pc) ==
    IF pc < e.first THEN [ok |-> TRUE, open |-> [s \in {} |-> 0], pairs |-> {}]
    ELSE LET scan == Loops(program, e, pc - 1)
             i    == Word(program, pc)
             slot == i.aux
         IN  CASE ~scan.ok -> scan
               [] scan.ok /\ i.op \in {"jump_fwd", "call_fwd"} ->
                    [scan EXCEPT !.ok = pc + 1 + i.imm <= e.last]
               [] scan.ok /\ i.op = "loop_setup" ->
                    IF slot \in DOMAIN scan.open THEN [scan EXCEPT !.ok = FALSE]
                    ELSE [scan EXCEPT !.open = [s \in DOMAIN @ \cup {slot} |->
                                                  IF s = slot THEN pc ELSE @[s]]]
               [] scan.ok /\ i.op = "loop_back" ->
                    IF slot \notin DOMAIN scan.open \/ pc + 1 - i.imm # scan.open[slot] + 1
                    THEN [scan EXCEPT !.ok = FALSE]
                    ELSE [ok |-> TRUE,
                          open |-> [s \in DOMAIN scan.open \ {slot} |-> scan.open[s]],
                          pairs |-> scan.pairs \cup {<<scan.open[slot] + 1, pc>>}]
               [] OTHER -> scan

Crossing(p, q) == p[1] < q[1] /\ q[1] <= p[2] /\ p[2] < q[2]

Pair_loops(program, e) ==
    LET scan == Loops(program, e, e.last)
    IN  /\ scan.ok /\ DOMAIN scan.open = {}
        /\ \A p, q \in scan.pairs : ~Crossing(p, q)

\* A path is a counter, the return addresses and the first word of each open loop.
Path(pc, returns, loops) == [pc |-> pc, returns |-> returns, loops |-> loops]
Closed == [s \in Slots |-> 0]

\* A predicated branch is taken for granted.
MutSuccessors(program, e, pairs, p) ==
    LET i      == Word(program, p.pc)
        next   == p.pc + 1
        skip   == {}
        on(s)  == [ok |-> TRUE, to |-> s \cup skip]
        refuse == [ok |-> FALSE, to |-> {}]
        starts == {q[1] : q \in {q \in pairs : q[2] = p.pc}}
    IN  CASE i.op \in {"end", "trap"} -> on({})
          [] i.op = "jump_fwd" -> on({[p EXCEPT !.pc = next + i.imm]})
          [] i.op = "call_fwd" ->
               IF Len(p.returns) = CallDepth THEN refuse
               ELSE on({Path(next + i.imm, Append(p.returns, next), p.loops)})
          [] i.op = "ret" ->
               IF p.returns = <<>> THEN refuse
               ELSE on({Path(Last(p.returns), Front(p.returns), p.loops)})
          [] i.op = "loop_setup" ->
               IF p.loops[i.aux] # 0 THEN refuse
               ELSE on({Path(next, p.returns, [p.loops EXCEPT ![i.aux] = next])})
          [] i.op = "loop_back" ->
               IF p.loops[i.aux] \notin starts THEN refuse
               ELSE on({[p EXCEPT !.pc = p.loops[i.aux]],
                        Path(next, p.returns, [p.loops EXCEPT ![i.aux] = 0])})
          [] OTHER -> on({[p EXCEPT !.pc = next]})

\* What may follow on a path, or {} with ok FALSE when the path is refused.
Successors(program, e, pairs, p) ==
    LET i      == Word(program, p.pc)
        next   == p.pc + 1
        skip   == IF i.pred # "always" THEN {[p EXCEPT !.pc = next]} ELSE {}
        on(s)  == [ok |-> TRUE, to |-> s \cup skip]
        refuse == [ok |-> FALSE, to |-> {}]
        starts == {q[1] : q \in {q \in pairs : q[2] = p.pc}}
    IN  CASE i.op \in {"end", "trap"} -> on({})
          [] i.op = "jump_fwd" -> on({[p EXCEPT !.pc = next + i.imm]})
          [] i.op = "call_fwd" ->
               IF Len(p.returns) = CallDepth THEN refuse
               ELSE on({Path(next + i.imm, Append(p.returns, next), p.loops)})
          [] i.op = "ret" ->
               IF p.returns = <<>> THEN refuse
               ELSE on({Path(Last(p.returns), Front(p.returns), p.loops)})
          [] i.op = "loop_setup" ->
               IF p.loops[i.aux] # 0 THEN refuse
               ELSE on({Path(next, p.returns, [p.loops EXCEPT ![i.aux] = next])})
          [] i.op = "loop_back" ->
               IF p.loops[i.aux] \notin starts THEN refuse
               ELSE on({[p EXCEPT !.pc = p.loops[i.aux]],
                        Path(next, p.returns, [p.loops EXCEPT ![i.aux] = 0])})
          [] OTHER -> on({[p EXCEPT !.pc = next]})

RECURSIVE Explore(_, _, _, _, _)
Explore(program, e, pairs, pending, visited) ==
    IF pending = {} THEN [ok |-> TRUE, visited |-> visited]
    ELSE LET p == CHOOSE q \in pending : TRUE
         IN  IF p.pc < e.first \/ p.pc > e.last THEN [ok |-> FALSE, visited |-> visited]
             ELSE LET s == Successors(program, e, pairs, p)
                  IN  IF ~s.ok THEN [ok |-> FALSE, visited |-> visited]
                      ELSE Explore(program, e, pairs,
                                   (pending \cup s.to) \ (visited \cup {p}), visited \cup {p})

\* Some path ends.
Control_flow_report(program, e) ==
    /\ Pair_loops(program, e)
    /\ LET found == Explore(program, e, Loops(program, e, e.last).pairs,
                            {Path(e.entry, <<>>, Closed)}, {})
       IN  /\ found.ok
           /\ \E p \in found.visited : Word(program, p.pc).op \in {"end", "trap"}

------------------------------------------------------------------------------
(* build_apumc and parse_apumc: both validate everything; the loader asks  *)
(* for one thing more.                                                     *)

Entry_masks(program, e) ==
    \A pc \in e.first..e.last : Instruction_required_mask(Word(program, pc)) \subseteq e.mask

Build_apumc(program, e, target) ==
    /\ Len(program) \in 1..MaxInstructions
    /\ Validate_entry(e, Len(program), target)
    /\ \A pc \in 0..(Len(program) - 1) : Validate_instruction(Word(program, pc), target)
    /\ Control_flow_report(program, e)
    /\ Entry_masks(program, e)

Waits_for_dma(i) == i.op = "dma_wait" \/ (i.op = "wait" /\ i.aux = 0)
Moves_data(e) == e.mask \cap {"dma_input", "dma_output", "stream_output"} # {}

Parse_apumc(program, e, target) ==
    /\ Build_apumc(program, e, target)
    /\ \A pc \in e.first..e.last : Waits_for_dma(Word(program, pc)) => Moves_data(e)

------------------------------------------------------------------------------
(* apu_mcasm: labels name the instruction that follows them.               *)

\* The fields the operands of a mnemonic fill, in the order they are written.
Control_operands(op) ==
    CASE op \in {"trap"} -> <<"imm">>
      [] op = "loop_setup" -> <<"aux", "src0">>
      [] op \in {"loop_back", "wait"} -> <<"aux">>
      [] OTHER -> <<>>

Scalar_operands(op) ==
    CASE op = "mov" -> <<"dst", "src0">>
      [] op = "movi" -> <<"dst", "imm">>
      [] op = "cmp" -> <<"src0", "src1">>
      [] op = "min" -> <<"dst", "src0", "src1", "aux">>
      [] op = "sat" -> <<"dst", "src0", "aux">>
      [] OTHER -> <<"dst", "src0", "src1">>

Bitstream_operands(op) ==
    CASE op = "skip" -> <<"imm">>
      [] op = "align" -> <<>>
      [] OTHER -> <<"dst", "imm">>

Entropy_operands(op) ==
    IF op = "unary" THEN <<"dst", "aux", "imm">> ELSE <<"dst", "src0", "src1">>

Local_operands(op) ==
    CASE op = "ld32" -> <<"dst", "src0", "imm">>
      [] op = "st32" -> <<"src0", "src1", "imm">>
      [] op = "fifo_pop" -> <<"dst">>
      [] op = "fifo_push" -> <<"src0", "src1">>

Transport_operands(op) ==
    CASE op = "dma_wait" -> <<"dst">>
      [] op = "frame_commit" -> <<"src0", "src1">>
      [] op = "job_result" -> <<"src0", "src1", "aux">>
      [] op = "event" -> <<"imm">>
      [] OTHER -> <<"dst", "src0", "src1">>

Operands(op) ==
    CASE op \in Control -> Control_operands(op)
      [] op \in Scalar -> Scalar_operands(op)
      [] op \in Bitstream -> Bitstream_operands(op)
      [] op \in Entropy -> Entropy_operands(op)
      [] op \in Local -> Local_operands(op)
      [] op \in Kernel -> <<"dst", "src0", "src1", "aux", "imm">>
      [] op \in Transport -> Transport_operands(op)

\* Every operand is there and none is left over; only the sign selector of a
\* minimum may be left out.
Well_formed(line) == \/ Len(line.args) = Len(Operands(line.op))
                     \/ line.op = "min" /\ Len(line.args) = 3

\* A branch back or to itself has no encoding and stays 0, which is refused.
Delta(from, to) == IF to > from THEN to - from ELSE 0

Encode_instruction(line, pc, labels) ==
    LET names    == Operands(line.op)
        given(f) == {k \in 1..Len(line.args) : names[k] = f}
        value(f) == IF given(f) = {} THEN 0 ELSE line.args[CHOOSE k \in given(f) : TRUE]
    IN  [op |-> line.op, pred |-> line.pred, dst |-> value("dst"), src0 |-> value("src0"),
         src1 |-> value("src1"), aux |-> value("aux"),
         imm |-> CASE line.op \in {"jump_fwd", "call_fwd"} -> Delta(pc + 1, labels[line.to])
                   [] line.op = "loop_back" -> Delta(labels[line.to], pc + 1)
                   [] OTHER -> value("imm")]

Assemble(source, labels) ==
    [n \in 1..Len(source) |-> Encode_instruction(source[n], n - 1, labels)]
==============================================================================
