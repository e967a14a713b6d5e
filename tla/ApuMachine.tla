----------------------------- MODULE ApuMachine -----------------------------
(***************************************************************************)
(* The audio processor's reference machine (apu_interpreter.py) running    *)
(* what the assembler and the image checks of ApuIsa accept: an in-order   *)
(* sequencer whose kernel and DMA port finish a few cycles after the       *)
(* instruction that started them has retired, while scalar and control     *)
(* instructions go on.                                                     *)
(*                                                                         *)
(* Memory, bursts and the input are counted in words, a word has three     *)
(* bits, and the local memory is the scratch of the entry.  The field of a *)
(* Rice parameter has one or two bits, that of a sign's extra bits two,    *)
(* and what a kernel costs is scaled down with the watchdog.               *)
(***************************************************************************)
(* Left out: the tables and what reads them (Huffman codes, table loads,   *)
(* the transforms), frame synchronisation and the checksums.  As in the    *)
(* interpreter, unlike docs/ip/apu.md:1066, FRAME_COMMIT does not reset    *)
(* the count of retired instructions.                                      *)
(***************************************************************************)
EXTENDS ApuIsa, Integers

CONSTANTS Scenes,       \* the programs: target, prelude, menu, length, tail, labels, and the
                        \* cycles the DMA port may take
          Timeout,      \* cycles without retirement the watchdog allows
          Fetch,        \* cycles without retirement per fetch
          Scratch,      \* words of the scratch, the last one the context's output count
          MaxBurst,     \* words of a DMA command
          Depth,        \* words of a FIFO
          Frame,        \* words of an output frame
          Capacity,     \* words of the output buffer
          Input,        \* the words of the job's input
          MaxLoop,      \* loop count the entry allows
          MaxRetired,   \* instructions the entry may retire
          MaxRestarts   \* times a job is abandoned for a new one

ASSUME ApuAssumption == /\ MaxLoop >= 1 /\ MaxRetired >= 1 /\ Scratch >= 1 /\ Depth >= MaxBurst
                        /\ \A s \in Scenes : \A l \in s.latencies : l >= 1

\* The element of a set of one: what it is made of is evaluated once.
The(S) == CHOOSE x \in S : TRUE

W == 8
Word_range == 0..(W - 1)
Registers == 0..LastRegister
Stale == W                  \* a word not written in this epoch
Signed(v) == IF v >= W \div 2 THEN v - W ELSE v
Fits(v) == v >= -(W \div 2) /\ v < W \div 2
Saturated(v) == IF Fits(v) THEN v ELSE IF v < 0 THEN -(W \div 2) ELSE (W \div 2) - 1
MaxQuotient == 7            \* of a Rice code
Bits(v) == <<v \div 4, (v \div 2) % 2, v % 2>>
NoLoop == [count |-> 0, start |-> 0]
Meta(last) == IF last THEN 5 ELSE 1    \* a whole word, and whether it is the last

VARIABLES job,       \* target, source, labels, program, entry, latency
          m,         \* the machine
          restarts

vars == <<job, m, restarts>>

------------------------------------------------------------------------------
(* The primitives. A result is the machine and the reason of a fault.      *)

Ok(n)        == [m |-> n, fault |-> 0, cycles |-> 1]
Fails(n, r)  == [m |-> n, fault |-> r, cycles |-> 1]
Takes(n, c)  == [m |-> n, fault |-> 0, cycles |-> c]

In_scratch(address, size) == address >= 0 /\ size >= 1 /\ address + size <= Scratch
Readable(n, address, size) ==
    In_scratch(address, size) /\ \A k \in 0..(size - 1) : n.mem[address + k] # Stale
Written(n, address, words) ==
    [n EXCEPT !.mem = [a \in DOMAIN @ |-> IF a \in address..(address + Len(words) - 1)
                                         THEN words[a - address + 1] ELSE @[a]]]

Refill(n, width) ==
    LET RECURSIVE Take(_)
        Take(p) == IF Len(p.bits) >= width \/ p.infifo = <<>> THEN p
                   ELSE LET w == Head(p.infifo)
                        IN  Take([p EXCEPT !.infifo = Tail(@), !.bits = @ \o Bits(w.word),
                                           !.eof = @ \/ w.meta = Meta(TRUE)])
    IN  Take(n)

RECURSIVE Value(_)
Value(bits) == IF bits = <<>> THEN 0 ELSE (2 * Value(Front(bits)) + Last(bits)) % W

\* The bits that are there, and the machine when some of them are taken from the
\* FIFO and used up: a primitive may take more than it has waited for.
Stream_bits(n) == n.bits \o FlattenSeq([k \in 1..Len(n.infifo) |-> Bits(n.infifo[k].word)])
Take_bits(n, used) ==
    LET p == Refill(n, used)
    IN  [p EXCEPT !.bits = SubSeq(@, used + 1, Len(@)), !.bitpos = (@ + used) % 3]

\* A primitive that uses bits and writes dst; the stream may run out first.
Decodes(n, i, used, value, cycles) ==
    IF used > Len(Stream_bits(n)) THEN Fails(n, 9)
    ELSE Takes([Take_bits(n, used) EXCEPT !.regs[i.dst] = value % W], cycles)

Execute_bitstream(n, i) ==
    LET value == Value(SubSeq(Stream_bits(n), 1, i.imm))
        used  == IF i.op = "align" THEN (3 - n.bitpos) % 3 ELSE i.imm
    IN  CASE i.op = "refill" -> Takes([n EXCEPT !.regs[i.dst] = Len(n.bits) % W], 3)
          [] i.op = "peek" -> IF Len(n.bits) < i.imm THEN Fails(n, 9)
                              ELSE Ok([n EXCEPT !.regs[i.dst] = value])
          [] i.op = "get" -> Decodes(n, i, used, value, 1)
          [] i.op \in {"skip", "align"} ->
               IF used > Len(Stream_bits(n)) THEN Fails(n, 9) ELSE Ok(Take_bits(n, used))

\* Where the run of one bit ends in the stream, within its limit.
Run_ends(stream, bit, limit) ==
    {k \in 1..Len(stream) : k <= limit + 1 /\ stream[k] # bit /\ \A j \in 1..(k - 1) : stream[j] = bit}

Unary(n, i) ==
    LET ends == Run_ends(Stream_bits(n), i.aux, i.imm)
        run  == Min(ends) - 1
    IN  IF ends = {} THEN Fails(n, 9) ELSE Decodes(n, i, run + 1, run, 2 + run)

\* Rice code: a parameter of all ones says that the number is there as it is.
Rice(n, i) ==
    LET stream  == Stream_bits(n)
        field   == IF i.op = "rice4" THEN 2 ELSE 4
        k       == n.regs[i.src0] % field
        raw     == n.regs[i.src1]
        literal == Value(SubSeq(stream, 1, raw))
        ends    == Run_ends(stream, 0, MaxQuotient)
        q       == Min(ends) - 1
        u       == q * 2^k + Value(SubSeq(stream, q + 2, q + 1 + k))
    IN  IF k = field - 1
        THEN IF raw \notin 1..3 THEN Fails(n, 9)
             ELSE Decodes(n, i, raw, IF literal >= 2^(raw - 1) THEN literal - 2^raw ELSE literal,
                          1 + raw)
        ELSE IF ends = {} THEN Fails(n, 9)
        ELSE Decodes(n, i, q + 1 + k, IF u % 2 = 0 THEN u \div 2 ELSE -(u \div 2) - 1, 1 + q + k)

Sign_restore(n, i) ==
    LET linbits == n.regs[i.src1] % 4
        stream  == Stream_bits(n)
        value   == n.regs[i.src0] + Value(SubSeq(stream, 1, linbits))
    IN  IF n.regs[i.src0] = 0 THEN Ok([n EXCEPT !.regs[i.dst] = 0])
        ELSE IF Len(stream) <= linbits THEN Fails(n, 9)
        ELSE Decodes(n, i, linbits + 1, IF stream[linbits + 1] = 1 THEN -value ELSE value,
                     1 + linbits)

Execute_entropy(n, i) == CASE i.op = "unary" -> Unary(n, i)
                           [] i.op \in {"rice4", "rice5"} -> Rice(n, i)
                           [] i.op = "sign_restore" -> Sign_restore(n, i)

Execute_local(n, i) ==
    LET address == n.regs[i.src0] + i.imm
        meta    == n.regs[i.src1]
    IN  CASE i.op = "ld32" ->
               IF ~Readable(n, address, 1) THEN Fails(n, 5)
               ELSE Takes([n EXCEPT !.regs[i.dst] = n.mem[address]], 2)
          [] i.op = "st32" ->
               IF ~In_scratch(address, 1) THEN Fails(n, 5)
               ELSE Ok(Written(n, address, <<n.regs[i.src1]>>))
          [] i.op = "fifo_pop" ->
               Ok([n EXCEPT !.infifo = Tail(@), !.regs[i.dst] = Head(n.infifo).word,
                            !.regs[i.dst + 1] = Head(n.infifo).meta])
          [] i.op = "fifo_push" ->
               IF meta % 4 = 0 THEN Fails(n, 9)
               ELSE Ok([n EXCEPT !.outfifo = Append(@, [word |-> n.regs[i.src0], meta |-> meta])])

Kernel_cycles(i) == 2 + i.imm * (IF i.op = "fixed" THEN i.aux + 1 ELSE 2)

Predictor(order, h) ==
    CASE order = 0 -> 0
      [] order = 1 -> h[1]
      [] order = 2 -> 2 * h[1] - h[2]
      [] order = 3 -> 3 * h[1] - 3 * h[2] + h[3]
      [] order = 4 -> 4 * h[1] - 6 * h[2] + 4 * h[3] - h[4]

\* FIXED: predict each sample from the last ones, word by word, so a fault
\* leaves what was written before it. The history is written back at the end.
Fixed(n, i, address) ==
    LET order == i.aux
        from  == n.regs[i.src0]
        into  == n.regs[i.dst]
        RECURSIVE Samples(_, _, _)
        Samples(p, k, h) ==
            IF k = i.imm THEN Ok(Written(p, address, [x \in 1..order |-> h[x] % W]))
            ELSE IF ~Readable(p, from + k, 1) THEN Fails(p, 5)
            ELSE LET v == Predictor(order, h) + Signed(p.mem[from + k])
                 IN  IF ~Fits(v) THEN Fails(p, 9)
                     ELSE IF ~In_scratch(into + k, 1) THEN Fails(p, 5)
                     ELSE Samples(Written(p, into + k, <<v % W>>), k + 1,
                                  IF order = 0 THEN h ELSE <<v>> \o Front(h))
    IN  IF \/ ~In_scratch(address, IF order = 0 THEN 1 ELSE order)
           \/ order > 0 /\ ~Readable(n, address, order)
           \/ ~In_scratch(from, i.imm)
        THEN Fails(n, 5)
        ELSE LET done == Samples(n, 0, [x \in 1..order |-> Signed(n.mem[address + x - 1])])
             IN  [done EXCEPT !.cycles = Kernel_cycles(i)]

Stereo_pair(mode, left, right) ==
    LET middle == 2 * left + (right % 2)
    IN  CASE mode = 0 -> <<left, right>>
          [] mode = 1 -> <<left, left - right>>
          [] mode = 2 -> <<left + right, right>>
          [] mode = 3 -> <<(middle + right) \div 2, (middle - right) \div 2>>

\* STEREO and DECORRELATE: two channels in, two out, one after the other in
\* memory; the one saturates, the other refuses what does not fit.
Stereo(n, i, address) ==
    LET from == n.regs[i.src0]
        into == n.regs[i.dst]
        RECURSIVE Pairs(_, _)
        Pairs(p, k) ==
            IF k = i.imm THEN Ok(p)
            ELSE IF ~Readable(p, from + k, 1) \/ ~Readable(p, address + k, 1) THEN Fails(p, 5)
            ELSE LET pair == Stereo_pair(i.aux, Signed(p.mem[from + k]), Signed(p.mem[address + k]))
                     left == Written(p, into + k, <<Saturated(pair[1]) % W>>)
                 IN  IF i.op = "decorrelate" /\ ~(Fits(pair[1]) /\ Fits(pair[2])) THEN Fails(p, 9)
                     ELSE IF ~In_scratch(into + k, 1) THEN Fails(p, 5)
                     ELSE IF ~In_scratch(into + i.imm + k, 1) THEN Fails(left, 5)
                     ELSE Pairs(Written(left, into + i.imm + k, <<Saturated(pair[2]) % W>>), k + 1)
    IN  IF ~In_scratch(address, i.imm) \/ ~In_scratch(from, i.imm) THEN Fails(n, 5)
        ELSE [Pairs(n, 0) EXCEPT !.cycles = Kernel_cycles(i)]

\* The parameter is the address of the history, or of the second channel.
Execute_kernel(n, i) ==
    LET param == n.regs[i.src1]
    IN  IF ~Readable(n, param, 1) THEN Fails(n, 5)
        ELSE IF i.op = "fixed" THEN Fixed(n, i, n.mem[param]) ELSE Stereo(n, i, n.mem[param])

\* How much a kernel has produced, which is what it writes to dst.
Produced(i) == (IF i.op = "fixed" THEN i.imm ELSE 2 * i.imm) % W

Execute(n, i) == CASE i.op \in Bitstream -> Execute_bitstream(n, i)
                   [] i.op \in Entropy -> Execute_entropy(n, i)
                   [] i.op \in Local -> Execute_local(n, i)
                   [] i.op \in Kernel -> Execute_kernel(n, i)

------------------------------------------------------------------------------
(* The DMA port.                                                           *)

Completed(n, dst, value) == [n EXCEPT !.regs[dst] = value, !.owed = @ \ {dst}]

\* A refill fills the scratch and the FIFO; output is appended and its size
\* noted in the context. A refill of nothing cannot be written: a fault.
Deliver(n, c) ==
    IF c.op = "input_refill"
    THEN IF c.words = <<>> THEN [n EXCEPT !.transport_fault = 5]
         ELSE LET last(k) == n.cursor + k = Len(Input)
                  full    == Written(n, c.offset, c.words)
              IN  Completed([full EXCEPT
                      !.infifo = @ \o [k \in 1..Len(c.words) |->
                                         [word |-> c.words[k], meta |-> Meta(last(k))]],
                      !.cursor = @ + Len(c.words)], c.dst, Len(c.words) % W)
    ELSE LET size == Len(n.output) + Len(c.words)
         IN  Completed(Written([n EXCEPT !.output = @ \o c.words], Scratch - 1, <<size % W>>),
                       c.dst, Len(c.words) % W)

RECURSIVE Deliver_all(_, _)
Deliver_all(n, ready) ==
    IF ready = <<>> \/ n.transport_fault # 0 THEN n
    ELSE Deliver_all(Deliver(n, Head(ready)), Tail(ready))

Transport_tick(n) ==
    IF n.dma = <<>> THEN n
    ELSE LET aged == [k \in 1..Len(n.dma) |-> [n.dma[k] EXCEPT !.cycles = @ - 1]]
             next == Deliver_all([n EXCEPT !.dma = SelectSeq(aged, LAMBDA c : c.cycles # 0)],
                                 SelectSeq(aged, LAMBDA c : c.cycles = 0))
         IN  IF next.transport_fault # n.transport_fault THEN [next EXCEPT !.dma = aged] ELSE next

Output_ops == {"output_commit", "output_stream"}
Pending(n, ops) == \E k \in 1..Len(n.dma) : n.dma[k].op \in ops
Command(n, i, words) ==
    [n EXCEPT !.dma = Append(@, [op |-> i.op, dst |-> i.dst, offset |-> n.regs[i.src0],
                                 words |-> words, cycles |-> job.latency]),
              !.owed = @ \cup {i.dst}]

\* What the port says to an instruction: not accepted, a fault, or accepted.
No(n) == [m |-> n, fault |-> 0, accepted |-> FALSE]
Yes(n) == [m |-> n, fault |-> 0, accepted |-> TRUE]
Bad(n, r) == [m |-> n, fault |-> r, accepted |-> FALSE]

Issue_refill(n, i) ==
    LET offset == n.regs[i.src0]
        count  == n.regs[i.src1]
        actual == SubSeq(Input, n.cursor + 1, n.cursor + count)
    IN  IF count \notin 1..MaxBurst \/ offset + count > Scratch THEN Bad(n, 5)
        ELSE LET words == IF n.cursor + count > Len(Input)
                          THEN SubSeq(Input, n.cursor + 1, Len(Input)) ELSE actual
             IN  IF Pending(n, {"input_refill"}) \/ Len(n.infifo) + Len(words) > Depth THEN No(n)
                 ELSE Yes(Command(n, i, words))

Issue_output(n, i) ==
    LET offset == n.regs[i.src0]
        count  == n.regs[i.src1]
    IN  IF \/ count \notin 1..MaxBurst \/ offset + count > Scratch \/ count % Frame # 0
           \/ (i.op = "output_stream") # job.stream \/ n.outfifo # <<>> THEN Bad(n, 5)
        ELSE IF Pending(n, Output_ops) THEN No(n)
        ELSE IF i.op = "output_commit" /\ Len(n.output) + count > Capacity THEN Bad(n, 9)
        ELSE IF ~Readable(n, offset, count) THEN Bad(n, 5)
        ELSE Yes(Command(n, i, [k \in 1..count |-> n.mem[offset + k - 1]]))

\* The rest complete at once, into dst: 0 where the instruction has none.
Issue_now(n, i) ==
    LET offset == n.regs[i.src0]
        count  == n.regs[i.src1]
    IN  CASE i.op = "dma_wait" ->
               IF n.dma # <<>> THEN No(n) ELSE Yes(Completed(n, i.dst, 0))
          [] i.op = "frame_commit" ->
               IF \/ count # Frame \/ n.logical_in + offset > n.cursor
                  \/ n.logical_out + count > Len(n.output) THEN Bad(n, 9)
               ELSE Yes(Completed([n EXCEPT !.logical_in = @ + offset, !.logical_out = @ + count,
                                            !.frames = @ + 1], i.dst, 0))
          [] i.op = "job_result" ->
               IF offset >= 6 THEN Bad(n, 1)
               ELSE Yes(Completed([n EXCEPT !.result = <<offset, i.aux, count>>], i.dst, 0))
          [] i.op = "event" -> Yes(Completed([n EXCEPT !.events = @ \cup {i.imm}], i.dst, 0))

Issue(n, i) == CASE i.op = "input_refill" -> Issue_refill(n, i)
                 [] i.op \in Output_ops -> Issue_output(n, i)
                 [] OTHER -> Issue_now(n, i)

------------------------------------------------------------------------------
(* The sequencer: its units tick, then the instruction at pc retires,      *)
(* stalls or traps.                                                        *)

Complete_kernel(n) ==
    LET k == n.kernel[1]
    IN  IF k.fault # 0 THEN [n EXCEPT !.kernel = <<>>, !.kernel_fault = k.fault]
        ELSE [n EXCEPT !.kernel = <<>>, !.regs[k.dst] = k.value, !.kernel_done = TRUE]

Tick_kernel(n) ==
    IF n.kernel = <<>> THEN n
    ELSE LET next == [n EXCEPT !.kernel[1].cycles = IF @ > 0 THEN @ - 1 ELSE 0]
         IN  IF next.kernel[1].cycles = 0 THEN Complete_kernel(next) ELSE next

Tick(n) == Transport_tick(Tick_kernel(n))

Trap(n, reason) == [n EXCEPT !.status = "trap", !.reason = reason]

\* A stall the watchdog does not count.
MutNo_retirement_cycle(n) == n

\* A cycle without retirement; the units have ticked in it.
No_retirement_cycle(n) ==
    IF n.watchdog + 1 >= Timeout THEN Trap([n EXCEPT !.watchdog = @ + 1], 7)
    ELSE [n EXCEPT !.watchdog = @ + 1]

Retire(n) == [n EXCEPT !.retired = @ + 1, !.watchdog = 0, !.fetch = Fetch]

Predicate(n, pred) ==
    CASE pred = "always" -> TRUE
      [] pred = "eq" -> n.eq
      [] pred = "ne" -> ~n.eq
      [] pred = "slt" -> n.slt
      [] pred = "sge" -> ~n.slt
      [] pred = "ult" -> n.ult
      [] pred = "uge" -> ~n.ult
      [] pred = "transport_done" -> job.target = "p5" /\ n.dma = <<>>
      [] pred = "input_exhausted" -> n.eof /\ n.infifo = <<>> /\ n.bits = <<>>
      [] pred = "input_ready" -> n.infifo # <<>>
      [] pred = "output_ready" -> job.target # "p3" /\ Len(n.outfifo) < Depth
      [] pred = "kernel_done" -> n.kernel_done

\* An immediate is written whatever is still to come for its register.
MutUses_pending_register(i, r) ==
    CASE i.op \in Control -> i.op = "end" \/ (i.op = "loop_setup" /\ i.src0 = r)
      [] i.op \in {"mov", "sat"} -> r \in {i.src0, i.dst}
      [] i.op = "movi" -> FALSE
      [] i.op = "cmp" -> r \in {i.src0, i.src1}
      [] i.op \in Scalar \ {"mov", "sat", "movi", "cmp"} -> r \in {i.src0, i.src1, i.dst}
      [] OTHER -> TRUE

Uses_pending_register(i, r) ==
    CASE i.op \in Control -> i.op = "end" \/ (i.op = "loop_setup" /\ i.src0 = r)
      [] i.op \in {"mov", "sat"} -> r \in {i.src0, i.dst}
      [] i.op = "movi" -> r = i.dst
      [] i.op = "cmp" -> r \in {i.src0, i.src1}
      [] i.op \in Scalar \ {"mov", "sat", "movi", "cmp"} -> r \in {i.src0, i.src1, i.dst}
      [] OTHER -> TRUE

Pending_dependency(n, i) ==
    \E r \in n.owed \cup {n.kernel[k].dst : k \in 1..Len(n.kernel)} : Uses_pending_register(i, r)

Wait_ready(n, i) ==
    CASE i.aux = 1 -> n.kernel_done
      [] i.aux = 2 -> n.infifo # <<>>
      [] i.aux = 3 -> Len(n.outfifo) < Depth
      [] OTHER -> job.target = "p5" /\ n.dma = <<>>

\* Retired, with the program counter moved: a counter outside the entry traps.
Goes(n, pc) ==
    LET next == Retire(n)
    IN  IF pc < job.entry.first \/ pc > job.entry.last THEN Trap(next, 2)
        ELSE [next EXCEPT !.pc = pc]

Loop_setup(n, i) ==
    LET count == n.regs[i.src0]
    IN  IF n.loops[i.aux].count # 0 \/ count = 0 \/ count > job.entry.max_loop THEN Trap(n, 4)
        ELSE Goes([n EXCEPT !.loops[i.aux] = [count |-> count, start |-> n.pc + 1]], n.pc + 1)

Loop_back(n, i) ==
    LET loop   == n.loops[i.aux]
        target == n.pc + 1 - i.imm
    IN  IF loop.count = 0 \/ target # loop.start \/ target < job.entry.first THEN Trap(n, 4)
        ELSE IF loop.count > 1 THEN Goes([n EXCEPT !.loops[i.aux].count = @ - 1], target)
        ELSE Goes([n EXCEPT !.loops[i.aux] = NoLoop], n.pc + 1)

Step_control(n, i) ==
    CASE i.op = "end" -> IF n.dma # <<>> THEN No_retirement_cycle(n)
                         ELSE [Retire(n) EXCEPT !.status = "done"]
      [] i.op = "trap" -> Trap(n, 10)
      [] i.op = "jump_fwd" -> Goes(n, n.pc + 1 + i.imm)
      [] i.op = "call_fwd" ->
           IF Len(n.stack) = CallDepth THEN Trap(n, 3)
           ELSE Goes([n EXCEPT !.stack = Append(@, n.pc + 1)], n.pc + 1 + i.imm)
      [] i.op = "ret" -> IF n.stack = <<>> THEN Trap(n, 3)
                         ELSE Goes([n EXCEPT !.stack = Front(@)], Last(n.stack))
      [] i.op = "loop_setup" -> Loop_setup(n, i)
      [] i.op = "loop_back" -> Loop_back(n, i)
      [] i.op = "wait" -> IF Wait_ready(n, i) THEN Goes(n, n.pc + 1) ELSE No_retirement_cycle(n)
      [] i.op = "nop" -> Goes(n, n.pc + 1)

Scalar_effect(n, i) ==
    LET a == n.regs[i.src0]
        b == n.regs[i.src1]
        least(x, y) == IF x < y THEN x ELSE y
    IN  CASE i.op = "mov" -> [n EXCEPT !.regs[i.dst] = a]
          [] i.op = "movi" -> [n EXCEPT !.regs[i.dst] = i.imm % W]
          [] i.op = "add" -> [n EXCEPT !.regs[i.dst] = (a + b) % W]
          [] i.op = "sub" -> [n EXCEPT !.regs[i.dst] = (a - b) % W]
          [] i.op = "cmp" -> [n EXCEPT !.eq = (a = b), !.slt = Signed(a) < Signed(b), !.ult = a < b]
          [] i.op = "min" -> [n EXCEPT !.regs[i.dst] =
                                IF i.aux = 1 THEN least(Signed(a), Signed(b)) % W ELSE least(a, b)]
          [] i.op = "sat" -> [n EXCEPT !.regs[i.dst] = least(a, (2^i.aux) - 1)]

Step_transport(n, i) ==
    LET told == Issue(n, i)
    IN  IF told.fault # 0 THEN Trap(n, told.fault)
        ELSE IF ~told.accepted THEN No_retirement_cycle(n)
        ELSE Goes(IF i.op \in Output_ops \cup {"input_refill"} THEN told.m
                  ELSE Transport_tick(told.m), n.pc + 1)

\* The kernel's memory changes now, its register and its fault come later;
\* a fault of reason 5 is known at once.
Step_kernel(n, i) ==
    LET done == Execute(n, i)
        late == [done.m EXCEPT !.kernel_done = FALSE,
                               !.kernel = <<[dst |-> i.dst, value |-> Produced(i), fault |-> done.fault,
                                             cycles |-> IF done.fault # 0 THEN 0
                                                        ELSE done.cycles - 1]>>]
    IN  IF done.fault = 5 THEN Trap([done.m EXCEPT !.kernel_done = FALSE], 5)
        ELSE Goes(IF late.kernel[1].cycles = 0 THEN Complete_kernel(late) ELSE late, n.pc + 1)

\* The bits a primitive waits for before it starts; it may need more.
Required(n, i) ==
    CASE i.op \in Bitstream \ {"align"} -> i.imm
      [] i.op = "unary" -> i.imm + 1
      [] i.op \in {"rice4", "rice5"} -> 1
      [] i.op = "sign_restore" ->
           IF n.regs[i.src0] = 0 THEN 0 ELSE (n.regs[i.src1] % 4) + 1
      [] OTHER -> 0

\* The other primitives keep the sequencer for all their cycles.
RECURSIVE Spend(_, _)
Spend(n, cycles) == IF cycles = 0 \/ n.status # "run" THEN n
                    ELSE The({Spend(p, cycles - 1) : p \in {No_retirement_cycle(Tick(n))}})

Ends_primitive(n, done) ==
    IF done.fault # 0 THEN Trap(done.m, done.fault)
    ELSE The({IF spent.status # "run" THEN spent ELSE Goes(spent, n.pc + 1) :
              spent \in {Spend(done.m, done.cycles - 1)}})

Starts_primitive(fed, i, required) ==
    IF \/ i.op = "fifo_pop" /\ fed.infifo = <<>>
       \/ i.op = "fifo_push" /\ Len(fed.outfifo) = Depth
       \/ Len(fed.bits) < required /\ ~fed.eof
    THEN No_retirement_cycle(fed)
    ELSE The({Ends_primitive(fed, done) : done \in {Execute(fed, i)}})

Step_primitive(n, i) ==
    The({Starts_primitive(fed, i, Required(n, i)) : fed \in {Refill(n, Required(n, i))}})

Step_instruction(n, i) ==
    CASE i.op \in Control -> Step_control(n, i)
      [] i.op \in Scalar -> Goes(Scalar_effect(n, i), n.pc + 1)
      [] i.op \in Transport -> Step_transport(n, i)
      [] i.op \in Kernel -> Step_kernel(n, i)
      [] OTHER -> Step_primitive(n, i)

Step_machine(n) ==
    LET i == Word(job.program, n.pc)
    IN  IF n.kernel_fault # 0 THEN Trap([n EXCEPT !.kernel_fault = 0], n.kernel_fault)
        ELSE IF n.transport_fault # 0 THEN Trap([n EXCEPT !.transport_fault = 0], n.transport_fault)
        ELSE IF ~Validate_instruction(i, job.target) THEN Trap(n, 1)
        ELSE IF n.retired >= job.entry.max_retired THEN Trap(n, 8)
        ELSE IF ~Predicate(n, i.pred)
             THEN IF n.pc = job.entry.last THEN Trap(n, 2) ELSE [Retire(n) EXCEPT !.pc = @ + 1]
        ELSE IF Pending_dependency(n, i) THEN No_retirement_cycle(n)
        ELSE Step_instruction(n, i)

------------------------------------------------------------------------------
(* The behaviours.                                                         *)

\* begin_entry: everything an earlier job left is gone.
Begin_entry(n, entry) ==
    [n EXCEPT !.pc = entry.entry, !.retired = 0, !.regs = [r \in Registers |-> 0],
              !.eq = FALSE, !.slt = FALSE, !.ult = FALSE, !.stack = <<>>,
              !.loops = [s \in Slots |-> NoLoop], !.watchdog = 0,
              !.kernel = <<>>, !.kernel_fault = 0, !.owed = {}, !.transport_fault = 0,
              !.mem = [a \in 0..(Scratch - 1) |-> Stale], !.infifo = <<>>, !.outfifo = <<>>,
              !.bits = <<>>, !.bitpos = 0, !.eof = FALSE, !.kernel_done = FALSE,
              !.dma = <<>>, !.cursor = 0, !.output = <<>>, !.frames = 0, !.logical_in = 0,
              !.logical_out = 0, !.result = <<0, 0, 0>>, !.events = {}]

\* abort: only the units and what they had in flight.
Abort(n) ==
    [n EXCEPT !.kernel = <<>>, !.kernel_fault = 0, !.owed = {}, !.transport_fault = 0,
              !.dma = <<>>, !.watchdog = 0,
              !.mem = [a \in 0..(Scratch - 1) |-> Stale], !.infifo = <<>>, !.outfifo = <<>>,
              !.bits = <<>>, !.bitpos = 0, !.eof = FALSE, !.kernel_done = FALSE]

Blank == [pc |-> 0, retired |-> 0, regs |-> [r \in Registers |-> 0], eq |-> FALSE, slt |-> FALSE,
          ult |-> FALSE, stack |-> <<>>, loops |-> [s \in Slots |-> NoLoop], watchdog |-> 0,
          kernel |-> <<>>, kernel_fault |-> 0, owed |-> {}, transport_fault |-> 0,
          mem |-> [a \in 0..(Scratch - 1) |-> Stale], infifo |-> <<>>, outfifo |-> <<>>,
          bits |-> <<>>, bitpos |-> 0, eof |-> FALSE, kernel_done |-> FALSE, dma |-> <<>>, cursor |-> 0,
          output |-> <<>>, frames |-> 0, logical_in |-> 0, logical_out |-> 0,
          result |-> <<0, 0, 0>>, events |-> {}, status |-> "run", reason |-> 0, fetch |-> Fetch]

\* An entry over the whole program, with the mask its instructions need.
EntryOf(program, target) ==
    [first |-> 0, entry |-> 0, last |-> Len(program) - 1, max_loop |-> MaxLoop,
     max_retired |-> MaxRetired, scratch |-> IF target = "p3" THEN 0 ELSE Scratch,
     mask |-> UNION {Instruction_required_mask(program[k]) : k \in 1..Len(program)}]

Jobs(scene) ==
    {j \in {LET program == Assemble(scene.prelude \o s \o scene.tail, l)
            IN  [target |-> scene.target, source |-> scene.prelude \o s \o scene.tail, labels |-> l,
                 program |-> program, entry |-> EntryOf(program, scene.target), latency |-> 1,
                 stream |-> scene.stream] :
                s \in [1..scene.length -> {line \in scene.menu : Well_formed(line)}],
                l \in scene.labels} :
        Build_apumc(j.program, j.entry, j.target)}

Init == /\ \E scene \in Scenes : \E j \in Jobs(scene), l \in scene.latencies :
               job = [j EXCEPT !.latency = l]
        /\ m = Begin_entry(Blank, job.entry)
        /\ restarts = 0

\* run: the fetch of an instruction takes cycles without retirement.
Fetch_cycle == /\ m.status = "run" /\ m.fetch > 0
               /\ m' = LET n == No_retirement_cycle(Tick(m)) IN [n EXCEPT !.fetch = @ - 1]
               /\ UNCHANGED <<job, restarts>>

Step == /\ m.status = "run" /\ m.fetch = 0
        /\ \E n \in {Tick(m)} : m' = Step_machine(n)
        /\ UNCHANGED <<job, restarts>>

\* The job is abandoned, or over, and the same entry begins again.
Restart == /\ restarts < MaxRestarts
           /\ restarts' = restarts + 1
           /\ m' = [Begin_entry(Abort(m), job.entry) EXCEPT !.status = "run", !.reason = 0,
                                                            !.fetch = Fetch]
           /\ UNCHANGED job

Next == Fetch_cycle \/ Step \/ Restart

Spec == Init /\ [][Next]_vars /\ WF_vars(Fetch_cycle \/ Step)

------------------------------------------------------------------------------
(* The program as its author reads it: labels are places, and each         *)
(* instruction has had its whole effect before the next one starts.        *)

Final(n) == [status |-> n.status, regs |-> n.regs, mem |-> n.mem, output |-> n.output,
             frames |-> n.frames, result |-> n.result, events |-> n.events]

\* The machine with its DMA command or kernel finished.
Settled(n) ==
    LET k == IF n.kernel = <<>> THEN n ELSE Complete_kernel(n)
        d == IF k.dma = <<>> THEN k ELSE Deliver([k EXCEPT !.dma = <<>>], k.dma[1])
    IN  IF d.kernel_fault # 0 \/ d.transport_fault # 0 THEN [d EXCEPT !.status = "trap"] ELSE d

\* Where the source goes on: the counter of a branch is that of its label.
Reads_on(n, line, next) ==
    CASE line.op \in {"jump_fwd", "call_fwd"} /\ next.status = "run" /\ Predicate(n, line.pred) ->
           [next EXCEPT !.pc = job.labels[line.to]]
      [] line.op = "loop_back" /\ next.status = "run" /\ next.loops[line.args[1]].count # 0 ->
           [next EXCEPT !.pc = job.labels[line.to]]
      [] OTHER -> next

\* One line read, n to what it leaves; a line that never takes effect is a wait in vain.
Read_line(n) ==
    LET line == Word(job.source, n.pc)
    IN  IF n.retired >= MaxRetired THEN Trap(n, 8)
        ELSE IF ~Predicate(n, line.pred) THEN [Retire(n) EXCEPT !.pc = @ + 1]
        ELSE The({IF next.retired = n.retired /\ next.status = "run"
                  THEN [n EXCEPT !.status = "stuck"]
                  ELSE Reads_on(n, line, next) :
                  next \in {Settled(step) : step \in {Step_instruction(n, Word(job.program, n.pc))}}})

RECURSIVE Reading(_)
Reading(n) == IF n.status # "run" THEN n ELSE The({Reading(next) : next \in {Read_line(n)}})

\* Programs that ask how far a unit has come may depend on its speed.
Timed == \E k \in 1..Len(job.program) :
            job.program[k].pred \in {"input_ready", "kernel_done", "transport_done"}

------------------------------------------------------------------------------
(* Properties.                                                             *)

\* The machine is well formed: the registers the sequencer protects are those
\* of the commands in flight, and a kernel and a DMA command are never in
\* flight together.
TypeOK ==
    /\ m.regs \in [Registers -> Word_range] /\ m.mem \in [0..(Scratch - 1) -> 0..Stale]
    /\ m.status \in {"run", "done", "trap"} /\ m.pc \in 0..(Len(job.program) - 1)
    /\ m.owed = {m.dma[k].dst : k \in 1..Len(m.dma)}
    /\ Len(m.kernel) + Len(m.dma) <= 1
    /\ Len(m.infifo) <= Depth /\ Len(m.outfifo) <= Depth /\ Len(m.output) <= Capacity
    /\ Len(m.stack) <= CallDepth /\ m.fetch \in 0..Fetch

\* What the image checks promise: an accepted program never meets an invalid
\* instruction, leaves its range, overflows or underflows the return stack,
\* or branches back to a loop that is not its own.
ControlIsSafe ==
    m.status = "trap" =>
        LET i == Word(job.program, m.pc)
        IN  /\ m.reason \notin {2, 3}
            /\ m.reason = 1 => i.op = "job_result"
            /\ m.reason = 4 => i.op = "loop_setup" /\ m.loops[i.aux].count = 0

\* The most cycles an instruction keeps the sequencer for.
Keeps(i) == CASE i.op = "refill" -> 3
              [] i.op = "ld32" -> 2
              [] i.op = "unary" -> 2 + i.imm
              [] i.op \in {"rice4", "rice5"} -> 3 + MaxQuotient
              [] i.op = "sign_restore" -> 4
              [] OTHER -> 1

\* All stalls count toward the watchdog: a unit or the fetch, and then the
\* instruction that waited for it, may together take longer than it allows.
Overtime ==
    \E wait \in {Fetch + 1} \cup {IF i.op \in Kernel THEN Kernel_cycles(i) ELSE job.latency :
                                i \in {x \in Range(job.program) :
                                          x.op \in Kernel \cup Output_ops \cup {"input_refill"}}} :
        wait + Keeps(Word(job.program, m.pc)) >= Timeout + 2

\* However long kernels and DMA take, a job that ends in END ends as its
\* author reads the program, with the same registers, memory and output, and
\* a job that traps, the watchdog aside, traps as it is read too. The
\* watchdog ends only a job that waits for what never comes, or one whose
\* units and instructions may take longer than it allows.
Exact ==
    (m.status # "run" /\ ~Timed) =>
        \E read \in {Reading(Begin_entry(Blank, job.entry))} :
            /\ m.status = "done" => Final(m) = Final(read)
            /\ (m.status = "trap" /\ m.reason # 7) => read.status # "done"
            /\ (m.status = "trap" /\ m.reason = 7) => read.status = "stuck" \/ Overtime

\* Every accepted job ends: in END, in a trap, or by the watchdog.
Ends == []<>(m.status # "run")
==============================================================================
