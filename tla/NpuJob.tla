-------------------------------- MODULE NpuJob ------------------------------
(***************************************************************************)
(* From a model graph to an executed NPU job: compile_model places the     *)
(* lowered operators of npu_compiler_p0.py in the arena and emits their    *)
(* descriptors, _self_check relocates and validates them, and              *)
(* npu_executor.py runs them over the arena, the packed weights and the    *)
(* parameter records.                                                      *)
(*                                                                         *)
(* A byte of memory holds the name of the value that belongs there: <<t,   *)
(* i>> is element i (rows, columns, channels) of tensor t, <<"weight", t,  *)
(* i>> the i-th value of the weights of operator t as the model file       *)
(* stores them.  A computed element is the record of what was accumulated, *)
(* in order: overflow of the accumulator is checked at every addition, so  *)
(* the order is part of the result.                                        *)
(***************************************************************************)
EXTENDS NpuLowering, SequencesExt

CONSTANTS Scenes          \* [input, menu, depth]: which graphs are built

VARIABLES scene,
          graph,          \* operators, in graph order
          phase,          \* graph, place, check, run, done; rejected, internal, fault
          at,             \* operator or descriptor being handled
          plans,
          free,           \* _Arena._free, blocks sorted by offset
          high,           \* _Arena._high
          alloc,          \* tensor -> its place and the operator that retires it
          descriptors,    \* emitted templates, each with its relocations
          weights, params,\* the packed regions
          producer,       \* tensor -> the descriptor that computes it
          mem,            \* the arena while the job runs
          layer           \* the elements the last descriptor computed

compiler == <<plans, free, high, alloc, descriptors, weights, params, producer>>
vars == <<scene, graph, phase, at, compiler, mem, layer>>

Zero == <<"zero">>
NoPlan == <<>>
Shape(t) == IF t = 0 THEN scene.input ELSE graph[t].out
Src(i) == Shape(graph[i].ins[1])
Src1(i) == Shape(Last(graph[i].ins))

-----------------------------------------------------------------------------
(* The model file: any graph over the scene's menu of operators, each      *)
(* reading tensors that exist.  An item with `off` declares an output      *)
(* shape that its padding does not give.                                   *)
Extent(item, n, kernel, stride) ==
    IF item.padding = "SAME" THEN CeilDiv(n, stride) ELSE (n - kernel) \div stride + 1

OutShape(item, src) ==
    CASE item.op \in {"CONV_2D", "DEPTHWISE_CONV_2D"} \cup Pools ->
            [h |-> Extent(item, src.h, item.kh, item.sh) + item.off,
             w |-> Extent(item, src.w, item.kw, item.sw),
             c |-> IF item.op = "CONV_2D" THEN item.c ELSE src.c, q |-> src.q]
      [] item.op = "FULLY_CONNECTED" -> [h |-> 1, w |-> 1, c |-> item.c, q |-> src.q]
      [] item.op = "RESHAPE" -> [h |-> 1, w |-> 1, c |-> Bytes(src), q |-> src.q]
      [] OTHER -> src

AddOperator(item, ins) ==
    LET src == Shape(ins[1])
        out == OutShape(item, src)
    IN  /\ phase = "graph" /\ Len(graph) < scene.depth
        /\ out.h > 0 /\ out.w > 0
        /\ graph' = Append(graph, [op |-> item.op, ins |-> ins, out |-> out,
                                   kh |-> item.kh, kw |-> item.kw, sh |-> item.sh, sw |-> item.sw,
                                   padding |-> item.padding])
        /\ UNCHANGED <<scene, phase, at, compiler, mem, layer>>

Build ==
    \E item \in scene.menu, a, b \in 0..Len(graph) :
        /\ item.op = "ADD" => a <= b
        /\ item.op # "ADD" => a = b
        /\ AddOperator(item, IF item.op = "ADD" THEN <<a, b>> ELSE <<a>>)

-----------------------------------------------------------------------------
(* _Arena *)
aligned(size) == CeilDiv(size, Alignment) * Alignment

alloc_block(size) ==
    LET need == aligned(size)
        fits == {i \in DOMAIN free : free[i].size >= need}
        i == Min(fits)
        block == free[i]
    IN  IF fits = {} THEN [off |-> high, free |-> free, high |-> high + need]
        ELSE [off |-> block.off, high |-> high,
              free |-> IF block.size = need THEN RemoveAt(free, i)
                       ELSE [free EXCEPT ![i] = [off |-> @.off + need, size |-> @.size - need]]]

free_block(blocks, off, size) ==
    LET merge(merged, block) ==
            IF merged # <<>> /\ Last(merged).off + Last(merged).size = block.off
            THEN [merged EXCEPT ![Len(merged)].size = @ + block.size]
            ELSE Append(merged, block)
    IN  FoldLeft(merge, <<>>, SortSeq(Append(blocks, [off |-> off, size |-> aligned(size)]),
                                      LAMBDA x, y : x.off < y.off))

append_aligned(region, payload) ==
    LET pad == (-Len(region)) % Alignment
    IN  region \o [i \in 1..pad |-> Zero] \o payload

(* last_use: the last operator that reads a tensor; a tensor nobody reads  *)
(* lives to the end.                                                       *)
last_use(t) ==
    LET readers == {i \in DOMAIN graph : t \in Range(graph[i].ins)}
    IN  IF readers = {} THEN Len(graph) + 1 ELSE Max(readers)

pinned == Len(graph) + 2

(* Mutant: the tensors that share the block through a reshape are forgotten. *)
MutFreeConsumed(state, t, i) ==
    IF t \notin DOMAIN state.alloc \/ state.alloc[t].last > i THEN state
    ELSE [free |-> free_block(state.free, state.alloc[t].off, state.alloc[t].bytes),
          alloc |-> [x \in DOMAIN state.alloc \ {t} |-> state.alloc[x]]]

(* free_consumed: a block goes back once no tensor that shares it (through *)
(* reshapes) is needed after operator i.                                   *)
free_consumed(state, t, i) ==
    LET aliases == {x \in DOMAIN state.alloc : state.alloc[x].off = state.alloc[t].off}
    IN  IF t \notin DOMAIN state.alloc \/ \E x \in aliases : state.alloc[x].last > i
        THEN state
        ELSE [free |-> free_block(state.free, state.alloc[t].off, state.alloc[t].bytes),
              alloc |-> [x \in DOMAIN state.alloc \ aliases |-> state.alloc[x]]]

(* Mutant: the values are taken in channel-minor order. *)
MutPackDense(i, cout, k) ==
    [p \in 1..PackedDense(cout, k) |->
        LET channel == ((p - 1) \div (k * Lanes)) * Lanes + ((p - 1) % Lanes)
            kk == ((p - 1) % (k * Lanes)) \div Lanes
        IN  IF channel < cout THEN <<"weight", i, kk * cout + channel>> ELSE Zero]

(* _pack_dense_weights, _pack_depthwise_weights: lanes side by side. *)
pack_dense_weights(i, cout, k) ==
    [p \in 1..PackedDense(cout, k) |->
        LET group == (p - 1) \div (k * Lanes)
            lane == (p - 1) % Lanes
            channel == group * Lanes + lane
            kk == ((p - 1) % (k * Lanes)) \div Lanes
        IN  IF channel < cout THEN <<"weight", i, channel * k + kk>> ELSE Zero]

pack_depthwise_weights(i, cin) ==
    [p \in 1..PackedDepthwise(cin) |->
        LET channel == ((p - 1) \div (9 * Lanes)) * Lanes + ((p - 1) % Lanes)
            kk == ((p - 1) % (9 * Lanes)) \div Lanes
        IN  IF channel < cin THEN <<"weight", i, kk * cin + channel>> ELSE Zero]

pack_params(i, n) == [c \in 1..n |-> <<"param", i, c - 1>>]

(* Every operator is lowered before any is placed; one without a placement *)
(* ends the compilation.                                                   *)
Lower ==
    LET lowered == [i \in DOMAIN graph |-> lower_operator(graph[i], Src(i), Src1(i))]
        supported == /\ \A i \in DOMAIN graph : lowered[i] # {}
                     /\ \A i \in DOMAIN graph : graph[i].op = "SOFTMAX" => i = Len(graph)
        image == aligned(Bytes(scene.input))
    IN  /\ phase = "graph" /\ graph # <<>>
        /\ UNCHANGED <<scene, graph, descriptors, weights, params, producer, mem, layer>>
        /\ IF supported
           THEN /\ phase' = "place" /\ at' = 1
                /\ plans' = [i \in DOMAIN graph |-> CHOOSE p \in lowered[i] : TRUE]
                /\ high' = image /\ free' = <<>>
                /\ alloc' = 0 :> [off |-> 0, bytes |-> Bytes(scene.input), last |-> pinned]
           ELSE /\ phase' = "rejected"
                /\ UNCHANGED <<at, plans, high, free, alloc>>

(* Mutant: a reshape is attributed to the descriptor emitted last. *)
MutPlace_reshape ==
    LET from == graph[at].ins[1]
        retire == [alloc[from] EXCEPT !.last = Max({@, last_use(at)})]
    IN  /\ phase = "place" /\ at <= Len(graph) /\ plans[at].kind = "reshape"
        /\ alloc' = (from :> retire) @@ (at :> retire) @@ alloc
        /\ producer' = IF from \in DOMAIN producer THEN (at :> Len(descriptors)) @@ producer ELSE producer
        /\ at' = at + 1
        /\ UNCHANGED <<scene, graph, phase, plans, free, high, descriptors, weights, params, mem, layer>>

Place_reshape ==
    LET from == graph[at].ins[1]
        entry == alloc[from]
        retire == [entry EXCEPT !.last = Max({@, last_use(at)})]
    IN  /\ phase = "place" /\ at <= Len(graph) /\ plans[at].kind = "reshape"
        /\ alloc' = (from :> retire) @@ (at :> retire) @@ alloc
        /\ producer' = IF from \in DOMAIN producer THEN (at :> producer[from]) @@ producer ELSE producer
        /\ at' = at + 1
        /\ UNCHANGED <<scene, graph, phase, plans, free, high, descriptors, weights, params, mem, layer>>

Place_softmax ==
    LET after == free_consumed([free |-> free, alloc |-> alloc], graph[at].ins[1], at)
    IN  /\ phase = "place" /\ at <= Len(graph) /\ plans[at].kind = "softmax"
        /\ free' = after.free /\ alloc' = after.alloc
        /\ at' = at + 1
        /\ UNCHANGED <<scene, graph, phase, plans, high, descriptors, weights, params, producer, mem, layer>>

Relocations(plan) ==
    {"input0", "output"} \cup (IF plan.kind = "add" THEN {"input1"} ELSE {})
        \cup (IF plan.params > 0 THEN {"param"} ELSE {})
        \cup (IF plan.weights > 0 THEN {"weight"} ELSE {})

(* Place an operator: its output is allocated while its inputs still hold  *)
(* their blocks, which are freed only afterwards.                          *)
Place ==
    LET plan == plans[at]
        ins == graph[at].ins
        out == graph[at].out
        block == alloc_block(Bytes(out))
        packed == IF plan.weights = 0 THEN weights
                  ELSE append_aligned(weights, IF plan.kind = "depthwise3x3"
                                               THEN pack_depthwise_weights(at, out.c)
                                               ELSE pack_dense_weights(at, out.c, plan.full_k))
        records == IF plan.params = 0 THEN params ELSE append_aligned(params, pack_params(at, plan.params))
        placed == (at :> [off |-> block.off, bytes |-> Bytes(out), last |-> last_use(at)]) @@ alloc
        once == free_consumed([free |-> block.free, alloc |-> placed], ins[1], at)
        after == IF ins[1] = Last(ins) THEN once ELSE free_consumed(once, Last(ins), at)
    IN  /\ phase = "place" /\ at <= Len(graph) /\ plan.kind \notin {"reshape", "softmax"}
        /\ descriptors' = Append(descriptors,
               [template |-> emit_descriptor(plan, Shape(ins[1]), out, alloc[ins[1]].off, alloc[Last(ins)].off,
                                 block.off, Len(packed) - plan.weights, Len(records) - plan.params),
                relocs |-> Relocations(plan), op |-> at])
        /\ weights' = packed /\ params' = records
        /\ producer' = (at :> Len(descriptors) + 1) @@ producer
        /\ high' = block.high /\ free' = after.free /\ alloc' = after.alloc
        /\ at' = at + 1
        /\ UNCHANGED <<scene, graph, phase, plans, mem, layer>>

-----------------------------------------------------------------------------
(* The regions of a finalized job. *)
Base == [arena |-> 1000 * Alignment, weights |-> 2000 * Alignment,
         params |-> 3000 * Alignment, descriptors |-> 4000 * Alignment]
DescriptorBytes == 2 * Alignment
Table == [base |-> Base.descriptors, bytes |-> Len(descriptors) * DescriptorBytes]

RegionOf(field) == CASE field = "weight" -> "weights" [] field = "param" -> "params" [] OTHER -> "arena"

relocate(d) ==
    [f \in DOMAIN d.template |->
        IF f \in d.relocs THEN [d.template[f] EXCEPT !.base = @ + Base[RegionOf(f)]] ELSE d.template[f]]

(* The tensor the job's result is read from. *)
Output == Len(graph)
SourceTensor == IF plans[Output].kind = "softmax" THEN graph[Output].ins[1] ELSE Output
Source == relocate(descriptors[producer[SourceTensor]])

self_check ==
    \A i \in DOMAIN descriptors : validate_descriptor(relocate(descriptors[i]), Table)

Finish_compile ==
    /\ phase = "place" /\ at > Len(graph)
    /\ phase' = IF SourceTensor \notin DOMAIN producer THEN "rejected"
                ELSE IF self_check THEN "check" ELSE "internal"
    /\ UNCHANGED <<scene, graph, at, compiler, mem, layer>>

(* Mutant: the arena is sized before its last block is counted. *)
MutLoad ==
    /\ phase = "check"
    /\ mem' = [i \in 1..(high - Alignment) |-> IF i <= Bytes(scene.input) THEN <<0, i - 1>> ELSE Zero]
    /\ phase' = IF self_check THEN "run" ELSE "fault"
    /\ at' = 1
    /\ UNCHANGED <<scene, graph, compiler, layer>>

(* execute_job: fresh regions, the input image at its place, and every     *)
(* descriptor validated again before the first one runs.                   *)
Load ==
    /\ phase = "check"
    /\ mem' = [i \in 1..high |-> IF i <= Bytes(scene.input) THEN <<0, i - 1>> ELSE Zero]
    /\ phase' = IF self_check THEN "run" ELSE "fault"
    /\ at' = 1
    /\ UNCHANGED <<scene, graph, compiler, layer>>

(* _Memory *)
Regions == [arena |-> mem, weights |-> weights, params |-> params]
Locate(addr, size) ==
    {r \in DOMAIN Regions : Base[r] <= addr /\ addr + size <= Base[r] + Len(Regions[r])}
Mapped(addr, size) == size = 0 \/ Locate(addr, size) # {}
Read(addr, size) ==
    LET r == CHOOSE r \in Locate(addr, size) : TRUE
    IN  IF size = 0 THEN <<>> ELSE SubSeq(Regions[r], addr - Base[r] + 1, addr - Base[r] + size)

(* The order of a reduction cut into slices. *)
Slices(full, slice) ==
    FlattenSeq([s \in 1..CeilDiv(full, slice) |->
                  [j \in 1..Least(slice, full - (s - 1) * slice) |-> (s - 1) * slice + j - 1]])

(* Positions tile by tile. *)
Tiles(d) ==
    {<<ty, tx>> \in (0..(d.out.h - 1)) \X (0..(d.out.w - 1)) : ty % d.tile[1] = 0 /\ tx % d.tile[2] = 0}
Positions(d) ==
    UNION {LET rows == Least(d.tile[1], d.out.h - t[1])
               cols == Least(d.tile[2], d.out.w - t[2])
           IN  {<<t[1] + (p \div cols), t[2] + (p % cols)>> : p \in 0..(rows * cols - 1)} : t \in Tiles(d)}

Element(first, terms) == [first |-> first, terms |-> terms]
Inside(d, y, x) == y \in 0..(d.src.h - 1) /\ x \in 0..(d.src.w - 1)

(* An output block of `cells` bytes from what each position and channel    *)
(* writes at its place.                                                    *)
Written(d, value(_, _, _)) ==
    LET writes == {<<p, c>> : p \in Positions(d), c \in 0..(d.out.c - 1)}
        place(w) == w[1][1] * d.output.row + w[1][2] * d.out.c + w[2]
    IN  [i \in 0..(used_span(d.out.h, d.out.w, d.out.c, d.output.row) - 1) |->
            {value(w[1][1], w[1][2], w[2]) : w \in {x \in writes : place(x) = i}}]

Input(d) == Read(d.input0.base, used_span(d.src.h, d.src.w, d.src.c, d.input0.row))
Input1(d) == Read(d.input1.base, used_span(d.src.h, d.src.w, d.src.c, d.input1.row))

execute_dense(d) ==
    LET source == Input(d)
        packed == Read(d.weight.base, d.weight.bytes)
        records == Read(d.param.base, d.param.bytes)
        full == full_reduction(d)
        order == Slices(full, d.k_slice)
        row(oy, k) == oy * d.kernel[3] - d.pads[1] + (k \div (d.kernel[2] * d.src.c))
        col(ox, k) == ox * d.kernel[4] - d.pads[3] + ((k % (d.kernel[2] * d.src.c)) \div d.src.c)
        read(oy, ox, k) == source[row(oy, k) * d.input0.row + col(ox, k) * d.src.c + (k % d.src.c) + 1]
        value(oy, ox, c) ==
            LET ks == SelectSeq(order, LAMBDA k : Inside(d, row(oy, k), col(ox, k)))
                weight(k) == packed[(c \div Lanes) * full * Lanes + (c % Lanes) + k * Lanes + 1]
            IN  Element(records[c + 1], [j \in DOMAIN ks |-> <<read(oy, ox, ks[j]), weight(ks[j])>>])
    IN  Written(d, value)

execute_depthwise(d) ==
    LET source == Input(d)
        packed == Read(d.weight.base, d.weight.bytes)
        records == Read(d.param.base, d.param.bytes)
        order == Slices(9, d.k_slice)
        row(oy, k) == oy * d.kernel[3] - d.pads[1] + (k \div 3)
        col(ox, k) == ox * d.kernel[4] - d.pads[3] + (k % 3)
        value(oy, ox, c) ==
            LET ks == SelectSeq(order, LAMBDA k : Inside(d, row(oy, k), col(ox, k)))
                read(k) == source[row(oy, k) * d.input0.row + col(ox, k) * d.src.c + c + 1]
                weight(k) == packed[(c \div Lanes) * 9 * Lanes + k * Lanes + (c % Lanes) + 1]
            IN  Element(records[c + 1], [j \in DOMAIN ks |-> <<read(ks[j]), weight(ks[j])>>])
    IN  Written(d, value)

execute_global_average_pool(d) ==
    LET source == Input(d)
        order == Slices(d.src.h * d.src.w, d.k_slice)
        value(oy, ox, c) ==
            Element(Zero, [j \in DOMAIN order |->
                source[(order[j] \div d.src.w) * d.input0.row + (order[j] % d.src.w) * d.src.c + c + 1]])
    IN  Written(d, value)

execute_add(d) ==
    LET in0 == Input(d)
        in1 == Input1(d)
        records == Read(d.param.base, d.param.bytes)
        value(y, x, c) ==
            Element(records, <<in0[y * d.input0.row + x * d.src.c + c + 1],
                               in1[y * d.input1.row + x * d.src.c + c + 1]>>)
    IN  Written(d, value)

(* _execute_pool and _execute_clamp hand the tensor they read to the       *)
(* reference functions and write the packed result.                        *)
activation_tensor(d) ==
    LET raw == Input(d)
    IN  [y \in 0..(d.src.h - 1), x \in 0..(d.src.w - 1), c \in 0..(d.src.c - 1) |->
            raw[y * d.input0.row + x * d.src.c + c + 1]]

Pooled(kernel, pad, h, w, oy, ox, c, value_at(_, _, _)) ==
    FlattenSeq([i \in 1..kernel[1] |->
        LET y == oy * kernel[3] + i - 1 - pad[1]
            x(j) == ox * kernel[4] + j - 1 - pad[3]
            cols == SelectSeq([j \in 1..kernel[2] |-> j], LAMBDA j : x(j) \in 0..(w - 1))
        IN  IF y \in 0..(h - 1) THEN [j \in DOMAIN cols |-> value_at(y, x(cols[j]), c)] ELSE <<>>])

execute_pool(d) ==
    LET tensor == activation_tensor(d)
        value_at(y, x, c) == tensor[y, x, c]
        value(oy, ox, c) ==
            Element(Zero, Pooled(d.kernel, d.pads, d.src.h, d.src.w, oy, ox, c, value_at))
    IN  Written(d, value)

execute_clamp(d) ==
    LET tensor == activation_tensor(d)
        value(y, x, c) == Element(Zero, <<tensor[y, x, c]>>)
    IN  Written(d, value)

execute_validated(d) ==
    CASE d.op \in {"conv2d", "fully_connected"} -> execute_dense(d)
      [] d.op = "depthwise3x3" -> execute_depthwise(d)
      [] d.op = "global_average_pool" -> execute_global_average_pool(d)
      [] d.op = "add" -> execute_add(d)
      [] d.op \in {"max_pool", "average_pool"} -> execute_pool(d)
      [] d.op = "clamp" -> execute_clamp(d)

Reachable(d) ==
    /\ Mapped(d.input0.base, used_span(d.src.h, d.src.w, d.src.c, d.input0.row))
    /\ d.op = "add" => Mapped(d.input1.base, used_span(d.src.h, d.src.w, d.src.c, d.input1.row))
    /\ Mapped(d.weight.base, d.weight.bytes) /\ Mapped(d.param.base, d.param.bytes)
    /\ Mapped(d.output.base, used_span(d.out.h, d.out.w, d.out.c, d.output.row))

Run ==
    LET d == relocate(descriptors[at])
        first == d.output.base - Base.arena
    IN  /\ phase = "run" /\ at <= Len(descriptors)
        /\ IF Reachable(d)
           THEN /\ layer' = execute_validated(d)
                /\ mem' = [i \in DOMAIN mem |->
                             IF i - 1 - first \in DOMAIN layer' THEN <<descriptors[at].op, i - 1 - first>>
                             ELSE mem[i]]
                /\ phase' = phase /\ at' = at + 1
           ELSE /\ phase' = "fault"
                /\ UNCHANGED <<layer, mem, at>>
        /\ UNCHANGED <<scene, graph, compiler>>

(* The end of the job: a terminal softmax, or the firmware, reads the      *)
(* result from the arena.                                                  *)
Done ==
    /\ phase = "run" /\ at > Len(descriptors)
    /\ phase' = IF Mapped(Source.output.base, Source.output.bytes) THEN "done" ELSE "fault"
    /\ UNCHANGED <<scene, graph, at, compiler, mem, layer>>

Init ==
    /\ scene \in Scenes
    /\ graph = <<>> /\ phase = "graph" /\ at = 0
    /\ plans = NoPlan /\ free = <<>> /\ high = 0 /\ alloc = <<>>
    /\ descriptors = <<>> /\ weights = <<>> /\ params = <<>> /\ producer = <<>>
    /\ mem = <<>> /\ layer = <<>>

Next ==
    \/ Build \/ Lower
    \/ Place_reshape \/ Place_softmax \/ Place
    \/ Finish_compile \/ Load \/ Run \/ Done

Spec == Init /\ [][Next]_vars

-----------------------------------------------------------------------------
(* The reference: npu_reference.py's loops over the graph's tensors, with  *)
(* the values of a reshape those of its source.                            *)
RECURSIVE Origin(_)
Origin(t) == IF t # 0 /\ graph[t].op = "RESHAPE" THEN Origin(graph[t].ins[1]) ELSE t

value_of(t, y, x, c) == <<Origin(t), (y * Shape(t).w + x) * Shape(t).c + c>>
ParamOf(i, c) == <<"param", i, c>>
WeightOf(i, n) == <<"weight", i, n>>

conv2d(i, oy, ox, c) ==
    LET op == graph[i]
        src == Src(i)
        pad == Pads(op, src)
        ih(kh) == oy * op.sh + kh - pad[1]
        iw(kw) == ox * op.sw + kw - pad[3]
        row(kh) == FlattenSeq([w \in 1..op.kw |->
            IF iw(w - 1) \in 0..(src.w - 1)
            THEN [n \in 1..src.c |->
                    <<value_of(op.ins[1], ih(kh), iw(w - 1), n - 1),
                      WeightOf(i, c * op.kh * op.kw * src.c + (kh * op.kw + w - 1) * src.c + n - 1)>>]
            ELSE <<>>])
    IN  Element(ParamOf(i, c),
                FlattenSeq([h \in 1..op.kh |-> IF ih(h - 1) \in 0..(src.h - 1) THEN row(h - 1) ELSE <<>>]))

depthwise_conv2d(i, oy, ox, c) ==
    LET op == graph[i]
        src == Src(i)
        pad == Pads(op, src)
        ih(kh) == oy * op.sh + kh - pad[1]
        iw(kw) == ox * op.sw + kw - pad[3]
        cols == SelectSeq([w \in 1..op.kw |-> w - 1], LAMBDA w : iw(w) \in 0..(src.w - 1))
        row(kh) == [j \in DOMAIN cols |->
                      <<value_of(op.ins[1], ih(kh), iw(cols[j]), c),
                        WeightOf(i, (kh * op.kw + cols[j]) * src.c + c)>>]
    IN  Element(ParamOf(i, c),
                FlattenSeq([h \in 1..op.kh |-> IF ih(h - 1) \in 0..(src.h - 1) THEN row(h - 1) ELSE <<>>]))

fully_connected(i, c) ==
    LET n == Src(i).c
    IN  Element(ParamOf(i, c),
                [k \in 1..n |-> <<value_of(graph[i].ins[1], 0, 0, k - 1), WeightOf(i, c * n + k - 1)>>])

ref_pool(i, oy, ox, c) ==
    LET op == graph[i]
        value_at(y, x, ch) == value_of(op.ins[1], y, x, ch)
    IN  Element(Zero, Pooled(Kernel(op), Pads(op, Src(i)), Src(i).h, Src(i).w, oy, ox, c, value_at))

global_average_pool(i, c) ==
    LET src == Src(i)
    IN  Element(Zero, FlattenSeq([h \in 1..src.h |->
                        [w \in 1..src.w |-> value_of(graph[i].ins[1], h - 1, w - 1, c)]]))

add(i, y, x, c) ==
    Element(pack_params(i, 2), <<value_of(graph[i].ins[1], y, x, c), value_of(graph[i].ins[2], y, x, c)>>)

clamp(i, y, x, c) == Element(Zero, <<value_of(graph[i].ins[1], y, x, c)>>)

evaluate_reference(i, y, x, c) ==
    LET op == graph[i]
    IN  CASE op.op = "CONV_2D" -> conv2d(i, y, x, c)
          [] op.op = "DEPTHWISE_CONV_2D" -> depthwise_conv2d(i, y, x, c)
          [] op.op = "FULLY_CONNECTED" -> fully_connected(i, c)
          [] op.op = "ADD" -> add(i, y, x, c)
          [] op.op \in Pools -> IF plans[i].kind = "global_average_pool" THEN global_average_pool(i, c)
                                ELSE ref_pool(i, y, x, c)
          [] op.op \in {"RELU", "RELU6"} -> clamp(i, y, x, c)

-----------------------------------------------------------------------------
Phases == {"graph", "place", "check", "run", "done", "rejected", "internal", "fault"}

(* Every variable keeps its type; in particular the free list of the arena *)
(* stays sorted, without empty, touching or overlapping blocks, whatever   *)
(* is allocated and freed.                                                 *)
TypeOK ==
    /\ scene \in Scenes /\ phase \in Phases /\ at \in 0..(scene.depth + 1)
    /\ Len(graph) <= scene.depth
    /\ DOMAIN alloc \subseteq 0..Len(graph) /\ DOMAIN producer \subseteq 1..Len(graph)
    /\ high \in Nat
    /\ \A i \in DOMAIN free : free[i].size > 0 /\ free[i].off + free[i].size <= high
    /\ \A i \in 1..(Len(free) - 1) : free[i].off + free[i].size < free[i + 1].off

(* No two tensors that are both still needed share bytes of the arena      *)
(* unless one is a reshape of the other, and none lies on a free block.    *)
LiveDisjoint ==
    LET Block(t) == alloc[t].off..(alloc[t].off + Bytes(Shape(t)) - 1)
    IN  \A t \in DOMAIN alloc :
          /\ \A u \in DOMAIN alloc : Origin(t) # Origin(u) => Block(t) \cap Block(u) = {}
          /\ \A i \in DOMAIN free : Block(t) \cap (free[i].off..(free[i].off + free[i].size - 1)) = {}

(* What the compiler lowers its own validator accepts, and a job that it   *)
(* delivers runs without a fault: every operand of every descriptor lies   *)
(* inside one region.  The "internal" failure of _self_check is left for   *)
(* the two limits that lowering does not look at: tensors past the         *)
(* dimension limit, and convolutions past the kernel limit.                *)
TooLarge(t) == t.h > MaxDimension \/ t.w > MaxDimension \/ t.c > MaxDimension
TooWide(op) == op.op = "CONV_2D" /\ (op.kh > MaxKernel \/ op.kw > MaxKernel)

AcceptedRuns ==
    /\ phase # "fault"
    /\ phase = "internal" =>
        \E i \in DOMAIN graph : TooLarge(Src(i)) \/ TooLarge(graph[i].out) \/ TooWide(graph[i])

(* Every layer the executor computes from packed weights, tiles, slices    *)
(* and the bytes it finds in the arena accumulates exactly the terms of    *)
(* the reference evaluation of that operator, in the same order.           *)
LayerExact ==
    phase = "run" /\ at > 1 =>
        LET i == descriptors[at - 1].op
            out == graph[i].out
        IN  /\ DOMAIN layer = 0..(Bytes(out) - 1)
            /\ \A y \in 0..(out.h - 1), x \in 0..(out.w - 1), c \in 0..(out.c - 1) :
                  layer[(y * out.w + x) * out.c + c] = {evaluate_reference(i, y, x, c)}

(* When the job is done the arena still holds the graph's result at the    *)
(* offset the report and the firmware's finalizer read it from.            *)
OutputSurvives ==
    phase = "done" =>
        \A n \in 0..(Bytes(Shape(SourceTensor)) - 1) :
            mem[Source.output.base - Base.arena + n + 1] = <<Origin(SourceTensor), n>>
=============================================================================
