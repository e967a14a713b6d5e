----------------------------- MODULE NpuLowering ----------------------------
(***************************************************************************)
(* The pure part of the NPU compiler: lowering one operator of a graph to  *)
(* a plan (scripts/npu_compiler_p0.py), the descriptor emitted for it, and *)
(* what the descriptor validator accepts (scripts/npu_descriptors.py).     *)
(* Arithmetic on values, scales and the wire encoding of words are left    *)
(* out; a tensor's scale and zero point are one value, its quantization.   *)
(***************************************************************************)
EXTENDS Integers, Sequences, FiniteSets, FiniteSetsExt

CONSTANTS Lanes,          \* channels packed side by side    (code: 8)
          MaxKSlice,      \* MAX_K_SLICE                     (code: 1024)
          TileW,          \* widest tile, in columns         (code: 4)
          MaxTile,        \* MAX_TILE, output positions      (code: 8)
          MaxDimension,   \* MAX_DIMENSION                   (code: 4096)
          MaxKernel,      \* kernel_max                      (code: 16)
          Alignment       \* ARENA_ALIGNMENT, BASE_ALIGNMENT (code: 64)

ASSUME NpuAssumption ==
    \A n \in {Lanes, MaxKSlice, TileW, MaxTile, MaxDimension, MaxKernel, Alignment} :
        n \in Nat \ {0}

CeilDiv(a, b) == (a + b - 1) \div b
Least(a, b) == IF a < b THEN a ELSE b
Bytes(t) == t.h * t.w * t.c

(* An operator: its kind, the tensors it reads (0 is the graph input, i    *)
(* the output of operator i), the shape and quantization of its output,    *)
(* and the kernel options.  The kind is the builtin operator of the model. *)
Weighted == {"CONV_2D", "DEPTHWISE_CONV_2D", "FULLY_CONNECTED"}
Pools == {"AVERAGE_POOL_2D", "MAX_POOL_2D"}

check_kernel_options(op) == op.sh \in {1, 2} /\ op.sw \in {1, 2}

same_axis(extent, kernel, stride) ==
    LET total == Max({(CeilDiv(extent, stride) - 1) * stride + kernel - extent, 0})
    IN  <<total \div 2, total - total \div 2>>

Pads(op, src) ==
    IF op.padding = "VALID" THEN <<0, 0, 0, 0>>
    ELSE same_axis(src.h, op.kh, op.sh) \o same_axis(src.w, op.kw, op.sw)

OutExtent(n, before, after, kernel, stride) == (n + before + after - kernel) \div stride + 1

(* _pads refuses an output shape that the padding and the kernel do not give. *)
pads(op, src) ==
    LET p == Pads(op, src)
    IN  /\ op.padding = "SAME" => op.out.h = CeilDiv(src.h, op.sh) /\ op.out.w = CeilDiv(src.w, op.sw)
        /\ OutExtent(src.h, p[1], p[2], op.kh, op.sh) = op.out.h
        /\ OutExtent(src.w, p[3], p[4], op.kw, op.sw) = op.out.w
        /\ p[1] < op.kh /\ p[2] < op.kh /\ p[3] < op.kw /\ p[4] < op.kw

(* A plan: kernel <<kh, kw, sh, sw>>, the full reduction and its slice, and *)
(* the sizes of the packed weights and parameters (0: none).                *)
Plan(kind, kernel, padding, full_k, weights, params) ==
    [kind |-> kind, kernel |-> kernel, pads |-> padding, full_k |-> full_k,
     k_slice |-> Least(MaxKSlice, full_k), weights |-> weights, params |-> params]

Kernel(op) == <<op.kh, op.kw, op.sh, op.sw>>
NoPads == <<0, 0, 0, 0>>
Unit == <<1, 1, 1, 1>>
PackedDense(cout, k) == CeilDiv(cout, Lanes) * k * Lanes
PackedDepthwise(cin) == CeilDiv(cin, Lanes) * 9 * Lanes
Same(a, b) == a.h = b.h /\ a.w = b.w /\ a.c = b.c

(* Lowering a convolution takes its kernel from the shape of the weights   *)
(* and does not bound it; the validator does.                              *)
lower_conv2d(op, src) ==
    LET k == op.kh * op.kw * src.c
    IN  IF check_kernel_options(op) /\ pads(op, src)
        THEN {Plan("conv2d", Kernel(op), Pads(op, src), k, PackedDense(op.out.c, k), op.out.c)}
        ELSE {}

lower_depthwise(op, src) ==
    IF /\ check_kernel_options(op)
       /\ op.kh = 3 /\ op.kw = 3 /\ op.out.c = src.c
       /\ pads(op, src)
    THEN {Plan("depthwise3x3", Kernel(op), Pads(op, src), 9, PackedDepthwise(src.c), src.c)}
    ELSE {}

lower_fully_connected(op, src) ==
    IF src.h = 1 /\ src.w = 1 /\ op.out.h = 1 /\ op.out.w = 1
    THEN {Plan("fully_connected", Unit, NoPads, src.c, PackedDense(op.out.c, src.c), op.out.c)}
    ELSE {}

lower_add(op, src, src1) ==
    IF Same(src, src1) /\ Same(src, op.out) THEN {Plan("add", Unit, NoPads, 1, 0, 2)} ELSE {}

lower_global_average_pool(op, src) ==
    {Plan("global_average_pool", <<0, 0, 0, 0>>, NoPads, src.h * src.w, 0, 0)}

(* An average pool over the whole image is a global one, whatever its      *)
(* kernel options.                                                         *)
lower_pool(op, src) ==
    IF op.out.q # src.q \/ op.out.c # src.c THEN {}
    ELSE IF /\ op.op = "AVERAGE_POOL_2D" /\ op.padding = "VALID"
            /\ op.out.h = 1 /\ op.out.w = 1
            /\ Kernel(op) = <<src.h, src.w, src.h, src.w>>
         THEN lower_global_average_pool(op, src)
    ELSE IF op.kh \in 1..MaxKernel /\ op.kw \in 1..MaxKernel /\ check_kernel_options(op) /\ pads(op, src)
         THEN {Plan(IF op.op = "MAX_POOL_2D" THEN "max_pool" ELSE "average_pool",
                    Kernel(op), Pads(op, src), op.kh * op.kw, 0, 0)}
    ELSE {}

lower_clamp(op, src) ==
    IF Same(src, op.out) /\ src.q = op.out.q THEN {Plan("clamp", Unit, NoPads, 1, 0, 0)} ELSE {}

lower_reshape(op, src) ==
    IF Bytes(src) = Bytes(op.out) /\ src.q = op.out.q
    THEN {Plan("reshape", <<0, 0, 0, 0>>, NoPads, 1, 0, 0)} ELSE {}

lower_softmax(op, src) ==
    IF Same(src, op.out) /\ \A n \in {src.h, src.w, src.c} : n \in 1..MaxDimension
    THEN {Plan("softmax", <<0, 0, 0, 0>>, NoPads, 1, 0, 0)} ELSE {}

lower_operator(op, src, src1) ==
    CASE op.op = "CONV_2D" -> lower_conv2d(op, src)
      [] op.op = "DEPTHWISE_CONV_2D" -> lower_depthwise(op, src)
      [] op.op = "FULLY_CONNECTED" -> lower_fully_connected(op, src)
      [] op.op = "ADD" -> lower_add(op, src, src1)
      [] op.op \in Pools -> lower_pool(op, src)
      [] op.op \in {"RELU", "RELU6"} -> lower_clamp(op, src)
      [] op.op = "RESHAPE" -> lower_reshape(op, src)
      [] op.op = "SOFTMAX" -> lower_softmax(op, src)

-----------------------------------------------------------------------------
used_span(h, w, c, row) == (h - 1) * row + w * c

(* _emit_descriptor.  Bases are offsets in their regions until relocated.  *)
emit_descriptor(plan, src, out, in_off, in1_off, out_off, weight_off, param_off) ==
    LET add == plan.kind = "add"
        span == used_span(src.h, src.w, src.c, src.w * src.c)
    IN  [op |-> plan.kind, src |-> src, out |-> out, kernel |-> plan.kernel, pads |-> plan.pads,
         tile |-> <<Least(2, out.h), Least(TileW, out.w)>>, k_slice |-> plan.k_slice,
         input0 |-> [base |-> in_off, row |-> src.w * src.c, bytes |-> span],
         input1 |-> IF add THEN [base |-> in1_off, row |-> src.w * src.c, bytes |-> span]
                    ELSE [base |-> 0, row |-> 0, bytes |-> 0],
         output |-> [base |-> out_off, row |-> out.w * out.c,
                     bytes |-> used_span(out.h, out.w, out.c, out.w * out.c)],
         weight |-> [base |-> IF plan.weights > 0 THEN weight_off ELSE 0, bytes |-> plan.weights],
         param |-> [base |-> IF plan.params > 0 THEN param_off ELSE 0, bytes |-> plan.params]]

(* The parts of validate_descriptor that geometry can break. *)
Kernels == {"conv2d", "depthwise3x3", "max_pool", "average_pool"}
WeightedKinds == {"conv2d", "depthwise3x3", "fully_connected"}

full_reduction(d) ==
    CASE d.op = "conv2d" -> d.kernel[1] * d.kernel[2] * d.src.c
      [] d.op = "depthwise3x3" -> 9
      [] d.op = "fully_connected" -> d.src.c
      [] d.op \in {"max_pool", "average_pool"} -> d.kernel[1] * d.kernel[2]
      [] d.op = "global_average_pool" -> d.src.h * d.src.w
      [] OTHER -> 1

check_structure(d) ==
    /\ d.tile[1] \in 1..MaxTile /\ d.tile[2] \in 1..MaxTile /\ d.tile[1] * d.tile[2] <= MaxTile
    /\ d.k_slice \in 1..MaxKSlice

check_unused_fields(d) ==
    /\ d.op # "add" => d.input1.base = 0 /\ d.input1.row = 0 /\ d.input1.bytes = 0
    /\ d.op \notin WeightedKinds => d.weight.base = 0 /\ d.weight.bytes = 0
    /\ d.op \notin WeightedKinds \cup {"add"} => d.param.base = 0 /\ d.param.bytes = 0
    /\ d.op = "global_average_pool" => d.kernel = <<0, 0, 0, 0>> /\ d.pads = NoPads

check_geometry(d) ==
    /\ \A n \in {d.src.h, d.src.w, d.src.c, d.out.c, d.out.h, d.out.w} : n \in 1..MaxDimension
    /\ d.op \in Kernels =>
         /\ d.pads[1] < d.kernel[1] /\ d.pads[2] < d.kernel[1]
         /\ d.pads[3] < d.kernel[2] /\ d.pads[4] < d.kernel[2]
         /\ d.out.h = OutExtent(d.src.h, d.pads[1], d.pads[2], d.kernel[1], d.kernel[3])
         /\ d.out.w = OutExtent(d.src.w, d.pads[3], d.pads[4], d.kernel[2], d.kernel[4])

check_kernel_stride(d) ==
    d.kernel[1] \in 1..MaxKernel /\ d.kernel[2] \in 1..MaxKernel /\ d.kernel[3] \in {1, 2} /\ d.kernel[4] \in {1, 2}

check_operator(d) ==
    /\ d.op \in Kernels => check_kernel_stride(d)
    /\ d.op = "depthwise3x3" => d.kernel[1] = 3 /\ d.kernel[2] = 3
    /\ d.op = "fully_connected" => d.src.h = 1 /\ d.src.w = 1 /\ d.out.h = 1 /\ d.out.w = 1
    /\ d.op \in {"fully_connected", "add", "clamp"} => d.kernel = Unit /\ d.pads = NoPads
    /\ d.op = "add" => d.input1.base > 0
    /\ d.op \in {"add", "clamp"} => d.out.h = d.src.h /\ d.out.w = d.src.w
    /\ d.op = "global_average_pool" => d.out.h = 1 /\ d.out.w = 1
    /\ d.op \notin {"conv2d", "fully_connected"} => d.out.c = d.src.c
    /\ d.op \in {"max_pool", "average_pool", "global_average_pool", "clamp"} => d.src.q = d.out.q
    /\ d.k_slice <= full_reduction(d)
    /\ d.tile[1] <= d.out.h /\ d.tile[2] <= d.out.w
    /\ d.op \in WeightedKinds =>
         /\ d.weight.base > 0 /\ d.param.base > 0 /\ d.param.bytes = d.out.c
         /\ d.weight.bytes = IF d.op = "depthwise3x3" THEN PackedDepthwise(d.src.c)
                             ELSE PackedDense(d.out.c, full_reduction(d))
    /\ d.op = "add" => d.param.base > 0 /\ d.param.bytes = 2

check_strides_and_spans(d) ==
    /\ d.input0.row >= d.src.w * d.src.c /\ d.output.row >= d.out.w * d.out.c
    /\ d.op = "add" => d.input1.row >= d.src.w * d.src.c
    /\ used_span(d.src.h, d.src.w, d.src.c, d.input0.row) <= d.input0.bytes
    /\ d.op = "add" => used_span(d.src.h, d.src.w, d.src.c, d.input1.row) <= d.input1.bytes
    /\ used_span(d.out.h, d.out.w, d.out.c, d.output.row) <= d.output.bytes

check_alignment(d) == d.param.base % Alignment = 0 /\ d.weight.base % Alignment = 0

Apart(a, b) == a.bytes = 0 \/ b.bytes = 0 \/ a.base + a.bytes <= b.base \/ b.base + b.bytes <= a.base

(* Only the two inputs of an ADD may overlap. *)
check_overlap(d, region) ==
    LET all == <<d.input0, d.output, d.input1, d.weight, d.param, region>>
    IN  \A i, j \in DOMAIN all : i < j /\ {i, j} # {1, 3} => Apart(all[i], all[j])

validate_descriptor(d, region) ==
    /\ check_structure(d) /\ check_unused_fields(d) /\ check_geometry(d) /\ check_operator(d)
    /\ check_strides_and_spans(d) /\ check_alignment(d) /\ check_overlap(d, region)
=============================================================================
