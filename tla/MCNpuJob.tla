------------------------------ MODULE MCNpuJob ------------------------------
(* Two kinds of graphs: short ones over every operator and geometry, and   *)
(* longer ones over small vectors, where the arena's blocks are reused.    *)
EXTENDS NpuJob

T(h, w, c) == [h |-> h, w |-> w, c |-> c, q |-> "q"]
Item(op, kh, kw, sh, sw, padding, c, off) ==
    [op |-> op, kh |-> kh, kw |-> kw, sh |-> sh, sw |-> sw, padding |-> padding, c |-> c, off |-> off]
Plain(op) == Item(op, 1, 1, 1, 1, "VALID", 0, 0)
FC(c) == Item("FULLY_CONNECTED", 1, 1, 1, 1, "VALID", c, 0)

Geometry ==
    {Item("CONV_2D", 2, 2, s, 1, p, 3, 0) : s \in {1, 2}, p \in {"SAME", "VALID"}}
        \cup {Item("CONV_2D", 1, 3, 1, 2, "SAME", 1, 0), Item("CONV_2D", 2, 2, 1, 1, "SAME", 1, 1),
              Item("CONV_2D", 2, 2, 3, 1, "VALID", 1, 0), Item("CONV_2D", 1, 4, 1, 1, "SAME", 1, 0),
              Item("MAX_POOL_2D", 1, 4, 1, 1, "SAME", 0, 0)}
        \cup {Item("DEPTHWISE_CONV_2D", 3, 3, s, 1, "SAME", 0, 0) : s \in {1, 2}}
        \cup {Item("MAX_POOL_2D", 2, 2, 2, 2, p, 0, 0) : p \in {"SAME", "VALID"}}
        \cup {Item("AVERAGE_POOL_2D", 3, 3, k, k, "VALID", 0, 0) : k \in {2, 3}}
        \cup {Plain("ADD"), Plain("RELU"), Plain("RESHAPE"), Plain("SOFTMAX"), FC(5), FC(9)}

Vectors == {Plain("ADD"), Plain("RELU6"), Plain("RESHAPE"), Plain("SOFTMAX"), FC(5), FC(2)}

MCScenes == {[input |-> T(3, 3, 2), menu |-> Geometry, depth |-> 2],
             [input |-> T(1, 1, 2), menu |-> Vectors, depth |-> 4]}
=============================================================================
