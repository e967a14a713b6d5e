---------------------------- MODULE MCApuMachine ----------------------------
(* Programs of four kinds: control flow with labels everywhere, scalar     *)
(* work beside a kernel, scalar work beside the DMA port, and coded bits.  *)
EXTENDS ApuMachine

To(op, label, pred) == [Line(op, <<>>) EXCEPT !.to = label, !.pred = pred]
Back(slot, label) == [Line("loop_back", <<slot>>) EXCEPT !.to = label]

Stop == <<Line("end", <<>>)>>

Branches ==
    [target |-> "p3", stream |-> FALSE, prelude |-> <<Line("movi", <<1, 2>>)>>, length |-> 4,
     menu |-> {Line("cmp", <<0, 0>>), Line("ret", <<>>), To("jump_fwd", "a", "always"),
               To("jump_fwd", "b", "eq"), To("call_fwd", "a", "always"),
               Line("loop_setup", <<0, 1>>), Line("loop_setup", <<0, 0>>), Back(0, "b"),
               Line("end", <<>>)},
     tail |-> Stop, labels |-> [{"a", "b"} -> 2..5], latencies |-> {1}]

Nested ==
    [target |-> "p3", stream |-> FALSE, prelude |-> <<Line("movi", <<1, 2>>)>>, length |-> 5,
     menu |-> {Line("loop_setup", <<0, 1>>), Line("nop", <<>>), Line("loop_setup", <<1, 1>>),
               Back(0, "a"), Back(1, "b")},
     tail |-> Stop, labels |-> [{"a", "b"} -> 2..4], latencies |-> {1}]

\* Scratch word 0 points at the history in word 1, which is also the input. The
\* kernel of order 2 takes longer than the watchdog allows.
Predict ==
    [target |-> "p4", stream |-> FALSE, length |-> 3,
     prelude |-> <<Line("movi", <<2, 1>>), Line("st32", <<1, 2, 0>>), Line("st32", <<2, 2, 0>>)>>,
     menu |-> {Line("fixed", <<3, 2, 1, 1, 2>>), Line("fixed", <<3, 2, 1, 2, 2>>), Line("fixed", <<3, 2, 1, 0, 1>>),
               Line("fixed", <<3, 2, 1, 1, 1>>), Line("movi", <<3, 2>>), Line("mov", <<1, 3>>),
               Line("add", <<2, 2, 3>>), Line("cmp", <<3, 2>>), Line("ld32", <<1, 3, 0>>),
               Line("st32", <<3, 2, 0>>), Line("wait", <<1>>), To("jump_fwd", "a", "eq"),
               To("jump_fwd", "a", "kernel_done"), Line("min", <<3, 3, 2, 1>>),
               Line("loop_setup", <<0, 3>>)},
     tail |-> <<Line("sat", <<0, 3, 1>>)>> \o Stop, labels |-> [{"a"} -> {5}],
     latencies |-> {1}]

\* The last line lacks an operand: the assembler refuses it. The slowest port
\* takes longer than the watchdog allows.
Stream ==
    [target |-> "p5", stream |-> FALSE, length |-> 3,
     prelude |-> <<Line("movi", <<1, 1>>), Line("movi", <<2, 2>>)>>,
     menu |-> {Line("input_refill", <<3, 1, 2>>), Line("output_commit", <<3, 1, 1>>),
               Line("dma_wait", <<3>>), Line("fifo_pop", <<0>>), Line("fifo_push", <<1, 2>>),
               Line("get", <<3, 4>>), Line("movi", <<3, 2>>), Line("mov", <<1, 3>>),
               Line("sub", <<2, 2, 3>>), Line("sub", <<2, 3>>)},
     tail |-> Stop, labels |-> [{} -> {}], latencies |-> {1, 5, 9}]

Refilled ==
    [Stream EXCEPT
        !.prelude = @ \o <<Line("input_refill", <<3, 1, 2>>)>>,
        !.menu = {Line("output_commit", <<3, 1, 1>>), Line("input_refill", <<3, 1, 2>>),
                  Line("frame_commit", <<1, 1>>), Line("refill", <<0, 2>>), Line("wait", <<0>>),
                  To("jump_fwd", "a", "transport_done"), Line("cmp", <<3, 2>>),
                  To("jump_fwd", "a", "input_exhausted"), Line("trap", <<0>>),
                  Line("job_result", <<3, 1, 0>>), Line("event", <<1>>)},
        !.labels = [{"a"} -> {5}]]

Streamed ==
    [Stream EXCEPT
        !.stream = TRUE, !.length = 2,
        !.menu = @ \cup {Line("output_stream", <<0, 1, 1>>), Line("wait", <<2>>),
                         Line("job_result", <<3, 1, 0>>), Line("movi", <<3, 7>>)}]

Coded ==
    [Stream EXCEPT
        !.prelude = @ \o <<Line("input_refill", <<3, 1, 2>>)>>,
        !.menu = {Line("input_refill", <<0, 1, 1>>), Line("unary", <<3, 1, 2>>),
                  Line("rice4", <<3, 0, 1>>), Line("rice5", <<3, 1, 2>>), Line("rice4", <<3, 1, 2>>),
                  Line("sign_restore", <<3, 2, 1>>), Line("sign_restore", <<3, 0, 1>>),
                  Line("peek", <<2, 2>>), Line("skip", <<2>>), Line("align", <<>>),
                  Line("mov", <<1, 3>>)},
        !.latencies = {5}]

\* The second channel of the pair is where the parameter says, in word 1.
Paired ==
    [Predict EXCEPT
        !.menu = {Line("stereo", <<3, 2, 1, 1, 1>>), Line("stereo", <<3, 1, 1, 2, 2>>),
                  Line("decorrelate", <<2, 2, 1, 3, 1>>), Line("decorrelate", <<3, 2, 1, 2, 1>>),
                  Line("mov", <<1, 3>>), Line("add", <<2, 2, 3>>), Line("movi", <<3, 2>>),
                  Line("ld32", <<1, 3, 0>>), Line("st32", <<3, 2, 0>>), Line("wait", <<1>>)}]

MCScenes == {Coded, Paired, Branches, Nested, Predict, Stream, Streamed, Refilled}
MCInput == <<5, 2, 7>>
=============================================================================
