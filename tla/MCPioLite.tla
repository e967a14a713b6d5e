----------------------------- MODULE MCPioLite ------------------------------
(* Instances of PioLite: a flag handshake between the two state machines,  *)
(* the store with programs that come and go, and every program of at most  *)
(* two instructions over a small alphabet.                                 *)
EXTENDS PioLite

Shift(bits, right, auto) == [bits |-> bits, right |-> right, auto |-> auto]
Test(pin, flag) == [pin |-> pin, flag |-> flag]

Header(entry, bottom, top, in, out, set, tx, rx, test) ==
    <<Directive("entry", entry), Directive("wrap_bottom", bottom), Directive("wrap_top", top),
      Directive("in", in), Directive("out", out), Directive("set", set),
      Directive("tx_bits", tx), Directive("rx_bits", rx), Directive("test", test)>>

S(label, op, operand) == Statement(label, Encode(op, 0, operand), "")
B(label, sel, target) == Statement(label, Encode(BRANCH, 0, sel * 32), target)

None == Window(0, 0)
Bits2(right) == Shift(2, right, TRUE)

(* OUT PINS,1; FLAG SET 0; WAIT until it is clear. *)
Sender(right) ==
    Header("dir", "put", "ack", None, Window(0, 1), Window(0, 1), Bits2(right), Bits2(right), Test(NoPin, 0))
    \o <<S("dir", SET_DIR, 1), S("put", OUT_, 1), S("", FLAG, 128), S("ack", WAIT, 128)>>

(* WAIT until flag 0 is set; IN PINS,1; FLAG CLEAR 0. *)
Receiver(right) ==
    Header("see", "see", "ack", Window(0, 1), None, None, Bits2(right), Bits2(right), Test(NoPin, 0))
    \o <<S("see", WAIT, 192), S("", IN_, 1), S("ack", FLAG, 0)>>

Link(right, dividers, writes) ==
    [used |-> {1, 2}, ready |-> {<<Sender(right), Receiver(right)>>}, sources |-> {}, loads |-> 0, writes |-> writes, words |-> {1, 2},
     dividers |-> dividers, commands |-> {"none", "pause", "resume"}, inputs |-> {{}},
     loopback |-> TRUE, flags |-> {<<{}, {}>>}, link |-> TRUE]

(* A loop with a branch, a straight program and one with a bad label. *)
Blink(pin) ==
    Header("top", "top", "back", None, None, Window(pin, 1), Bits2(TRUE), Bits2(TRUE), Test(NoPin, 0))
    \o <<S("top", SET_DIR, 1), B("back", 0, "top")>>
Stop ==
    Header("stop", "stop", "stop", None, None, None, Bits2(TRUE), Bits2(TRUE), Test(NoPin, 0))
    \o <<S("stop", CTRL, 32)>>
Twice == Append(Blink(0), S("top", CTRL, 32))

Sharing ==
    [used |-> {1, 2}, ready |-> {<<>>}, sources |-> {Blink(0), Stop, Twice}, loads |-> 2, writes |-> 0, words |-> {1},
     dividers |-> {1}, commands |-> {"none", "disable"}, inputs |-> {{}}, loopback |-> FALSE,
     flags |-> {<<{}, {}>>}, link |-> FALSE]

(* Every instruction kind, at the edges of what validation accepts. *)
Alphabet ==
    <<S("b", CTRL, 32), S("b", CTRL, 64), S("b", CTRL, 96), S("b", SET_PIN, 3), S("b", SET_DIR, 3),
     S("b", SET_COUNT, 1), S("b", SET_COUNT, 129), S("b", IN_, 1), S("b", IN_, 34), S("b", IN_, 66),
     S("b", IN_, 0), S("b", OUT_, 1), S("b", OUT_, 33), S("b", OUT_, 66), S("b", OUT_, 97),
     S("b", OUT_, 128), S("b", OUT_, 2), S("b", MOVE, 16), S("b", MOVE, 72), S("b", MOVE, 128),
     S("b", MOVE, 192), S("b", MOVE, 40), S("b", FIFO_, 0), S("b", FIFO_, 64), S("b", FIFO_, 128),
     S("b", FIFO_, 192), S("b", WAIT, 66), S("b", WAIT, 2), S("b", WAIT, 194), S("b", FLAG, 160),
     S("b", FLAG, 32), S("b", 11, 0), S("b", MOVE, 1), Statement("b", Encode(CTRL, 1, 0), "")>>
    \o [i \in 1..24 |-> B("b", i % 8, <<"a", "b", "c">>[1 + (i % 3)])]
First == <<S("a", SET_COUNT, 2), S("a", IN_, 1), S("a", FIFO_, 0), S("a", OUT_, 1), S("a", SET_DIR, 1)>>

Pair(first, second, pin) ==
    Header("a", "a", "b", Window(0, 1), Window(1, 1), Window(1, 1), Shift(2, TRUE, pin = 0),
           Shift(2, FALSE, pin = 0), Test(pin, 1))
    \o <<first, second>>

(* The entry lies behind the wrap, which is the first instruction alone. *)
Behind(first, second) ==
    Header("b", "a", "a", Window(0, 1), Window(1, 1), Window(1, 1), Shift(2, TRUE, TRUE),
           Shift(2, FALSE, TRUE), Test(0, 1))
    \o <<first, second>>

Alone ==
    [used |-> {1},
     ready |-> {<<Pair(First[i], Alphabet[k], pin)>> :
                    i \in DOMAIN First, k \in DOMAIN Alphabet, pin \in {0, NoPin}}
               \cup {<<Behind(First[1], Alphabet[k])>> : k \in DOMAIN Alphabet},
     sources |-> {}, loads |-> 0, writes |-> 2, words |-> {3},
     dividers |-> {1}, commands |-> {"none"}, inputs |-> {{}, {0, 1}}, loopback |-> FALSE,
     flags |-> {<<{}, {}>>, <<{1}, {1}>>}, link |-> FALSE]

AllScenes == <<Link(TRUE, {1, 2}, 2), Link(FALSE, {1}, 3), Sharing, Alone>>
MCScenes == AllScenes
=============================================================================
