------------------------------- MODULE PioIsa -------------------------------
(***************************************************************************)
(* The PIO-lite instruction set (scripts/piolite_isa.py) and its assembler *)
(* (scripts/piolite_asm.py): 16-bit words, what validation refuses, label  *)
(* resolution, relocation to a slot and first-fit allocation.  A pin mask  *)
(* is the set of its pins.  The widths of the code (32 slots, 32 pins,     *)
(* 32-bit words, 16-bit counters) are parameters here.                     *)
(***************************************************************************)
EXTENDS Naturals, Sequences, FiniteSets, FiniteSetsExt, SequencesExt

CONSTANTS InstructionWords,  \* slots of the shared store      (code: 32)
          PinCount,          \* GPIO pins                      (code: 32)
          WordBits           \* bits of a FIFO word or ISR/OSR (code: 32)

ASSUME PioAssumption ==
    InstructionWords \in 1..32 /\ PinCount \in 1..32 /\ WordBits \in 2..32

HalfBits == WordBits \div 2        \* X and Y
Slots == 0..(InstructionWords - 1)
Pins == 0..(PinCount - 1)
FlagIds == 0..3
NoPin == 99

CTRL == 0
SET_PIN == 1
SET_DIR == 2
SET_COUNT == 3
IN_ == 4
OUT_ == 5
MOVE == 6
FIFO_ == 7
WAIT == 8
BRANCH == 9
FLAG == 10

(* Fields of a word: opcode(4) delay(4) operand(8). *)
Opcode(w) == w \div 4096
Delay(w) == (w \div 256) % 16
Operand(w) == w % 256
Sel(w) == Operand(w) \div 32       \* operand >> 5
Low5(w) == Operand(w) % 32         \* count or branch target
Bit(w, i) == (Operand(w) \div 2^i) % 2
WaitIndex(w) == (Operand(w) \div 2) % 32
Encode(op, delay, operand) == op * 4096 + delay * 256 + operand

encoded_count(f) == IF f = 0 THEN WordBits ELSE f

(* Instruction.validate: what decode accepts. *)
Instruction_validate(w) ==
    /\ Opcode(w) \in CTRL..FLAG
    /\ Opcode(w) = CTRL  => Low5(w) = 0 /\ Sel(w) <= 3 /\ (Sel(w) = 1 => Delay(w) = 0)
    /\ Opcode(w) = IN_   => Sel(w) <= 3
    /\ Opcode(w) = OUT_  => Sel(w) <= 4 /\ (Sel(w) \in {2, 3} => encoded_count(Low5(w)) <= HalfBits)
    /\ Opcode(w) = MOVE  => Operand(w) % 8 = 0 /\ (Operand(w) \div 8) % 8 <= 5
    /\ Opcode(w) = FIFO_ => Operand(w) % 64 = 0
    /\ Opcode(w) = WAIT  => Bit(w, 0) = 0 /\ (Bit(w, 7) = 1 => WaitIndex(w) \in FlagIds)
    /\ Opcode(w) = FLAG  => Low5(w) = 0

Window(base, width) == [base |-> base, width |-> width]
Mask(win) == {p \in Pins : win.base <= p /\ p < win.base + win.width}
PinWindow_validate(win, maximum) ==
    win.base \in Pins /\ win.width <= maximum /\ win.base + win.width <= PinCount

UsesTestPin(w) == Opcode(w) = BRANCH /\ Sel(w) = 5

(* The claim mask of a program: its windows, the pins it waits for and the *)
(* pin its branches test.                                                  *)
referenced_resources(p) ==
    Mask(p.in_window) \cup Mask(p.out_window) \cup Mask(p.set_window)
    \cup {WaitIndex(w) : w \in {v \in Range(p.instructions) : Opcode(v) = WAIT /\ Bit(v, 7) = 0}}
    \cup (IF \E w \in Range(p.instructions) : UsesTestPin(w) THEN {p.test_pin} ELSE {})

MutValidate(p) ==
    LET n == Len(p.instructions)
        Each(P(_)) == \A w \in Range(p.instructions) : P(w)
    IN  /\ n \in 1..InstructionWords
        /\ Each(Instruction_validate)
        /\ {p.entry, p.wrap_bottom, p.wrap_top} \subseteq 0..(n - 1)
        /\ p.wrap_bottom <= p.wrap_top
        /\ PinWindow_validate(p.in_window, PinCount)
        /\ PinWindow_validate(p.out_window, PinCount)
        /\ PinWindow_validate(p.set_window, 8)
        /\ p.tx.bits \in 1..WordBits /\ p.rx.bits \in 1..WordBits
        /\ p.test_pin \in Pins \cup {NoPin} /\ p.test_flag \in FlagIds
        /\ Each(LAMBDA w : Opcode(w) = BRANCH => Low5(w) < n)
        /\ Each(LAMBDA w : Opcode(w) = IN_ /\ Sel(w) = 0
                               => encoded_count(Low5(w)) <= p.in_window.width)
        /\ Each(LAMBDA w : Opcode(w) \in {SET_PIN, SET_DIR} => p.set_window.width > 0)
        /\ Each(LAMBDA w : UsesTestPin(w) => p.test_pin # NoPin)

Program_validate(p) ==
    LET n == Len(p.instructions)
        Each(P(_)) == \A w \in Range(p.instructions) : P(w)
    IN  /\ n \in 1..InstructionWords
        /\ Each(Instruction_validate)
        /\ {p.entry, p.wrap_bottom, p.wrap_top} \subseteq 0..(n - 1)
        /\ p.wrap_bottom <= p.wrap_top
        /\ PinWindow_validate(p.in_window, PinCount)
        /\ PinWindow_validate(p.out_window, PinCount)
        /\ PinWindow_validate(p.set_window, 8)
        /\ p.tx.bits \in 1..WordBits /\ p.rx.bits \in 1..WordBits
        /\ p.test_pin \in Pins \cup {NoPin} /\ p.test_flag \in FlagIds
        /\ Each(LAMBDA w : Opcode(w) = BRANCH => Low5(w) < n)
        /\ Each(LAMBDA w : Opcode(w) = IN_ /\ Sel(w) = 0
                               => encoded_count(Low5(w)) <= p.in_window.width)
        /\ Each(LAMBDA w : Opcode(w) = OUT_ /\ Sel(w) \in {0, 1}
                               => encoded_count(Low5(w)) <= p.out_window.width)
        /\ Each(LAMBDA w : Opcode(w) \in {SET_PIN, SET_DIR} => p.set_window.width > 0)
        /\ Each(LAMBDA w : UsesTestPin(w) => p.test_pin # NoPin)

-----------------------------------------------------------------------------
(* A source is a sequence of lines in order: statements (a word whose      *)
(* branch target is still a label, with at most one label of its own) and  *)
(* directives.  The label and entry directives hold labels, the others     *)
(* their parsed value.                                                     *)
Statement(label, word, target) ==
    [kind |-> "statement", label |-> label, word |-> word, target |-> target]
Directive(name, value) == [kind |-> "directive", name |-> name, value |-> value]

DIRECTIVES == {"entry", "wrap_bottom", "wrap_top", "in", "out", "set", "tx_bits", "rx_bits", "test"}

Statements(src) == SelectSeq(src, LAMBDA l : l.kind = "statement")
Directives(src) == SelectSeq(src, LAMBDA l : l.kind = "directive")
Labels(src) == {Statements(src)[i].label : i \in DOMAIN Statements(src)} \ {""}
label_offset(statements, label) ==
    (CHOOSE i \in DOMAIN statements : statements[i].label = label) - 1
ValueOf(src, name) ==
    LET d == Directives(src) IN d[CHOOSE i \in DOMAIN d : d[i].name = name].value

(* What the line scan and the label lookups of assemble refuse. *)
Scanned(src) ==
    LET s == Statements(src)
        d == Directives(src)
    IN  /\ Cardinality(Labels(src)) = Len(SelectSeq(s, LAMBDA l : l.label # ""))
        /\ Cardinality({d[i].name : i \in DOMAIN d}) = Len(d)
        /\ {d[i].name : i \in DOMAIN d} = DIRECTIVES
        /\ Len(s) \in 1..InstructionWords
        /\ \A i \in DOMAIN s : Opcode(s[i].word) = BRANCH => s[i].target \in Labels(src)
        /\ {ValueOf(src, n) : n \in {"entry", "wrap_bottom", "wrap_top"}} \subseteq Labels(src)

instruction(statements, line) ==
    IF Opcode(line.word) = BRANCH THEN line.word + label_offset(statements, line.target)
                                  ELSE line.word

(* The program object keeps its statements, as source_lines does. *)
Program(src) ==
    LET s == Statements(src)
    IN  [source |-> s,
         instructions |-> [i \in DOMAIN s |-> instruction(s, s[i])],
         entry |-> label_offset(s, ValueOf(src, "entry")),
         wrap_bottom |-> label_offset(s, ValueOf(src, "wrap_bottom")),
         wrap_top |-> label_offset(s, ValueOf(src, "wrap_top")),
         in_window |-> ValueOf(src, "in"), out_window |-> ValueOf(src, "out"),
         set_window |-> ValueOf(src, "set"),
         tx |-> ValueOf(src, "tx_bits"), rx |-> ValueOf(src, "rx_bits"),
         test_pin |-> ValueOf(src, "test").pin, test_flag |-> ValueOf(src, "test").flag]

assemble(src) == IF Scanned(src) /\ Program_validate(Program(src)) THEN {Program(src)} ELSE {}

-----------------------------------------------------------------------------
Region(base, n) == base..(base + n - 1)

(* relocate_program: only the target field of a branch moves. *)
relocate_program(p, base) ==
    [base |-> base,
     words |-> [i \in DOMAIN p.instructions |->
                   LET w == p.instructions[i]
                   IN  IF Opcode(w) = BRANCH THEN w - Low5(w) + base + Low5(w) ELSE w],
     program |-> p,
     entry |-> base + p.entry,
     wrap_bottom |-> base + p.wrap_bottom,
     wrap_top |-> base + p.wrap_top]

(* InstructionAllocator._first_fit, and a base the caller names. *)
Fits(bitmap, base, n) == base + n <= InstructionWords /\ Region(base, n) \cap bitmap = {}
first_fit(bitmap, n) ==
    LET free == {b \in Slots : Fits(bitmap, b, n)} IN IF free = {} THEN {} ELSE {Min(free)}
=============================================================================
