------------------------------- MODULE PioLite ------------------------------
(***************************************************************************)
(* The PIO-lite reference machine (scripts/piolite_model.py): two state    *)
(* machines over one instruction store, with the allocator that places     *)
(* their programs (scripts/piolite_isa.py).  One Edge is one PCLK edge.    *)
(* Counters of ticks and stalls and the sticky event bits, which no code   *)
(* reads back, are left out.                                               *)
(***************************************************************************)
EXTENDS PioIsa

CONSTANTS FifoDepth,  \* words of a FIFO (code: 8)
          Scenes      \* what one behaviour may use, a function to records:
                      \*   ready: sources already loaded, published and configured,
                      \*     one per state machine, alternatives of a behaviour;
                      \*   used: the state machines it starts;  dividers: theirs;
                      \*   sources, loads: what the caller may load besides, and
                      \*     how often; with loads = 0 the store stays as it is;
                      \*   writes, words: the TX words;  commands: at an edge;
                      \*   inputs: pin levels the test bench drives;
                      \*   loopback: it connects the outputs to the inputs;
                      \*   flags: <<set, clear>> pairs it gives with an edge;
                      \*   link: the two programs are a link from 1 to 2

(* The sources of all scenes, as the line parser delivers them: a branch   *)
(* statement has no target yet, a window has a base and a width.           *)
AllSources == UNION {Scenes[s].sources \cup UNION {Range(r) : r \in Scenes[s].ready} :
                        s \in DOMAIN Scenes}
Line == [kind : {"statement"}, label : STRING, word : Nat, target : STRING]

ASSUME SceneAssumption ==
    /\ \A s \in DOMAIN Scenes : \A r \in Scenes[s].ready :
          Len(r) \in 0..2 /\ DOMAIN r = 1..Len(r)
    /\ \A src \in AllSources :
          /\ Statements(src) \in Seq(Line)
          /\ \A i \in DOMAIN Statements(src) :
                Opcode(Statements(src)[i].word) = BRANCH => Low5(Statements(src)[i].word) = 0
          /\ {ValueOf(src, "in"), ValueOf(src, "out"), ValueOf(src, "set")}
                \subseteq [base : Nat, width : Nat]

SMs == {1, 2}

VARIABLES
    scene,      \* the key of this behaviour's scene
    bitmap,     \* InstructionAllocator._bitmap, as the set of its slots
    allocs,     \* the allocations made, by handle; a caller may keep an old one
    refs,       \* _references: 0 when the handle is not in _allocations
    imem,       \* Machine.imem
    imem_valid, \* Machine.imem_valid, as a set
    published,  \* _published_references, by handle; 0 when not published
    sms,        \* Machine.sms
    flags,      \* Machine.flags, as a set
    written,    \* history: the words each TX FIFO accepted since its reset
    got         \* history of a link: the words read from each RX FIFO

allocator == <<bitmap, allocs, refs>>
store == <<imem, imem_valid, published>>
vars == <<scene, allocator, store, sms, flags, written, got>>

NoWord == 65536
NoProgram ==
    [source |-> <<>>, instructions |-> <<NoWord>>, entry |-> 0, wrap_bottom |-> 0, wrap_top |-> 0,
     in_window |-> Window(0, 0), out_window |-> Window(0, 0), set_window |-> Window(0, 0),
     tx |-> [bits |-> WordBits, right |-> TRUE, auto |-> FALSE],
     rx |-> [bits |-> WordBits, right |-> TRUE, auto |-> FALSE],
     test_pin |-> NoPin, test_flag |-> 0]

(* SMConfig: an allocation, by its handle (0: the default configuration),  *)
(* and the divider the caller chooses.  The initial pin levels, directions *)
(* and counters are the defaults, zero.                                    *)
SMConfig(h, divider) == [handle |-> h, divider |-> divider]
ImageOf(h) == IF h = 0 THEN relocate_program(NoProgram, 0) ELSE allocs[h]

(* What a configuration says: region, entry, wrap, windows and shifts. *)
Image(sm) == ImageOf(sm.config.handle)
SlotsOf(c) == Region(c.base, Len(c.words))
claim_mask(c) == referenced_resources(c.program)
output_mask(c) == Mask(c.program.out_window) \cup Mask(c.program.set_window)

(* SM(config): what SM_RESET leaves. *)
SM(config) ==
    [config |-> config, state |-> "DISABLED", pc |-> ImageOf(config.handle).entry,
     isr |-> 0, isr_count |-> 0, osr |-> 0, osr_count |-> 0, x |-> 0, y |-> 0,
     tx |-> <<>>, rx |-> <<>>, last_fifo_failed |-> FALSE, fault |-> "NONE", stall |-> "NONE",
     divider_remaining |-> config.divider, delay_remaining |-> 0, value |-> {}, oe |-> {}]

Faults == <<"ILLEGAL_INSTRUCTION", "INVALID_FETCH", "PROGRAM_BOUNDS", "SHIFT_BOUNDS", "PIN_AUTHORIZATION">>
Code(f) == CHOOSE i \in DOMAIN Faults : Faults[i] = f

-----------------------------------------------------------------------------
(* The outcome of applying an instruction to a copy of the machine. *)
Done(sm) == [end |-> "done", sm |-> sm, why |-> "NONE", set |-> {}, clear |-> {}]
Stall(sm, kind) == [Done(sm) EXCEPT !.end = "stall", !.why = kind]
Fault(sm, code) == [Done(sm) EXCEPT !.end = "fault", !.why = code]

MaskOf(n) == 2^n                      \* x & _mask(n)  is  x % MaskOf(n)
BitsAt(win, v) == {p \in Mask(win) : (v \div 2^(p - win.base)) % 2 = 1}
ValueAt(win, pins) == FoldSet(LAMBDA p, acc : acc + 2^(p - win.base), 0, Mask(win) \cap pins)

normalized_isr(sm, c) ==
    (IF c.program.rx.right THEN sm.isr \div 2^(WordBits - sm.isr_count) ELSE sm.isr)
        % MaskOf(sm.isr_count)

Pushed(sm, c) ==
    [sm EXCEPT !.rx = Append(@, normalized_isr(sm, c)), !.isr = 0, !.isr_count = 0,
               !.last_fifo_failed = FALSE]
Pulled(sm, c) ==
    [sm EXCEPT !.tx = Tail(@), !.osr = Head(sm.tx) % MaskOf(c.program.tx.bits),
               !.osr_count = c.program.tx.bits, !.last_fifo_failed = FALSE]
fifo_failed(sm) == [sm EXCEPT !.last_fifo_failed = TRUE]

apply_fifo(sm, c, w) ==
    LET blocking == Bit(w, 6) = 1
    IN  IF Bit(w, 7) = 0
        THEN CASE sm.tx # <<>> -> Done(Pulled(sm, c))
               [] sm.tx = <<>> /\ blocking -> Stall(sm, "TX")
               [] OTHER -> Done(fifo_failed(sm))
        ELSE CASE sm.isr_count = 0 -> Fault(sm, "SHIFT_BOUNDS")
               [] sm.isr_count > 0 /\ Len(sm.rx) < FifoDepth -> Done(Pushed(sm, c))
               [] sm.isr_count > 0 /\ Len(sm.rx) >= FifoDepth /\ blocking -> Stall(sm, "RX")
               [] OTHER -> Done(fifo_failed(sm))

require_output(c, win) == Mask(win) \subseteq claim_mask(c) \cap output_mask(c)

(* The part of _apply_out after the OSR holds enough bits. *)
ShiftOut(sm, c, w) ==
    LET count == encoded_count(Low5(w))
        rest == sm.osr_count - count
        chunk == IF c.program.tx.right THEN sm.osr % MaskOf(count) ELSE sm.osr \div 2^rest
        left == IF c.program.tx.right THEN sm.osr \div 2^count ELSE sm.osr % MaskOf(rest)
        next == [sm EXCEPT !.osr = left, !.osr_count = rest]
        win == c.program.out_window
        touched == Mask(Window(win.base, count))
        level == BitsAt(Window(win.base, count), chunk)
    IN  CASE Sel(w) \in {0, 1} /\ (count > win.width \/ ~require_output(c, win)) ->
                 Fault(next, "PIN_AUTHORIZATION")
          [] Sel(w) = 0 /\ count <= win.width /\ require_output(c, win) ->
                 Done([next EXCEPT !.value = (@ \ touched) \cup level])
          [] Sel(w) = 1 /\ count <= win.width /\ require_output(c, win) ->
                 Done([next EXCEPT !.oe = (@ \ touched) \cup level])
          [] Sel(w) = 2 -> Done([next EXCEPT !.x = chunk % MaskOf(HalfBits)])
          [] Sel(w) = 3 -> Done([next EXCEPT !.y = chunk % MaskOf(HalfBits)])
          [] OTHER -> Done(next)

apply_out(sm, c, w) ==
    LET count == encoded_count(Low5(w))
    IN  CASE sm.osr_count = 0 /\ (~c.program.tx.auto \/ count > c.program.tx.bits) ->
                 Fault(sm, "SHIFT_BOUNDS")
          [] sm.osr_count = 0 /\ c.program.tx.auto /\ count <= c.program.tx.bits ->
                 IF sm.tx = <<>> THEN Stall(sm, "TX") ELSE ShiftOut(Pulled(sm, c), c, w)
          [] sm.osr_count > 0 /\ sm.osr_count < count -> Fault(sm, "SHIFT_BOUNDS")
          [] OTHER -> ShiftOut(sm, c, w)

MutApplyIn(sm, c, w, pins) ==
    LET count == encoded_count(Low5(w))
        total == sm.isr_count + count
        value == ValueAt(c.program.in_window, pins) % MaskOf(count)
        isr == IF c.program.rx.right THEN (sm.isr \div 2^count) + value * 2^(WordBits - count)
                                    ELSE (sm.isr * 2^count + value) % MaskOf(WordBits)
        next == [sm EXCEPT !.isr = isr, !.isr_count = total]
    IN  CASE total > WordBits -> Fault(sm, "SHIFT_BOUNDS")
          [] total <= WordBits /\ c.program.rx.auto /\ total = c.program.rx.bits ->
                 Done(IF Len(sm.rx) < FifoDepth THEN Pushed(next, c)
                      ELSE [next EXCEPT !.isr = 0, !.isr_count = 0])
          [] OTHER -> Done(next)

apply_in(sm, c, w, pins) ==
    LET count == encoded_count(Low5(w))
        total == sm.isr_count + count
        limit == IF c.program.rx.auto THEN c.program.rx.bits ELSE WordBits
        complete == c.program.rx.auto /\ total = c.program.rx.bits
        win == c.program.in_window
        source == CASE Sel(w) = 0 -> ValueAt(win, pins) [] Sel(w) = 1 -> sm.x
                    [] Sel(w) = 2 -> sm.y [] OTHER -> 0
        value == source % MaskOf(count)
        isr == IF c.program.rx.right THEN (sm.isr \div 2^count) + value * 2^(WordBits - count)
                                    ELSE (sm.isr * 2^count + value) % MaskOf(WordBits)
        next == [sm EXCEPT !.isr = isr, !.isr_count = total]
    IN  CASE total > limit -> Fault(sm, "SHIFT_BOUNDS")
          [] total <= limit /\ complete /\ Len(sm.rx) >= FifoDepth -> Stall(sm, "RX")
          [] OTHER ->
                 IF Sel(w) = 0 /\ (count > win.width \/ ~(Mask(win) \subseteq claim_mask(c)))
                 THEN Fault(sm, "PIN_AUTHORIZATION")
                 ELSE Done(IF complete THEN Pushed(next, c) ELSE next)

apply_move(sm, w) ==
    LET source == (Operand(w) \div 8) % 8
        value == CASE source = 0 -> sm.isr [] source = 1 -> sm.osr [] source = 2 -> sm.x
                   [] source = 3 -> sm.y [] source = 4 -> 0 [] OTHER -> 2^WordBits - 1
    IN  CASE Operand(w) \div 64 = 0 -> [sm EXCEPT !.isr = value, !.isr_count = WordBits]
          [] Operand(w) \div 64 = 1 -> [sm EXCEPT !.osr = value, !.osr_count = WordBits]
          [] Operand(w) \div 64 = 2 -> [sm EXCEPT !.x = value % MaskOf(HalfBits)]
          [] OTHER                  -> [sm EXCEPT !.y = value % MaskOf(HalfBits)]

apply_set(sm, c, w) ==
    LET win == c.program.set_window
        level == BitsAt(win, Operand(w))
    IN  CASE win.width = 0 \/ ~require_output(c, win) -> Fault(sm, "PIN_AUTHORIZATION")
          [] win.width > 0 /\ require_output(c, win) /\ Opcode(w) = SET_PIN ->
                 Done([sm EXCEPT !.value = (@ \ Mask(win)) \cup level])
          [] OTHER -> Done([sm EXCEPT !.oe = (@ \ Mask(win)) \cup level])

apply_wait(sm, c, w, flgs, pins) ==
    LET onPin == Bit(w, 7) = 0
        observed == IF onPin THEN WaitIndex(w) \in pins ELSE WaitIndex(w) \in flgs
    IN  CASE onPin /\ WaitIndex(w) \notin claim_mask(c) -> Fault(sm, "PIN_AUTHORIZATION")
          [] ~(onPin /\ WaitIndex(w) \notin claim_mask(c)) /\ observed # (Bit(w, 6) = 1) ->
                 Stall(sm, IF onPin THEN "PIN" ELSE "FLAG")
          [] OTHER -> Done(sm)

apply(sm, c, w, flgs, pins) ==
    CASE Opcode(w) = CTRL /\ Sel(w) = 2 -> Done([sm EXCEPT !.isr = 0, !.isr_count = 0])
      [] Opcode(w) = CTRL /\ Sel(w) = 3 -> Done([sm EXCEPT !.osr = 0, !.osr_count = 0])
      [] Opcode(w) \in {SET_PIN, SET_DIR} -> apply_set(sm, c, w)
      [] Opcode(w) = SET_COUNT /\ Bit(w, 7) = 1 -> Done([sm EXCEPT !.y = Operand(w) % 128])
      [] Opcode(w) = SET_COUNT /\ Bit(w, 7) = 0 -> Done([sm EXCEPT !.x = Operand(w) % 128])
      [] Opcode(w) = IN_ -> apply_in(sm, c, w, pins)
      [] Opcode(w) = OUT_ -> apply_out(sm, c, w)
      [] Opcode(w) = MOVE -> Done(apply_move(sm, w))
      [] Opcode(w) = FIFO_ -> apply_fifo(sm, c, w)
      [] Opcode(w) = WAIT -> apply_wait(sm, c, w, flgs, pins)
      [] Opcode(w) = BRANCH /\ Sel(w) = 3 /\ sm.x > 0 -> Done([sm EXCEPT !.x = @ - 1])
      [] Opcode(w) = BRANCH /\ Sel(w) = 4 /\ sm.y > 0 -> Done([sm EXCEPT !.y = @ - 1])
      [] Opcode(w) = FLAG /\ Bit(w, 7) = 1 -> [Done(sm) EXCEPT !.set = {Sel(w) % 4}]
      [] Opcode(w) = FLAG /\ Bit(w, 7) = 0 -> [Done(sm) EXCEPT !.clear = {Sel(w) % 4}]
      [] OTHER -> Done(sm)

(* The next pc, "HALT" or a fault, as <<kind, value>>.  The decrement of a  *)
(* counting branch comes first: DEC_X_NONZERO is taken when X is still not  *)
(* zero after it.                                                           *)
successor(sm, c, w, flgs, pins) ==
    LET taken == CASE Sel(w) = 0 -> TRUE
                   [] Sel(w) = 1 -> sm.x = 0
                   [] Sel(w) = 2 -> sm.y = 0
                   [] Sel(w) = 3 -> sm.x # 0
                   [] Sel(w) = 4 -> sm.y # 0
                   [] Sel(w) = 5 -> c.program.test_pin \in pins
                   [] Sel(w) = 6 -> sm.last_fifo_failed
                   [] OTHER -> c.program.test_flag \in flgs
        branch == Opcode(w) = BRANCH
        sequential == IF sm.pc = c.wrap_top THEN c.wrap_bottom ELSE sm.pc + 1
        next == IF branch /\ taken THEN Low5(w) ELSE sequential
    IN  CASE Opcode(w) = CTRL /\ Sel(w) = 1 -> <<"halt", sm.pc>>
          [] branch /\ Low5(w) \notin SlotsOf(c) -> <<"fault", "PROGRAM_BOUNDS">>
          [] branch /\ Low5(w) \in SlotsOf(c) /\ UsesTestPin(w)
             /\ ~((\E v \in Range(c.program.instructions) : UsesTestPin(v))
                  /\ c.program.test_pin \in claim_mask(c)) -> <<"fault", "PIN_AUTHORIZATION">>
          [] OTHER -> IF next \in SlotsOf(c) THEN <<"pc", next>> ELSE <<"fault", "PROGRAM_BOUNDS">>

fault(sm, code) ==
    [sm EXCEPT !.fault = IF @ = "NONE" THEN code ELSE @, !.state = "CLOSING", !.oe = {}, !.stall = "NONE"]

(* _execution_tick: the copy replaces the machine only when the            *)
(* instruction and its successor both succeed.                             *)
Settled(sm, w, a, s) ==
    LET Worse(code) == IF s[1] = "fault" /\ Code(s[2]) < Code(code) THEN s[2] ELSE code
    IN  CASE a.end = "stall" -> [a EXCEPT !.sm = [sm EXCEPT !.stall = a.why]]
          [] a.end = "fault" -> [a EXCEPT !.sm = fault(sm, Worse(a.why))]
          [] a.end = "done" /\ s[1] = "fault" ->
                 [a EXCEPT !.sm = fault(sm, s[2]), !.set = {}, !.clear = {}]
          [] OTHER ->
                 [a EXCEPT !.sm = [a.sm EXCEPT !.delay_remaining = Delay(w), !.stall = "NONE",
                                               !.state = IF s[1] = "halt" THEN "HALTED" ELSE @,
                                               !.pc = s[2]]]
Applied(sm, c, w, a, flgs, pins) == Settled(sm, w, a, successor(a.sm, c, w, flgs, pins))
Executed(sm, c, w, flgs, pins) == Applied(sm, c, w, apply(sm, c, w, flgs, pins), flgs, pins)

execution_tick(sm, c, flgs, pins) ==
    LET idle == sm.delay_remaining = 0
    IN  CASE idle /\ sm.pc \notin SlotsOf(c) -> Done(fault(sm, "PROGRAM_BOUNDS"))
          [] idle /\ sm.pc \in SlotsOf(c) \ imem_valid -> Done(fault(sm, "INVALID_FETCH"))
          [] idle /\ sm.pc \in SlotsOf(c) \cap imem_valid /\ ~Instruction_validate(imem[sm.pc]) ->
                 Done(fault(sm, "ILLEGAL_INSTRUCTION"))
          [] idle /\ sm.pc \in SlotsOf(c) \cap imem_valid /\ Instruction_validate(imem[sm.pc]) ->
                 Executed(sm, c, imem[sm.pc], flgs, pins)
          [] OTHER -> Done([sm EXCEPT !.delay_remaining = @ - 1, !.stall = "NONE"])

(* One state machine at an edge, after the lifecycle commands. *)
Clocked(sm, flgs, pins) ==
    CASE sm.state # "RUNNING" -> Done(sm)
      [] sm.state = "RUNNING" /\ sm.divider_remaining > 1 ->
             Done([sm EXCEPT !.divider_remaining = @ - 1])
      [] OTHER -> execution_tick([sm EXCEPT !.divider_remaining = sm.config.divider], Image(sm),
                                  flgs, pins)

Commanded(sm, c) ==
    CASE c = "disable" -> [sm EXCEPT !.state = "DISABLED", !.oe = {}, !.stall = "NONE"]
      [] c = "pause"   -> [sm EXCEPT !.state = "PAUSED", !.stall = "NONE"]
      [] c = "resume"  -> [sm EXCEPT !.state = "RUNNING"]
      [] OTHER         -> sm

-----------------------------------------------------------------------------
Handles == DOMAIN allocs
AllDisabled == \A i \in SMs : sms[i].state = "DISABLED"

(* Images of the sources, one per state machine, loaded one after the      *)
(* other into an empty store.                                              *)
Ready(r) ==
    LET Assembled(k) == CHOOSE p \in assemble(r[k]) : TRUE
    IN  [k \in DOMAIN r |->
            relocate_program(Assembled(k), IF k = 1 THEN 0 ELSE Len(Assembled(1).instructions))]
Init ==
    /\ scene \in DOMAIN Scenes
    /\ \E r \in Scenes[scene].ready :
          /\ \A k \in DOMAIN r : assemble(r[k]) # {}
          /\ allocs = Ready(r)
    /\ bitmap = UNION {SlotsOf(allocs[h]) : h \in Handles} /\ imem_valid = bitmap
    /\ bitmap \subseteq Slots
    /\ refs = [h \in Handles |-> 1] /\ published = refs
    /\ imem = [k \in Slots |->
                  IF \E h \in Handles : k \in SlotsOf(allocs[h])
                  THEN LET h == CHOOSE h \in Handles : k \in SlotsOf(allocs[h])
                       IN  allocs[h].words[k - allocs[h].base + 1]
                  ELSE 0]
    /\ \E d \in [SMs -> Scenes[scene].dividers] :
          sms = [i \in SMs |-> SM(SMConfig(IF i \in Handles THEN i ELSE 0, d[i]))]
    /\ flags = {}
    /\ written = [i \in SMs |-> <<>>] /\ got = [i \in SMs |-> <<>>]

(* InstructionAllocator.load: an identical program shares its allocation.  *)
load(src, base) ==
    /\ \E p \in assemble(src) :
         LET same == {h \in Handles : refs[h] > 0 /\ allocs[h].program = p}
             n == Len(p.instructions)
         IN  \/ /\ same # {}
                /\ \E h \in same : /\ base \in {NoPin, allocs[h].base}
                                   /\ refs[h] < 2
                                   /\ refs' = [refs EXCEPT ![h] = @ + 1]
                /\ UNCHANGED <<bitmap, allocs, published>>
             \/ /\ same = {} /\ Len(allocs) < Scenes[scene].loads
                /\ \E b \in IF base = NoPin THEN first_fit(bitmap, n) ELSE {base} :
                     /\ Fits(bitmap, b, n)
                     /\ allocs' = Append(allocs, relocate_program(p, b))
                     /\ refs' = Append(refs, 1)
                     /\ published' = Append(published, 0)
                     /\ bitmap' = bitmap \cup Region(b, n)
    /\ UNCHANGED <<scene, imem, imem_valid, sms, flags, written, got>>

MutUnload(h) ==
    /\ refs[h] > 0
    /\ refs' = [refs EXCEPT ![h] = @ - 1]
    /\ bitmap' = bitmap \ SlotsOf(allocs[h])
    /\ UNCHANGED <<scene, allocs, store, sms, flags, written, got>>

unload(h) ==
    /\ refs[h] > 0
    /\ refs' = [refs EXCEPT ![h] = @ - 1]
    /\ bitmap' = IF refs[h] = 1 THEN bitmap \ SlotsOf(allocs[h]) ELSE bitmap
    /\ UNCHANGED <<scene, allocs, store, sms, flags, written, got>>

publish(h) ==
    /\ AllDisabled
    /\ published[h] < 2
    /\ \/ published[h] > 0 /\ UNCHANGED <<imem, imem_valid>>
       \/ /\ published[h] = 0
          /\ SlotsOf(allocs[h]) \cap imem_valid = {}
          /\ imem' = [k \in Slots |-> IF k \in SlotsOf(allocs[h])
                                      THEN allocs[h].words[k - allocs[h].base + 1] ELSE imem[k]]
          /\ imem_valid' = imem_valid \cup SlotsOf(allocs[h])
    /\ published' = [published EXCEPT ![h] = @ + 1]
    /\ UNCHANGED <<scene, allocator, sms, flags, written, got>>

unpublish(h) ==
    /\ AllDisabled
    /\ published[h] > 0
    /\ published' = [published EXCEPT ![h] = @ - 1]
    /\ imem_valid' = IF published[h] = 1 THEN imem_valid \ SlotsOf(allocs[h]) ELSE imem_valid
    /\ UNCHANGED <<scene, allocator, imem, sms, flags, written, got>>

invalidate_imem ==
    /\ AllDisabled
    /\ imem' = [k \in Slots |-> 0] /\ imem_valid' = {}
    /\ published' = [h \in Handles |-> 0]
    /\ UNCHANGED <<scene, allocator, sms, flags, written, got>>

(* The caller gives a disabled state machine a configuration made from an  *)
(* allocation (SMConfig.from_allocation).                                  *)
configure(i, h, d) ==
    /\ sms[i].state = "DISABLED"
    /\ sms[i].config # SMConfig(h, d)
    /\ sms' = [sms EXCEPT ![i].config = SMConfig(h, d)]
    /\ UNCHANGED <<scene, allocator, store, flags, written, got>>

(* SMConfig.validate for a configuration made by from_allocation. *)
config_validate(c) ==
    /\ SlotsOf(c) \subseteq Slots
    /\ {c.entry, c.wrap_bottom, c.wrap_top} \subseteq SlotsOf(c)
    /\ c.wrap_bottom <= c.wrap_top
    /\ output_mask(c) \cup Mask(c.program.in_window) \subseteq claim_mask(c)

Started(sm) ==
    [SM(sm.config) EXCEPT !.tx = sm.tx, !.state = "RUNNING"]

MutStart(mask) ==
    /\ mask # {}
    /\ \A i \in mask : /\ sms[i].state = "DISABLED" /\ sms[i].fault = "NONE"
                       /\ config_validate(Image(sms[i]))
                       /\ sms[i].rx = <<>>
                       /\ SlotsOf(Image(sms[i])) \subseteq imem_valid
    /\ sms' = [i \in SMs |-> IF i \in mask THEN Started(sms[i]) ELSE sms[i]]
    /\ UNCHANGED <<scene, allocator, store, flags, written, got>>

start(mask) ==
    /\ mask # {}
    /\ \A i \in mask : /\ sms[i].state = "DISABLED" /\ sms[i].fault = "NONE"
                       /\ config_validate(Image(sms[i]))
                       /\ sms[i].rx = <<>>
                       /\ SlotsOf(Image(sms[i])) \subseteq imem_valid
    /\ output_mask(Image(sms[1])) \cap output_mask(Image(sms[2])) = {}
    /\ sms' = [i \in SMs |-> IF i \in mask THEN Started(sms[i]) ELSE sms[i]]
    /\ UNCHANGED <<scene, allocator, store, flags, written, got>>

sm_reset(mask) ==
    /\ mask # {}
    /\ \A i \in mask : sms[i].state \in {"DISABLED", "CLOSING"}
    /\ sms' = [i \in SMs |-> IF i \in mask THEN SM(sms[i].config) ELSE sms[i]]
    /\ written' = [i \in SMs |-> IF i \in mask THEN <<>> ELSE written[i]]
    /\ got' = [i \in SMs |-> IF i \in mask THEN <<>> ELSE got[i]]
    /\ UNCHANGED <<scene, allocator, store, flags>>

MayCommand(sm, c) ==
    /\ c = "pause" => sm.state = "RUNNING"
    /\ c = "resume" => sm.state = "PAUSED"
    /\ c = "disable" => sm.state # "CLOSING"

(* Machine.step with at most one TX write and any RX reads.  A write is    *)
(* accepted and a read served by what the FIFO held before the edge; a set *)
(* of a flag wins over its clear.  "ran" is what the edge makes of each    *)
(* state machine.                                                          *)
step(ran, ext, put, readers) ==
    LET accepted == {i \in SMs : \E w \in put : w[1] = i /\ Len(sms[i].tx) < FifoDepth}
        word == CHOOSE w \in put : TRUE
        served == {i \in readers : sms[i].rx # <<>>}
    IN  /\ flags' = (flags \ (ext[2] \cup ran[1].clear \cup ran[2].clear))
                        \cup ext[1] \cup ran[1].set \cup ran[2].set
        /\ sms' = [i \in SMs |->
                      [ran[i].sm EXCEPT !.tx = IF i \in accepted THEN Append(@, word[2]) ELSE @,
                                        !.rx = IF i \in served THEN Tail(@) ELSE @]]
        /\ written' = [i \in SMs |-> IF i \in accepted THEN Append(written[i], word[2]) ELSE written[i]]
        /\ got' = [i \in SMs |-> IF i \in served /\ Scenes[scene].link THEN Append(got[i], Head(sms[i].rx)) ELSE got[i]]
        /\ UNCHANGED <<scene, allocator, store>>

Driven == UNION {sms[i].value \cap sms[i].oe : i \in SMs}

Puts(sc) == {{}} \cup {{<<i, w>>} : i \in {j \in sc.used : Len(written[j]) < sc.writes},
                                    w \in sc.words}
Commands(sc, i) == {c \in sc.commands : MayCommand(sms[i], c)}

Edge(sc) ==
    /\ ~AllDisabled
    /\ \E c1 \in Commands(sc, 1), c2 \in Commands(sc, 2),
          pins \in IF sc.loopback THEN {Driven} ELSE sc.inputs :
       \E ran \in {<<Clocked(Commanded(sms[1], c1), flags, pins),
                     Clocked(Commanded(sms[2], c2), flags, pins)>>} :
       \E ext \in sc.flags, put \in Puts(sc),
          readers \in SUBSET {i \in SMs : sms[i].rx # <<>>} : step(ran, ext, put, readers)

Churn(sc) ==
    /\ sc.loads > 0
    /\ \/ \E src \in sc.sources, base \in {1, NoPin} : load(src, base)
       \/ \E h \in Handles : unload(h) \/ publish(h) \/ unpublish(h)
       \/ \E i \in sc.used, h \in Handles, d \in sc.dividers : configure(i, h, d)
       \/ invalidate_imem

Next ==
    \/ Churn(Scenes[scene])
    \/ \E mask \in SUBSET Scenes[scene].used : start(mask) \/ sm_reset(mask)
    \/ Edge(Scenes[scene])

Spec == Init /\ [][Next]_vars

-----------------------------------------------------------------------------
States == {"DISABLED", "RUNNING", "PAUSED", "HALTED", "CLOSING"}

(* Registers stay within their widths, the FIFOs within their depth. *)
TypeOK ==
    /\ bitmap \subseteq Slots /\ imem_valid \subseteq Slots /\ flags \subseteq FlagIds
    /\ imem \in [Slots -> 0..65535]
    /\ \A i \in SMs :
         /\ sms[i].state \in States
         /\ sms[i].isr_count \in 0..WordBits /\ sms[i].osr_count \in 0..WordBits
         /\ sms[i].isr \in 0..(2^WordBits - 1) /\ sms[i].osr \in 0..(2^sms[i].osr_count - 1)
         /\ sms[i].x \in 0..(2^HalfBits - 1) /\ sms[i].y \in 0..(2^HalfBits - 1)
         /\ Len(sms[i].tx) <= FifoDepth /\ Len(sms[i].rx) <= FifoDepth
         /\ sms[i].divider_remaining \in 1..Max(Scenes[scene].dividers)
         /\ sms[i].state \in {"DISABLED", "CLOSING"} => sms[i].oe = {}

Live == {h \in Handles : refs[h] > 0}
Published == {h \in Handles : published[h] > 0}
Tiles(slots, hs) ==
    /\ slots = UNION {SlotsOf(allocs[h]) : h \in hs}
    /\ \A g, h \in hs : g # h => SlotsOf(allocs[g]) \cap SlotsOf(allocs[h]) = {}
Stored(h) ==
    \A k \in DOMAIN allocs[h].words : imem[allocs[h].base + k - 1] = allocs[h].words[k]
BranchesReach(h) ==
    LET src == allocs[h].program.source
    IN  \A k \in DOMAIN src :
            Opcode(src[k].word) = BRANCH =>
                Low5(imem[allocs[h].base + k - 1])
                    = allocs[h].base + label_offset(src, src[k].target)

(* The allocator's bitmap is exactly the slots of its live allocations,    *)
(* which never overlap, and every valid slot of the store holds the word   *)
(* of the one published image it belongs to - across sharing, stale        *)
(* handles and reuse of slots (piolite_isa.py load/unload, piolite_model   *)
(* publish/unpublish).  A branch assembled to a label reaches there the    *)
(* slot of the labelled instruction: labels, validation, first fit and     *)
(* relocation agree (piolite_asm.py assemble, relocate_program).           *)
StoreCoheres ==
    /\ Tiles(bitmap, Live)
    /\ Tiles(imem_valid, Published)
    /\ \A h \in Published : Stored(h) /\ BranchesReach(h)

(* Two state machines never drive one pin, and one that is disabled or     *)
(* closing drives none (Machine.start's check of the masks, _fault and the *)
(* DISABLE command).                                                       *)
DriveDisjoint ==
    /\ sms[1].oe \cap sms[2].oe = {}
    /\ \A i \in SMs : sms[i].oe \subseteq output_mask(Image(sms[i]))

Intact(sm) ==
    \A k \in DOMAIN Image(sm).words :
        LET slot == Image(sm).base + k - 1
        IN  slot \in imem_valid /\ imem[slot] = Image(sm).words[k]

(* The machine stopped at its last slot, which the wrap does not lead back *)
(* from, on a word that is not HALT: its successor is outside the program. *)
RanOff(sm) ==
    LET c == Image(sm)
        w == imem[sm.pc]
    IN  /\ sm.fault = "PROGRAM_BOUNDS"
        /\ sm.pc = c.base + Len(c.words) - 1 /\ sm.pc # c.wrap_top
        /\ ~(Opcode(w) = CTRL /\ Sel(w) = 1)

(* A program the assembler accepted, run by a state machine configured     *)
(* for it, faults only on its shift counts or, when code lies behind its   *)
(* wrap, by running off its end: what Program.validate refuses is enough   *)
(* to keep fetch, branch target, decoding and pin authorization faults     *)
(* away.  START checks that the slots are valid, not whose words they hold,*)
(* so a stale configuration may still fault.                               *)
OnlyOwnFaults ==
    \A i \in SMs :
        sms[i].fault \notin {"NONE", "SHIFT_BOUNDS"} => ~Intact(sms[i]) \/ RanOff(sms[i])

(* Two state machines that hand bits over a pin with a flag handshake      *)
(* deliver the words written, in order, none lost or repeated, whatever    *)
(* the dividers, pauses, FIFO levels and moments of the start: a stalled   *)
(* or faulted instruction leaves no trace (_execution_tick's copy) and     *)
(* every instruction sees the flags and pins of before the edge.           *)
LinkExact ==
    Scenes[scene].link =>
        IsPrefix(got[2] \o sms[2].rx, written[1])
=============================================================================
