---------------------------- MODULE PioLite_proofs ----------------------------
(***************************************************************************)
(* Proofs about the PIO-lite allocator, store and state machines, for all  *)
(* sources the line parser can deliver, all store, pin and word widths and *)
(* every order of loads, publications, configurations, starts and edges.   *)
(***************************************************************************)
EXTENDS PioLite, SequenceTheorems, WellFoundedInduction, TLAPS

----------------------------------------------------------------------------
(* Images.                                                                 *)

Accepted == UNION {assemble(src) : src \in AllSources}
Images == {relocate_program(p, b) : p \in Accepted, b \in Nat}

LEMMA WordFields ==
  ASSUME NEW w \in Nat, Low5(w) = 0, NEW t \in 0 .. 31
  PROVE  /\ Low5(w + t) = t
         /\ Opcode(w + t) = Opcode(w)
BY DEF Low5, Opcode, Operand

\* What assembling a source yields: at least one word, and in a branch the offset of
\* its label.
LEMMA AcceptedFacts ==
  ASSUME NEW src \in AllSources, NEW p \in assemble(src)
  PROVE  /\ p = Program(src)
         /\ p.source = Statements(src)
         /\ DOMAIN p.instructions = DOMAIN p.source
         /\ DOMAIN p.instructions = 1 .. Len(p.instructions)
         /\ Len(p.instructions) \in 1 .. InstructionWords
         /\ \A k \in DOMAIN p.instructions :
              /\ p.instructions[k] \in Nat
              /\ Opcode(p.source[k].word) = BRANCH =>
                   /\ Opcode(p.instructions[k]) = BRANCH
                   /\ Low5(p.instructions[k]) = label_offset(p.source, p.source[k].target)
                   /\ Low5(p.instructions[k]) \in 0 .. Len(p.instructions) - 1
                   /\ p.instructions[k] - Low5(p.instructions[k]) \in Nat
                   /\ Low5(p.instructions[k] - Low5(p.instructions[k])) = 0
              /\ Opcode(p.instructions[k]) = BRANCH => Opcode(p.source[k].word) = BRANCH
<1> DEFINE s == Statements(src)
<1>1. p = Program(src) /\ Scanned(src) /\ Program_validate(p)
  BY DEF assemble
<1>2. /\ s \in Seq(Line)
      /\ \A i \in DOMAIN s : Opcode(s[i].word) = BRANCH => Low5(s[i].word) = 0
  BY SceneAssumption
<1>3. /\ p.source = s
      /\ p.instructions = [i \in DOMAIN s |-> instruction(s, s[i])]
  BY <1>1 DEF Program
<1> HIDE DEF s
<1>4. DOMAIN s = 1 .. Len(s) /\ Len(s) \in Nat
  BY <1>2, LenProperties
<1>5. p.instructions \in [1 .. Len(s) -> {instruction(s, s[i]) : i \in DOMAIN s}]
  BY <1>3, <1>4
<1>6. Len(p.instructions) = Len(s)
  BY <1>4, <1>5
<1>7. Len(s) \in 1 .. InstructionWords
  BY <1>1 DEF Scanned, s
<1>8. InstructionWords \in 1 .. 32
  BY PioAssumption
<1>9. ASSUME NEW k \in DOMAIN s
      PROVE  /\ s[k].word \in Nat
             /\ p.instructions[k] = instruction(s, s[k])
  <2>1. s[k] \in Line
    <3>1. s \in Seq(Line) /\ k \in 1 .. Len(s)
      BY <1>2, <1>4
    <3> HIDE DEF Line
    <3> QED BY <3>1, ElementOfSeq
  <2>2. s[k].word \in Nat
    BY <2>1 DEF Line
  <2>3. p.instructions[k] = instruction(s, s[k])
    BY <1>3, Zenon
  <2> QED BY <2>2, <2>3
<1>10. ASSUME NEW k \in DOMAIN s, Opcode(s[k].word) = BRANCH
       PROVE  label_offset(s, s[k].target) \in 0 .. Len(s) - 1
  <2>1. s[k].target \in Labels(src)
    BY <1>1, <1>10 DEF Scanned, s
  <2>2. PICK i \in DOMAIN s : s[i].label = s[k].target
    BY <2>1 DEF Labels, s
  <2>3. (CHOOSE j \in DOMAIN s : s[j].label = s[k].target) \in DOMAIN s
    BY <2>2
  <2> QED BY <2>3, <1>4 DEF label_offset
<1>11. ASSUME NEW k \in DOMAIN s
       PROVE  /\ p.instructions[k] \in Nat
              /\ Opcode(s[k].word) = BRANCH =>
                   /\ Opcode(p.instructions[k]) = BRANCH
                   /\ Low5(p.instructions[k]) = label_offset(s, s[k].target)
                   /\ Low5(p.instructions[k]) \in 0 .. Len(s) - 1
                   /\ p.instructions[k] - Low5(p.instructions[k]) \in Nat
                   /\ Low5(p.instructions[k] - Low5(p.instructions[k])) = 0
              /\ Opcode(p.instructions[k]) = BRANCH => Opcode(s[k].word) = BRANCH
  <2> DEFINE w == s[k].word
             t == label_offset(s, s[k].target)
  <2>1. w \in Nat
    BY <1>9
  <2>2. CASE Opcode(w) = BRANCH
    <3>1. t \in 0 .. Len(s) - 1 /\ t \in 0 .. 31 /\ Low5(w) = 0
      <4>1. t \in 0 .. Len(s) - 1
        BY <2>2, <1>10
      <4>2. Low5(w) = 0
        BY <2>2, <1>2
      <4> HIDE DEF t, w
      <4> QED BY <4>1, <4>2, <1>7, <1>8
    <3>2. p.instructions[k] = w + t
      BY <2>2, <1>9 DEF instruction
    <3> HIDE DEF w, t
    <3>3. Low5(w + t) = t /\ Opcode(w + t) = Opcode(w)
      BY <2>1, <3>1, WordFields
    <3>4. (w + t) - t = w
      BY <2>1, <3>1
    <3>5. w + t \in Nat
      BY <2>1, <3>1
    <3> QED BY <2>1, <2>2, <3>1, <3>2, <3>3, <3>4, <3>5 DEF w, t
  <2>3. CASE Opcode(w) # BRANCH
    BY <2>1, <2>3, <1>9 DEF instruction
  <2> QED BY <2>2, <2>3
<1> QED BY <1>1, <1>3, <1>4, <1>6, <1>7, <1>11 DEF s

\* Relocation moves the target of a branch to the slot of its label and nothing else.
LEMMA ImageFacts ==
  ASSUME NEW c \in Images
  PROVE  /\ c.base \in Nat
         /\ DOMAIN c.words = 1 .. Len(c.words)
         /\ Len(c.words) \in Nat \ {0}
         /\ \A k \in DOMAIN c.words : c.words[k] \in Nat
         /\ DOMAIN c.program.source = DOMAIN c.words
         /\ SlotsOf(c) \subseteq Slots =>
              \A k \in DOMAIN c.words :
                Opcode(c.program.source[k].word) = BRANCH =>
                  Low5(c.words[k]) =
                    c.base + label_offset(c.program.source, c.program.source[k].target)
<1> PICK p \in Accepted, b \in Nat : c = relocate_program(p, b)
  BY DEF Images
<1> PICK src \in AllSources : p \in assemble(src)
  BY DEF Accepted
<1> DEFINE Word(w) == IF Opcode(w) = BRANCH THEN w - Low5(w) + b + Low5(w) ELSE w
<1>1. /\ c.base = b /\ c.program = p
      /\ c.words = [i \in DOMAIN p.instructions |-> Word(p.instructions[i])]
  BY DEF relocate_program
<1> HIDE DEF Word
<1>2. /\ DOMAIN p.instructions = DOMAIN p.source
      /\ DOMAIN p.instructions = 1 .. Len(p.instructions)
      /\ Len(p.instructions) \in 1 .. InstructionWords
  BY AcceptedFacts
<1>3. InstructionWords \in 1 .. 32
  BY PioAssumption
<1>4. DOMAIN c.words = 1 .. Len(p.instructions)
  BY <1>1, <1>2
<1>5. Len(c.words) = Len(p.instructions)
  <2>1. c.words \in [1 .. Len(p.instructions) -> {Word(p.instructions[i]) : i \in DOMAIN p.instructions}]
    BY <1>1, <1>2
  <2> QED BY <2>1, <1>2, <1>3
<1>6. ASSUME NEW k \in DOMAIN p.instructions
      PROVE  Word(p.instructions[k]) \in Nat
  <2>1. CASE Opcode(p.instructions[k]) = BRANCH
    <3>1. /\ p.instructions[k] - Low5(p.instructions[k]) \in Nat
          /\ Low5(p.instructions[k]) \in 0 .. Len(p.instructions) - 1
      BY <2>1, AcceptedFacts
    <3>2. Low5(p.instructions[k]) \in Nat
      BY <3>1
    <3> DEFINE u == p.instructions[k] - Low5(p.instructions[k])
               t == Low5(p.instructions[k])
    <3>3. u \in Nat /\ t \in Nat /\ Word(p.instructions[k]) = u + b + t
      BY <2>1, <3>1, <3>2 DEF Word
    <3> HIDE DEF u, t
    <3> QED BY <3>3
  <2>2. CASE Opcode(p.instructions[k]) # BRANCH
    BY <2>2, AcceptedFacts DEF Word
  <2> QED BY <2>1, <2>2
<1>7. ASSUME SlotsOf(c) \subseteq Slots, NEW k \in DOMAIN p.instructions,
             Opcode(p.source[k].word) = BRANCH
      PROVE  Low5(Word(p.instructions[k])) = b + label_offset(p.source, p.source[k].target)
  <2> DEFINE u == p.instructions[k] - Low5(p.instructions[k])
             t == Low5(p.instructions[k])
  <2>1. /\ Opcode(p.instructions[k]) = BRANCH
        /\ t = label_offset(p.source, p.source[k].target)
        /\ t \in 0 .. Len(p.instructions) - 1
        /\ u \in Nat /\ Low5(u) = 0
    BY <1>7, AcceptedFacts
  <2>2. b + (Len(p.instructions) - 1) \in Slots
    <3>1. SlotsOf(c) = b .. (b + Len(p.instructions) - 1)
      BY <1>1, <1>5 DEF SlotsOf, Region
    <3>2. b + (Len(p.instructions) - 1) \in SlotsOf(c)
      BY <3>1, <1>2, <1>3
    <3> QED BY <1>7, <3>2
  <2>3. Word(p.instructions[k]) = u + b + t
    BY <2>1 DEF Word
  <2> HIDE DEF u, t
  <2>4. b + t \in 0 .. 31
    <3> DEFINE n == Len(p.instructions)
    <3>1. n \in 1 .. InstructionWords /\ t \in 0 .. n - 1
      BY <2>1, <1>2
    <3>2. b + (n - 1) \in 0 .. InstructionWords - 1
      BY <2>2 DEF Slots
    <3> HIDE DEF n
    <3> QED BY <3>1, <3>2, <1>3
  <2>5. u + b + t = u + (b + t)
    BY <2>1, <1>2, <1>3
  <2>6. Low5(u + (b + t)) = b + t
    BY <2>1, <2>4, WordFields
  <2> QED BY <2>1, <2>3, <2>5, <2>6
<1> QED BY <1>1, <1>2, <1>3, <1>4, <1>5, <1>6, <1>7

----------------------------------------------------------------------------
(* The allocator and the store.                                            *)

Placed == {c \in Images : SlotsOf(c) \subseteq Slots}

StoreTypes ==
  /\ scene \in DOMAIN Scenes
  /\ allocs \in Seq(Placed)
  /\ refs \in Seq(0 .. 2) /\ Len(refs) = Len(allocs)
  /\ published \in Seq(0 .. 2) /\ Len(published) = Len(allocs)

\* The inductive invariant of the store: every allocation is the image of a source the
\* assembler accepted, inside the store, and the store is coherent.
StoreInv ==
  /\ StoreTypes
  /\ Tiles(bitmap, Live)
  /\ Tiles(imem_valid, Published)
  /\ \A h \in Published : Stored(h)

LEMMA HandleFacts ==
  ASSUME StoreTypes
  PROVE  /\ Handles = 1 .. Len(allocs) /\ Len(allocs) \in Nat
         /\ DOMAIN refs = Handles /\ DOMAIN published = Handles
         /\ \A h \in Handles : /\ allocs[h] \in Placed
                               /\ refs[h] \in 0 .. 2 /\ published[h] \in 0 .. 2
<1>1. DOMAIN allocs = 1 .. Len(allocs) /\ Len(allocs) \in Nat
  BY LenProperties DEF StoreTypes
<1>2. DOMAIN refs = 1 .. Len(allocs) /\ DOMAIN published = 1 .. Len(allocs)
  BY LenProperties DEF StoreTypes
<1>3. ASSUME NEW h \in 1 .. Len(allocs)
      PROVE  allocs[h] \in Placed /\ refs[h] \in 0 .. 2 /\ published[h] \in 0 .. 2
  <2> USE <1>1
  <2>1. allocs[h] \in Placed
    BY ElementOfSeq DEF StoreTypes
  <2>2. refs[h] \in 0 .. 2 /\ published[h] \in 0 .. 2
    BY ElementOfSeq DEF StoreTypes
  <2> QED BY <2>1, <2>2
<1> QED BY <1>1, <1>2, <1>3 DEF Handles

\* A stored image has its branches at the slots of their labels.
LEMMA StoredReaches ==
  ASSUME NEW h \in Handles, allocs[h] \in Placed, Stored(h)
  PROVE  BranchesReach(h)
<1> DEFINE c == allocs[h]
<1>1. c \in Images /\ SlotsOf(c) \subseteq Slots
  BY DEF Placed
<1>2. \A k \in DOMAIN c.words : imem[c.base + k - 1] = c.words[k]
  BY DEF Stored
<1>3. DOMAIN c.program.source = DOMAIN c.words
  BY <1>1, ImageFacts
<1>4. \A k \in DOMAIN c.words :
        Opcode(c.program.source[k].word) = BRANCH =>
          Low5(c.words[k]) =
            c.base + label_offset(c.program.source, c.program.source[k].target)
  BY <1>1, ImageFacts
<1> HIDE DEF c
<1>5. ASSUME NEW k \in DOMAIN c.program.source, Opcode(c.program.source[k].word) = BRANCH
      PROVE  Low5(imem[c.base + k - 1])
               = c.base + label_offset(c.program.source, c.program.source[k].target)
  <2>1. k \in DOMAIN c.words
    BY <1>3
  <2>2. imem[c.base + k - 1] = c.words[k]
    BY <1>2, <2>1
  <2> QED BY <1>4, <1>5, <2>1, <2>2
<1> QED BY <1>5 DEF BranchesReach, c

LEMMA StoreInvCoheres == StoreInv => StoreCoheres
<1> SUFFICES ASSUME StoreInv PROVE StoreCoheres
  OBVIOUS
<1>1. ASSUME NEW h \in Published PROVE Stored(h) /\ BranchesReach(h)
  <2>1. h \in Handles /\ Stored(h)
    BY DEF StoreInv, Published
  <2>2. allocs[h] \in Placed
    BY <2>1, HandleFacts DEF StoreInv
  <2> QED BY <2>1, <2>2, StoredReaches
<1> QED BY <1>1 DEF StoreInv, StoreCoheres

\* Slots of an image, and where the store keeps its words.
LEMMA SlotFacts ==
  ASSUME NEW c \in Placed
  PROVE  /\ c.base \in Nat /\ DOMAIN c.words = 1 .. Len(c.words) /\ Len(c.words) \in Nat \ {0}
         /\ SlotsOf(c) = c.base .. (c.base + Len(c.words) - 1)
         /\ \A k \in DOMAIN c.words :
              /\ c.base + k - 1 \in SlotsOf(c) /\ c.base + k - 1 \in Slots
              /\ (c.base + k - 1) - c.base + 1 = k
<1>1. c \in Images /\ SlotsOf(c) \subseteq Slots
  BY DEF Placed
<1>2. c.base \in Nat /\ DOMAIN c.words = 1 .. Len(c.words) /\ Len(c.words) \in Nat \ {0}
  BY <1>1, ImageFacts
<1>3. SlotsOf(c) = c.base .. (c.base + Len(c.words) - 1)
  BY DEF SlotsOf, Region
<1>4. ASSUME NEW k \in DOMAIN c.words
      PROVE  /\ c.base + k - 1 \in SlotsOf(c)
             /\ (c.base + k - 1) - c.base + 1 = k
  BY <1>2, <1>3
<1> QED BY <1>1, <1>2, <1>3, <1>4

LEMMA StoreKept ==
  ASSUME StoreInv, UNCHANGED <<scene, allocator, store>>
  PROVE  StoreInv'
<1>1. UNCHANGED <<scene, bitmap, allocs, refs, imem, imem_valid, published>>
  BY DEF allocator, store
<1>2. StoreTypes' /\ Handles' = Handles
  BY <1>1 DEF StoreInv, StoreTypes, Handles
<1>3. Live' = Live /\ Published' = Published
  BY <1>1, <1>2 DEF Live, Published
<1>4. Tiles(bitmap, Live)' /\ Tiles(imem_valid, Published)'
  BY <1>1, <1>3 DEF StoreInv, Tiles
<1>5. \A h \in Published' : Stored(h)'
  BY <1>1, <1>3 DEF StoreInv, Stored
<1> QED BY <1>2, <1>4, <1>5 DEF StoreInv

LEMMA UnloadStep ==
  ASSUME StoreInv, NEW h \in Handles, unload(h)
  PROVE  StoreInv'
<1>0. UNCHANGED <<scene, allocs, imem, imem_valid, published>>
  BY DEF unload, store
<1>1. /\ refs[h] \in 1 .. 2 /\ DOMAIN refs = Handles
      /\ \A g \in Handles : refs[g] \in 0 .. 2
  BY HandleFacts DEF StoreInv, unload
<1>2. refs' = [refs EXCEPT ![h] = refs[h] - 1] /\ Handles' = Handles
  BY <1>0 DEF unload, Handles
<1>3. StoreTypes'
  <2>1. refs' \in Seq(0 .. 2) /\ Len(refs') = Len(refs)
    BY <1>1, <1>2 DEF StoreInv, StoreTypes
  <2> QED BY <1>0, <2>1 DEF StoreInv, StoreTypes
<1>4. Published' = Published
  BY <1>0, <1>2 DEF Published
<1>5. Tiles(imem_valid, Published)' /\ \A g \in Published' : Stored(g)'
  BY <1>0, <1>4 DEF StoreInv, Tiles, Stored
<1>6. Live' = IF refs[h] = 1 THEN Live \ {h} ELSE Live
  BY <1>1, <1>2 DEF Live
<1>7. h \in Live
  BY <1>1 DEF Live
<1>8. bitmap' = IF refs[h] = 1 THEN bitmap \ SlotsOf(allocs[h]) ELSE bitmap
  BY DEF unload
<1>9. Tiles(bitmap, Live)'
  <2>1. Tiles(bitmap, Live)
    BY DEF StoreInv
  <2> QED BY <1>0, <1>6, <1>7, <1>8, <2>1 DEF Tiles
<1> QED BY <1>3, <1>5, <1>9 DEF StoreInv

LEMMA PublishStep ==
  ASSUME StoreInv, NEW h \in Handles, publish(h)
  PROVE  StoreInv'
<1>0. UNCHANGED <<scene, bitmap, allocs, refs>> /\ Handles' = Handles
  BY DEF publish, allocator, Handles
<1>1. /\ published[h] \in 0 .. 1 /\ DOMAIN published = Handles
      /\ \A g \in Handles : published[g] \in 0 .. 2 /\ allocs[g] \in Placed
  BY HandleFacts DEF StoreInv, publish
<1>2. published' = [published EXCEPT ![h] = published[h] + 1]
  BY DEF publish
<1>3. StoreTypes'
  <2>1. published' \in Seq(0 .. 2) /\ Len(published') = Len(published)
    BY <1>1, <1>2 DEF StoreInv, StoreTypes
  <2> QED BY <1>0, <2>1 DEF StoreInv, StoreTypes
<1>4. Live' = Live
  BY <1>0 DEF Live
<1>5. Tiles(bitmap, Live)'
  BY <1>0, <1>4 DEF StoreInv, Tiles
<1>6. Published' = Published \cup {h}
  BY <1>0, <1>1, <1>2 DEF Published
<1>7. CASE published[h] > 0 /\ UNCHANGED <<imem, imem_valid>>
  <2>1. Published' = Published
    BY <1>6, <1>7 DEF Published
  <2>2. Tiles(imem_valid, Published)' /\ \A g \in Published' : Stored(g)'
    BY <1>0, <1>7, <2>1 DEF StoreInv, Tiles, Stored
  <2> QED BY <1>3, <1>5, <2>2 DEF StoreInv
<1>8. CASE /\ published[h] = 0
           /\ SlotsOf(allocs[h]) \cap imem_valid = {}
           /\ imem' = [k \in Slots |-> IF k \in SlotsOf(allocs[h])
                                      THEN allocs[h].words[k - allocs[h].base + 1] ELSE imem[k]]
           /\ imem_valid' = imem_valid \cup SlotsOf(allocs[h])
  <2>1. Tiles(imem_valid, Published) /\ h \notin Published
    BY <1>8 DEF StoreInv, Published
  <2>2. \A g \in Published : SlotsOf(allocs[g]) \cap SlotsOf(allocs[h]) = {}
    BY <1>8, <2>1 DEF Tiles
  <2>3. Tiles(imem_valid, Published)'
    BY <1>0, <1>6, <1>8, <2>1, <2>2 DEF Tiles
  <2>4. Stored(h)'
    <3> DEFINE c == allocs[h]
    <3>1. c' = c /\ c \in Placed
      BY <1>0, <1>1
    <3>2. \A k \in DOMAIN c.words :
            /\ c.base + k - 1 \in SlotsOf(c) /\ c.base + k - 1 \in Slots
            /\ (c.base + k - 1) - c.base + 1 = k
      BY <3>1, SlotFacts
    <3>3. \A k \in Slots : k \in SlotsOf(c) => imem'[k] = c.words[k - c.base + 1]
      BY <1>8
    <3> HIDE DEF c
    <3>4. \A k \in DOMAIN c.words : imem'[c.base + k - 1] = c.words[k]
      BY <3>2, <3>3
    <3> QED BY <3>1, <3>4 DEF Stored, c
  <2>5. ASSUME NEW g \in Published PROVE Stored(g)'
    <3> DEFINE c == allocs[g]
    <3>1. c' = c /\ c \in Placed
      BY <1>0, <1>1 DEF Published
    <3>2. \A k \in DOMAIN c.words : c.base + k - 1 \in SlotsOf(c) /\ c.base + k - 1 \in Slots
      BY <3>1, SlotFacts
    <3>3. \A k \in Slots : k \in SlotsOf(c) => imem'[k] = imem[k]
      BY <1>8, <2>2
    <3>4. \A k \in DOMAIN c.words : imem[c.base + k - 1] = c.words[k]
      BY DEF StoreInv, Stored
    <3> HIDE DEF c
    <3>5. \A k \in DOMAIN c.words : imem'[c.base + k - 1] = c.words[k]
      BY <3>2, <3>3, <3>4
    <3> QED BY <3>1, <3>5 DEF Stored, c
  <2> QED BY <1>3, <1>5, <1>6, <2>3, <2>4, <2>5 DEF StoreInv
<1> QED BY <1>7, <1>8 DEF publish

LEMMA UnpublishStep ==
  ASSUME StoreInv, NEW h \in Handles, unpublish(h)
  PROVE  StoreInv'
<1>0. UNCHANGED <<scene, bitmap, allocs, refs, imem>> /\ Handles' = Handles
  BY DEF unpublish, allocator, Handles
<1>1. /\ published[h] \in 1 .. 2 /\ DOMAIN published = Handles
      /\ \A g \in Handles : published[g] \in 0 .. 2
  BY HandleFacts DEF StoreInv, unpublish
<1>2. published' = [published EXCEPT ![h] = published[h] - 1]
  BY DEF unpublish
<1>3. StoreTypes'
  <2>1. published' \in Seq(0 .. 2) /\ Len(published') = Len(published)
    BY <1>1, <1>2 DEF StoreInv, StoreTypes
  <2> QED BY <1>0, <2>1 DEF StoreInv, StoreTypes
<1>4. Live' = Live
  BY <1>0 DEF Live
<1>5. Tiles(bitmap, Live)'
  BY <1>0, <1>4 DEF StoreInv, Tiles
<1>6. Published' = IF published[h] = 1 THEN Published \ {h} ELSE Published
  BY <1>0, <1>1, <1>2 DEF Published
<1>7. h \in Published
  BY <1>1 DEF Published
<1>8. imem_valid' = IF published[h] = 1 THEN imem_valid \ SlotsOf(allocs[h]) ELSE imem_valid
  BY DEF unpublish
<1>9. Tiles(imem_valid, Published)'
  <2>1. Tiles(imem_valid, Published)
    BY DEF StoreInv
  <2>2. CASE published[h] = 1
    <3>1. Published' = Published \ {h} /\ imem_valid' = imem_valid \ SlotsOf(allocs[h])
      BY <1>6, <1>8, <2>2
    <3> QED BY <1>0, <1>7, <2>1, <3>1 DEF Tiles
  <2>3. CASE published[h] # 1
    BY <1>0, <1>6, <1>8, <2>1, <2>3 DEF Tiles
  <2> QED BY <2>2, <2>3
<1>10. \A g \in Published' : Stored(g)'
  BY <1>0, <1>6 DEF StoreInv, Stored
<1> QED BY <1>3, <1>5, <1>9, <1>10 DEF StoreInv

LEMMA InvalidateStep ==
  ASSUME StoreInv, invalidate_imem
  PROVE  StoreInv'
<1>0. UNCHANGED <<scene, bitmap, allocs, refs>> /\ Handles' = Handles
  BY DEF invalidate_imem, allocator, Handles
<1>1. Handles = 1 .. Len(allocs) /\ Len(allocs) \in Nat
  BY HandleFacts DEF StoreInv
<1>2. published' = [g \in Handles |-> 0] /\ imem_valid' = {}
  BY DEF invalidate_imem
<1>3. StoreTypes'
  <2>1. published' \in Seq(0 .. 2) /\ Len(published') = Len(allocs)
    BY <1>1, <1>2
  <2> QED BY <1>0, <2>1 DEF StoreInv, StoreTypes
<1>4. Live' = Live
  BY <1>0 DEF Live
<1>5. Tiles(bitmap, Live)'
  BY <1>0, <1>4 DEF StoreInv, Tiles
<1>6. Published' = {}
  BY <1>0, <1>2 DEF Published
<1>7. Tiles(imem_valid, Published)'
  BY <1>2, <1>6 DEF Tiles
<1>8. \A g \in Published' : Stored(g)'
  BY <1>6
<1> QED BY <1>3, <1>5, <1>7, <1>8 DEF StoreInv

LEMMA LeastOf ==
  ASSUME NEW S \in SUBSET Nat, S # {}
  PROVE  Min(S) \in S
<1>1. PICK x \in S : \A y \in S : ~(<<y, x>> \in OpToRel(<, Nat))
  BY NatLessThanWellFounded, WFMin
<1>2. \A y \in S : ~(y < x)
  BY <1>1 DEF OpToRel
<1>3. \A y \in S : x =< y
  BY <1>2
<1> QED BY <1>3 DEF Min

\* A base is a slot: the caller names slot 1, or first fit chooses one.
LEMMA LoadBase ==
  ASSUME NEW base \in {1, NoPin}, NEW used, NEW n,
         NEW b \in IF base = NoPin THEN first_fit(used, n) ELSE {base}
  PROVE  b \in Nat
<1>1. CASE base = NoPin
  <2> DEFINE free == {k \in Slots : Fits(used, k, n)}
  <2>1. free # {} /\ b = Min(free)
    BY <1>1 DEF first_fit
  <2>2. free \subseteq Nat
    BY PioAssumption DEF Slots
  <2> HIDE DEF free
  <2> QED BY <2>1, <2>2, LeastOf
<1> QED BY <1>1

LEMMA RelocatedSlots ==
  ASSUME NEW src \in AllSources, NEW p \in assemble(src), NEW b \in Nat
  PROVE  SlotsOf(relocate_program(p, b)) = Region(b, Len(p.instructions))
<1> DEFINE c == relocate_program(p, b)
           Word(w) == IF Opcode(w) = BRANCH THEN w - Low5(w) + b + Low5(w) ELSE w
<1>1. /\ c.base = b
      /\ c.words = [i \in DOMAIN p.instructions |-> Word(p.instructions[i])]
  BY DEF relocate_program
<1> HIDE DEF Word, c
<1>2. /\ DOMAIN p.instructions = 1 .. Len(p.instructions)
      /\ Len(p.instructions) \in 1 .. InstructionWords
  BY AcceptedFacts
<1>3. c.words \in [1 .. Len(p.instructions) -> {Word(p.instructions[i]) : i \in DOMAIN p.instructions}]
  BY <1>1, <1>2
<1>4. Len(c.words) = Len(p.instructions)
  BY <1>2, <1>3, PioAssumption
<1> QED BY <1>1, <1>4 DEF SlotsOf, c

LEMMA LoadStep ==
  ASSUME StoreInv, NEW src \in AllSources, NEW base \in {1, NoPin}, load(src, base)
  PROVE  StoreInv'
<1>0. UNCHANGED <<scene, imem, imem_valid>>
  BY DEF load
<1>1. /\ Handles = 1 .. Len(allocs) /\ Len(allocs) \in Nat
      /\ DOMAIN refs = Handles /\ DOMAIN published = Handles
      /\ \A h \in Handles : refs[h] \in 0 .. 2 /\ published[h] \in 0 .. 2
  BY HandleFacts DEF StoreInv
<1>2. PICK p \in assemble(src) :
        \/ /\ \E h \in Handles : /\ refs[h] > 0 /\ refs[h] < 2
                                 /\ refs' = [refs EXCEPT ![h] = @ + 1]
           /\ UNCHANGED <<bitmap, allocs, published>>
        \/ \E b \in IF base = NoPin THEN first_fit(bitmap, Len(p.instructions)) ELSE {base} :
             /\ Fits(bitmap, b, Len(p.instructions))
             /\ allocs' = Append(allocs, relocate_program(p, b))
             /\ refs' = Append(refs, 1)
             /\ published' = Append(published, 0)
             /\ bitmap' = bitmap \cup Region(b, Len(p.instructions))
  BY DEF load
<1>3. ASSUME NEW h \in Handles, refs[h] > 0, refs[h] < 2,
             refs' = [refs EXCEPT ![h] = refs[h] + 1], UNCHANGED <<bitmap, allocs, published>>
      PROVE  StoreInv'
  <2>1. refs' \in Seq(0 .. 2) /\ Len(refs') = Len(refs)
    BY <1>1, <1>3 DEF StoreInv, StoreTypes
  <2>2. StoreTypes'
    BY <1>0, <1>3, <2>1 DEF StoreInv, StoreTypes
  <2>3. Handles' = Handles /\ Live' = Live /\ Published' = Published
    BY <1>1, <1>3 DEF Handles, Live, Published
  <2>4. Tiles(bitmap, Live)' /\ Tiles(imem_valid, Published)'
    BY <1>0, <1>3, <2>3 DEF StoreInv, Tiles
  <2>5. \A g \in Published' : Stored(g)'
    BY <1>0, <1>3, <2>3 DEF StoreInv, Stored
  <2> QED BY <2>2, <2>4, <2>5 DEF StoreInv
<1>4. ASSUME NEW b \in IF base = NoPin THEN first_fit(bitmap, Len(p.instructions)) ELSE {base},
             Fits(bitmap, b, Len(p.instructions)),
             allocs' = Append(allocs, relocate_program(p, b)),
             refs' = Append(refs, 1), published' = Append(published, 0),
             bitmap' = bitmap \cup Region(b, Len(p.instructions))
      PROVE  StoreInv'
  <2> DEFINE c == relocate_program(p, b)
             n == Len(allocs) + 1
  <2>1. b \in Nat
    BY <1>4, LoadBase
  <2>2. c \in Images
    BY <2>1 DEF Images, Accepted
  <2>3. SlotsOf(c) = Region(b, Len(p.instructions))
    BY <2>1, RelocatedSlots
  <2>4. c \in Placed /\ SlotsOf(c) \cap bitmap = {}
    <3>1. Region(b, Len(p.instructions)) \cap bitmap = {}
      BY <1>4 DEF Fits
    <3>2. Region(b, Len(p.instructions)) \subseteq Slots
      BY <1>4, <2>1, PioAssumption, AcceptedFacts DEF Fits, Region, Slots
    <3> QED BY <2>2, <2>3, <3>1, <3>2 DEF Placed
  <2> HIDE DEF c
  <2>5. /\ allocs' \in Seq(Placed) /\ Len(allocs') = n /\ allocs'[n] = c
        /\ \A h \in Handles : allocs'[h] = allocs[h]
    BY <1>1, <1>4, <2>4, AppendProperties DEF StoreInv, StoreTypes, c
  <2>6. /\ refs' \in Seq(0 .. 2) /\ Len(refs') = n /\ refs'[n] = 1
        /\ \A h \in Handles : refs'[h] = refs[h]
    BY <1>1, <1>4, AppendProperties DEF StoreInv, StoreTypes
  <2>7. /\ published' \in Seq(0 .. 2) /\ Len(published') = n /\ published'[n] = 0
        /\ \A h \in Handles : published'[h] = published[h]
    BY <1>1, <1>4, AppendProperties DEF StoreInv, StoreTypes
  <2>8. StoreTypes'
    BY <1>0, <2>5, <2>6, <2>7 DEF StoreInv, StoreTypes
  <2>9. Handles' = Handles \cup {n} /\ n \notin Handles
    <3>1. DOMAIN allocs' = 1 .. n
      BY <2>5, LenProperties
    <3> QED BY <1>1, <3>1 DEF Handles
  <2> HIDE DEF n
  <2>10. Live' = Live \cup {n} /\ n \notin Live
    BY <2>6, <2>9 DEF Live
  <2>11. Published' = Published
    BY <2>7, <2>9 DEF Published
  <2>12. ASSUME NEW h \in Handles PROVE SlotsOf(allocs[h])' = SlotsOf(allocs[h])
    BY <2>5, <2>12 DEF SlotsOf
  <2>13. SlotsOf(allocs'[n]) = SlotsOf(c)
    BY <2>5
  <2>14. Tiles(bitmap, Live)'
    <3>1. Tiles(bitmap, Live) /\ Live \subseteq Handles
      BY DEF StoreInv, Live
    <3>2. bitmap' = bitmap \cup SlotsOf(c)
      BY <1>4, <2>3
    <3>3. \A h \in Live : SlotsOf(allocs[h]) \cap SlotsOf(c) = {}
      BY <2>4, <3>1 DEF Tiles
    <3>4. \A h \in Live : SlotsOf(allocs'[h]) = SlotsOf(allocs[h])
      BY <2>5, <3>1
    <3> QED BY <2>10, <2>13, <3>1, <3>2, <3>3, <3>4 DEF Tiles
  <2>15. Tiles(imem_valid, Published)'
    <3>1. Tiles(imem_valid, Published) /\ Published \subseteq Handles
      BY DEF StoreInv, Published
    <3>2. \A h \in Published : SlotsOf(allocs'[h]) = SlotsOf(allocs[h])
      BY <2>5, <3>1
    <3> QED BY <1>0, <2>11, <3>1, <3>2 DEF Tiles
  <2>16. ASSUME NEW g \in Published PROVE Stored(g)'
    <3>1. g \in Handles /\ Stored(g)
      BY DEF StoreInv, Published
    <3> QED BY <1>0, <2>5, <3>1 DEF Stored
  <2> QED BY <2>8, <2>11, <2>14, <2>15, <2>16 DEF StoreInv
<1> QED BY <1>2, <1>3, <1>4

LEMMA StoreStep == StoreInv /\ [Next]_vars => StoreInv'
<1> SUFFICES ASSUME StoreInv, [Next]_vars PROVE StoreInv'
  OBVIOUS
<1>1. ASSUME NEW src \in Scenes[scene].sources, NEW base \in {1, NoPin}, load(src, base) PROVE StoreInv'
  <2>1. src \in AllSources
    BY DEF AllSources, StoreInv, StoreTypes
  <2> QED BY <1>1, <2>1, LoadStep
<1>2. CASE Churn(Scenes[scene])
  <2>1. ASSUME NEW i, NEW h, NEW d, configure(i, h, d) PROVE StoreInv'
    BY <2>1, StoreKept DEF configure
  <2> QED BY <1>1, <1>2, <2>1, UnloadStep, PublishStep, UnpublishStep, InvalidateStep DEF Churn
<1>3. ASSUME NEW mask, start(mask) \/ sm_reset(mask) PROVE StoreInv'
  BY <1>3, StoreKept DEF start, sm_reset
<1>4. CASE Edge(Scenes[scene])
  <2>1. ASSUME NEW ran, NEW ext, NEW put, NEW readers, step(ran, ext, put, readers)
        PROVE  StoreInv'
    BY <2>1, StoreKept DEF step
  <2> QED BY <1>4, <2>1 DEF Edge
<1>5. CASE UNCHANGED vars
  BY <1>5, StoreKept DEF vars
<1> QED BY <1>2, <1>3, <1>4, <1>5 DEF Next

LEMMA StoreInit == Init => StoreInv
<1> SUFFICES ASSUME Init PROVE StoreInv
  OBVIOUS
<1>0. scene \in DOMAIN Scenes
  BY DEF Init
<1>1. PICK r \in Scenes[scene].ready :
        (\A k \in DOMAIN r : assemble(r[k]) # {}) /\ allocs = Ready(r)
  BY DEF Init
<1> DEFINE A(k) == CHOOSE p \in assemble(r[k]) : TRUE
           B(k) == IF k = 1 THEN 0 ELSE Len(A(1).instructions)
<1>2. Len(r) \in 0 .. 2 /\ DOMAIN r = 1 .. Len(r)
  BY <1>0, <1>1, SceneAssumption
<1>3. allocs = [k \in DOMAIN r |-> relocate_program(A(k), B(k))]
  BY <1>1 DEF Ready
<1>4. ASSUME NEW k \in DOMAIN r
      PROVE  r[k] \in AllSources /\ A(k) \in assemble(r[k])
  <2>1. r[k] \in Range(r)
    BY DEF Range
  <2>2. r[k] \in AllSources
    BY <1>0, <1>1, <2>1 DEF AllSources
  <2>3. assemble(r[k]) # {}
    BY <1>1
  <2>4. A(k) \in assemble(r[k])
    BY <2>3
  <2> QED BY <2>2, <2>4
<1> HIDE DEF A
<1>5. ASSUME NEW k \in DOMAIN r
      PROVE  Len(A(k).instructions) \in Nat \ {0}
  <2>1. Len(A(k).instructions) \in 1 .. InstructionWords
    BY <1>4, AcceptedFacts
  <2> QED BY <2>1, PioAssumption
<1>6. ASSUME NEW k \in DOMAIN r PROVE B(k) \in Nat
  BY <1>2, <1>5
<1> HIDE DEF B
<1>7. Handles = DOMAIN r
  BY <1>3 DEF Handles
<1>8. ASSUME NEW k \in Handles
      PROVE  /\ allocs[k] \in Placed
             /\ SlotsOf(allocs[k]) = Region(B(k), Len(A(k).instructions))
  <2>1. k \in DOMAIN r /\ allocs[k] = relocate_program(A(k), B(k))
    BY <1>3, <1>7
  <2>2. allocs[k] \in Images
    BY <2>1, <1>4, <1>6 DEF Images, Accepted
  <2>3. SlotsOf(allocs[k]) \subseteq Slots
    BY DEF Init
  <2>4. SlotsOf(allocs[k]) = Region(B(k), Len(A(k).instructions))
    BY <2>1, <1>4, <1>6, RelocatedSlots
  <2> QED BY <2>2, <2>3, <2>4 DEF Placed
<1>9. StoreTypes
  <2>1. allocs \in Seq(Placed) /\ Len(allocs) = Len(r)
    <3>1. allocs \in [1 .. Len(r) -> Placed]
      BY <1>2, <1>3, <1>7, <1>8
    <3> QED BY <1>2, <3>1
  <2>2. refs = [h \in 1 .. Len(r) |-> 1] /\ published = refs
    BY <1>2, <1>7 DEF Init
  <2>3. refs \in Seq(0 .. 2) /\ Len(refs) = Len(r)
    BY <1>2, <2>2
  <2> QED BY <1>0, <2>1, <2>2, <2>3 DEF StoreTypes
<1>10. Live = Handles /\ Published = Handles
  BY DEF Init, Live, Published
<1>11. ASSUME NEW g \in Handles, NEW h \in Handles, g # h
       PROVE  SlotsOf(allocs[g]) \cap SlotsOf(allocs[h]) = {}
  <2>1. 1 \in DOMAIN r
    BY <1>2, <1>7
  <2> DEFINE n == Len(A(1).instructions)
  <2>2. n \in Nat \ {0}
    BY <2>1, <1>5
  <2>3. B(1) = 0 /\ (2 \in DOMAIN r => B(2) = n /\ Len(A(2).instructions) \in Nat)
    BY <1>5 DEF B
  <2>4. Region(0, n) \cap Region(n, Len(A(2).instructions)) = {} \/ 2 \notin DOMAIN r
    <3> SUFFICES ASSUME 2 \in DOMAIN r
                 PROVE  Region(0, n) \cap Region(n, Len(A(2).instructions)) = {}
      OBVIOUS
    <3> DEFINE m == Len(A(2).instructions)
    <3>1. m \in Nat
      BY <2>3
    <3> HIDE DEF n, m
    <3>2. Region(0, n) \cap Region(n, m) = {}
      BY <2>2, <3>1 DEF Region
    <3> QED BY <3>2 DEF m
  <2>5. (g = 1 /\ h = 2) \/ (g = 2 /\ h = 1)
    BY <1>2, <1>7, <1>11
  <2>6. SlotsOf(allocs[1]) = Region(0, n) /\ SlotsOf(allocs[2]) = Region(n, Len(A(2).instructions))
    BY <1>7, <1>8, <2>3, <2>5
  <2> QED BY <1>7, <2>4, <2>5, <2>6
<1>12. Tiles(bitmap, Live) /\ Tiles(imem_valid, Published)
  BY <1>10, <1>11 DEF Tiles, Init
<1>13. ASSUME NEW h \in Handles PROVE Stored(h)
  <2> DEFINE c == allocs[h]
             Owner(k) == CHOOSE g \in Handles : k \in SlotsOf(allocs[g])
  <2>1. c \in Placed
    BY <1>8
  <2>2. \A k \in DOMAIN c.words :
          /\ c.base + k - 1 \in SlotsOf(c) /\ c.base + k - 1 \in Slots
          /\ (c.base + k - 1) - c.base + 1 = k
    BY <2>1, SlotFacts
  <2>3. ASSUME NEW x \in Slots, x \in SlotsOf(c)
        PROVE  imem[x] = c.words[x - c.base + 1]
    <3>1. Owner(x) \in Handles /\ x \in SlotsOf(allocs[Owner(x)])
      BY <2>3
    <3>2. Owner(x) = h
      BY <1>11, <2>3, <3>1
    <3>3. imem[x] = allocs[Owner(x)].words[x - allocs[Owner(x)].base + 1]
      BY <2>3 DEF Init
    <3> QED BY <3>2, <3>3
  <2> HIDE DEF c
  <2>4. \A k \in DOMAIN c.words : imem[c.base + k - 1] = c.words[k]
    BY <2>2, <2>3
  <2> QED BY <2>4 DEF Stored, c
<1> QED BY <1>9, <1>10, <1>12, <1>13 DEF StoreInv

\* StoreCoheres for all accepted sources, all store sizes and every sequence of loads,
\* publications, their reversals and reuse of slots: the allocator's bitmap and the
\* valid bits are exactly the disjoint regions of the live allocations and published
\* images, the words are theirs, and branches reach the slots of their labels.
THEOREM StoreStaysCoherent == Spec => []StoreCoheres
<1>1. StoreInv /\ [Next]_vars => StoreInv'
  BY StoreStep
<1> QED BY <1>1, StoreInit, StoreInvCoheres, PTL DEF Spec

----------------------------------------------------------------------------
(* The pins.  Of a state machine only these matter: what it is configured  *)
(* for, its lifecycle state, its output enables and, for the faults, its   *)
(* pc and fault code, which no instruction changes by itself.              *)

IsSM(sm) == {"config", "state", "oe", "pc", "fault"} \subseteq DOMAIN sm

Keeps(r, sm) ==
  IsSM(r) /\ r.config = sm.config /\ r.state = sm.state /\ r.pc = sm.pc /\ r.fault = sm.fault
Like(r, sm) == Keeps(r, sm) /\ r.oe = sm.oe
Drives(r, sm, c) == Keeps(r, sm) /\ r.oe \subseteq output_mask(c)

\* An outcome of apply, whose copy of the machine drives only its own pins.
Applies(a, sm, c) ==
  "sm" \in DOMAIN a /\ Drives(a.sm, sm, c) /\ a.end \in {"done", "stall", "fault"}

LEMMA Outcomes ==
  ASSUME NEW r, NEW sm, NEW c, Drives(r, sm, c), NEW v
  PROVE  /\ Applies(Done(r), sm, c)
         /\ Applies(Stall(r, v), sm, c)
         /\ Applies(Fault(r, v), sm, c)
         /\ Applies([Done(r) EXCEPT !.set = v], sm, c)
         /\ Applies([Done(r) EXCEPT !.clear = v], sm, c)
BY DEF Applies, Done, Stall, Fault

LEMMA LikeDrives ==
  ASSUME NEW r, NEW sm, NEW c, Like(r, sm), sm.oe \subseteq output_mask(c)
  PROVE  Drives(r, sm, c)
BY DEF Like, Drives, Keeps

LEMMA MasksOut ==
  ASSUME NEW c, NEW v
  PROVE  /\ Mask(c.program.out_window) \subseteq output_mask(c)
         /\ Mask(c.program.set_window) \subseteq output_mask(c)
         /\ BitsAt(c.program.set_window, v) \subseteq output_mask(c)
BY DEF output_mask, BitsAt

LEMMA CountNat == ASSUME NEW w \in Nat PROVE encoded_count(Low5(w)) \in Nat
BY PioAssumption DEF encoded_count, Low5, Operand

LEMMA FifoKeeps ==
  ASSUME NEW sm, IsSM(sm), NEW c
  PROVE  Like(Pushed(sm, c), sm) /\ Like(Pulled(sm, c), sm) /\ Like(fifo_failed(sm), sm)
BY DEF IsSM, Like, Pushed, Pulled, fifo_failed, Keeps

LEMMA FifoDrives ==
  ASSUME NEW sm, IsSM(sm), NEW c, sm.oe \subseteq output_mask(c), NEW w
  PROVE  Applies(apply_fifo(sm, c, w), sm, c)
<1>1. /\ Drives(sm, sm, c) /\ Drives(Pushed(sm, c), sm, c)
      /\ Drives(Pulled(sm, c), sm, c) /\ Drives(fifo_failed(sm), sm, c)
  BY FifoKeeps, LikeDrives DEF Drives, Keeps
<1> QED BY <1>1, Outcomes DEF apply_fifo

LEMMA ShiftOutDrives ==
  ASSUME NEW sm, IsSM(sm), NEW c, sm.oe \subseteq output_mask(c), NEW w \in Nat,
         c.program.out_window \in [base : Nat, width : Nat]
  PROVE  Applies(ShiftOut(sm, c, w), sm, c)
<1> DEFINE count == encoded_count(Low5(w))
           rest == sm.osr_count - count
           chunk == IF c.program.tx.right THEN sm.osr % MaskOf(count) ELSE sm.osr \div 2^rest
           left == IF c.program.tx.right THEN sm.osr \div 2^count ELSE sm.osr % MaskOf(rest)
           next == [sm EXCEPT !.osr = left, !.osr_count = rest]
           win == c.program.out_window
           touched == Mask(Window(win.base, count))
           level == BitsAt(Window(win.base, count), chunk)
           value == [next EXCEPT !.value = (@ \ touched) \cup level]
           dirs == [next EXCEPT !.oe = (@ \ touched) \cup level]
           x == [next EXCEPT !.x = chunk % MaskOf(HalfBits)]
           y == [next EXCEPT !.y = chunk % MaskOf(HalfBits)]
<1>1. ShiftOut(sm, c, w) =
        CASE Sel(w) \in {0, 1} /\ (count > win.width \/ ~require_output(c, win)) ->
               Fault(next, "PIN_AUTHORIZATION")
          [] Sel(w) = 0 /\ count <= win.width /\ require_output(c, win) -> Done(value)
          [] Sel(w) = 1 /\ count <= win.width /\ require_output(c, win) -> Done(dirs)
          [] Sel(w) = 2 -> Done(x)
          [] Sel(w) = 3 -> Done(y)
          [] OTHER -> Done(next)
  BY DEF ShiftOut
<1>2. count \in Nat
  BY CountNat
<1>3. level \subseteq touched
  BY DEF BitsAt
<1> HIDE DEF count, rest, chunk, left, level
<1>4. Like(next, sm)
  BY DEF IsSM, Like, Keeps
<1>5. Like(value, sm) /\ Like(x, sm) /\ Like(y, sm)
  BY DEF IsSM, Like, Keeps
<1>6. count <= win.width => Drives(dirs, sm, c)
  <2> SUFFICES ASSUME count <= win.width PROVE Drives(dirs, sm, c)
    OBVIOUS
  <2>1. touched \subseteq Mask(win)
    <3>1. win.base \in Nat /\ win.width \in Nat
      OBVIOUS
    <3>2. PinCount \in Nat
      BY PioAssumption
    <3> HIDE DEF win
    <3> QED BY <1>2, <3>1, <3>2 DEF Mask, Window, Pins
  <2>2. level \subseteq output_mask(c)
    BY <1>3, <2>1, MasksOut
  <2> HIDE DEF touched, next
  <2>3. dirs.oe = (next.oe \ touched) \cup level /\ IsSM(dirs)
        /\ dirs.config = next.config /\ dirs.state = next.state
    BY <1>4 DEF Like, IsSM, Keeps
  <2> QED BY <1>4, <2>2, <2>3 DEF Like, Drives, Keeps
<1> HIDE DEF next, value, dirs, x, y, win
<1>7. Drives(next, sm, c) /\ Drives(value, sm, c) /\ Drives(x, sm, c) /\ Drives(y, sm, c)
  BY <1>4, <1>5, LikeDrives
<1>8. /\ Applies(Fault(next, "PIN_AUTHORIZATION"), sm, c) /\ Applies(Done(value), sm, c)
      /\ Applies(Done(x), sm, c) /\ Applies(Done(y), sm, c) /\ Applies(Done(next), sm, c)
      /\ count <= win.width => Applies(Done(dirs), sm, c)
  BY <1>6, <1>7, Outcomes
<1> QED BY <1>1, <1>8

LEMMA OutDrives ==
  ASSUME NEW sm, IsSM(sm), NEW c, sm.oe \subseteq output_mask(c), NEW w \in Nat,
         c.program.out_window \in [base : Nat, width : Nat]
  PROVE  Applies(apply_out(sm, c, w), sm, c)
<1>1. Drives(sm, sm, c)
  BY DEF Drives, Keeps
<1>2. Applies(Fault(sm, "SHIFT_BOUNDS"), sm, c) /\ Applies(Stall(sm, "TX"), sm, c)
  BY <1>1, Outcomes
<1>3. Applies(ShiftOut(sm, c, w), sm, c)
  BY ShiftOutDrives
<1>4. Applies(ShiftOut(Pulled(sm, c), c, w), sm, c)
  <2> DEFINE r == Pulled(sm, c)
  <2>1. Like(r, sm)
    BY FifoKeeps
  <2> HIDE DEF r
  <2>2. Applies(ShiftOut(r, c, w), r, c)
    BY <2>1, ShiftOutDrives DEF Like, Keeps
  <2> QED BY <2>1, <2>2 DEF Applies, Drives, Like, r, Keeps
<1> QED BY <1>2, <1>3, <1>4 DEF apply_out

LEMMA InDrives ==
  ASSUME NEW sm, IsSM(sm), NEW c, sm.oe \subseteq output_mask(c), NEW w, NEW pins
  PROVE  Applies(apply_in(sm, c, w, pins), sm, c)
<1> DEFINE count == encoded_count(Low5(w))
           total == sm.isr_count + count
           limit == IF c.program.rx.auto THEN c.program.rx.bits ELSE WordBits
           complete == c.program.rx.auto /\ total = c.program.rx.bits
           win == c.program.in_window
           source == CASE Sel(w) = 0 -> ValueAt(win, pins) [] Sel(w) = 1 -> sm.x
                       [] Sel(w) = 2 -> sm.y [] OTHER -> 0
           value == source % MaskOf(count)
           isr == IF c.program.rx.right THEN (sm.isr \div 2^count) + value * 2^(WordBits - count)
                                       ELSE (sm.isr * 2^count + value) % MaskOf(WordBits)
           next == [sm EXCEPT !.isr = isr, !.isr_count = total]
           denied == Sel(w) = 0 /\ (count > win.width \/ ~(Mask(win) \subseteq claim_mask(c)))
<1>1. apply_in(sm, c, w, pins) =
        CASE total > limit -> Fault(sm, "SHIFT_BOUNDS")
          [] total <= limit /\ complete /\ Len(sm.rx) >= FifoDepth -> Stall(sm, "RX")
          [] OTHER -> IF denied THEN Fault(sm, "PIN_AUTHORIZATION")
                                ELSE Done(IF complete THEN Pushed(next, c) ELSE next)
  BY DEF apply_in
<1> HIDE DEF isr, total, limit, complete, denied
<1>2. Like(next, sm)
  BY DEF IsSM, Like, Keeps
<1> HIDE DEF next
<1>3. Like(Pushed(next, c), sm)
  BY <1>2, FifoKeeps DEF Like, Keeps
<1>4. Drives(sm, sm, c) /\ Drives(next, sm, c) /\ Drives(Pushed(next, c), sm, c)
  BY <1>2, <1>3, LikeDrives DEF Drives, Keeps
<1>5. /\ Applies(Fault(sm, "SHIFT_BOUNDS"), sm, c) /\ Applies(Stall(sm, "RX"), sm, c)
      /\ Applies(Fault(sm, "PIN_AUTHORIZATION"), sm, c)
      /\ Applies(Done(Pushed(next, c)), sm, c) /\ Applies(Done(next), sm, c)
  BY <1>4, Outcomes
<1> QED BY <1>1, <1>5

LEMMA MoveKeeps ==
  ASSUME NEW sm, IsSM(sm), NEW w
  PROVE  Like(apply_move(sm, w), sm)
<1> DEFINE source == (Operand(w) \div 8) % 8
           value == CASE source = 0 -> sm.isr [] source = 1 -> sm.osr [] source = 2 -> sm.x
                      [] source = 3 -> sm.y [] source = 4 -> 0 [] OTHER -> 2^WordBits - 1
           dest == Operand(w) \div 64
<1>1. apply_move(sm, w) =
        CASE dest = 0 -> [sm EXCEPT !.isr = value, !.isr_count = WordBits]
          [] dest = 1 -> [sm EXCEPT !.osr = value, !.osr_count = WordBits]
          [] dest = 2 -> [sm EXCEPT !.x = value % MaskOf(HalfBits)]
          [] OTHER    -> [sm EXCEPT !.y = value % MaskOf(HalfBits)]
  BY DEF apply_move
<1> HIDE DEF value, dest
<1>2. /\ Like([sm EXCEPT !.isr = value, !.isr_count = WordBits], sm)
      /\ Like([sm EXCEPT !.osr = value, !.osr_count = WordBits], sm)
      /\ Like([sm EXCEPT !.x = value % MaskOf(HalfBits)], sm)
      /\ Like([sm EXCEPT !.y = value % MaskOf(HalfBits)], sm)
  BY DEF IsSM, Like, Keeps
<1> QED BY <1>1, <1>2

LEMMA SetDrives ==
  ASSUME NEW sm, IsSM(sm), NEW c, sm.oe \subseteq output_mask(c), NEW w
  PROVE  Applies(apply_set(sm, c, w), sm, c)
<1> DEFINE win == c.program.set_window
           level == BitsAt(win, Operand(w))
           value == [sm EXCEPT !.value = (@ \ Mask(win)) \cup level]
           dirs == [sm EXCEPT !.oe = (@ \ Mask(win)) \cup level]
<1>1. apply_set(sm, c, w) =
        CASE win.width = 0 \/ ~require_output(c, win) -> Fault(sm, "PIN_AUTHORIZATION")
          [] win.width > 0 /\ require_output(c, win) /\ Opcode(w) = SET_PIN -> Done(value)
          [] OTHER -> Done(dirs)
  BY DEF apply_set
<1>2. level \subseteq output_mask(c)
  BY MasksOut
<1> HIDE DEF level, win
<1>3. Like(value, sm)
  BY DEF IsSM, Like, Keeps
<1>4. Drives(dirs, sm, c)
  <2>1. dirs.oe = (sm.oe \ Mask(win)) \cup level
    BY DEF IsSM
  <2>2. IsSM(dirs) /\ dirs.config = sm.config /\ dirs.state = sm.state
    BY DEF IsSM
  <2> QED BY <1>2, <2>1, <2>2 DEF Drives, Keeps
<1> HIDE DEF value, dirs
<1>5. Drives(value, sm, c) /\ Drives(sm, sm, c)
  BY <1>3, LikeDrives DEF Drives, Keeps
<1>6. /\ Applies(Fault(sm, "PIN_AUTHORIZATION"), sm, c)
      /\ Applies(Done(value), sm, c) /\ Applies(Done(dirs), sm, c)
  BY <1>4, <1>5, Outcomes
<1> QED BY <1>1, <1>6

LEMMA WaitDrives ==
  ASSUME NEW sm, IsSM(sm), NEW c, sm.oe \subseteq output_mask(c), NEW w, NEW flgs, NEW pins
  PROVE  Applies(apply_wait(sm, c, w, flgs, pins), sm, c)
<1> DEFINE onPin == Bit(w, 7) = 0
           observed == IF onPin THEN WaitIndex(w) \in pins ELSE WaitIndex(w) \in flgs
           why == IF onPin THEN "PIN" ELSE "FLAG"
<1>1. apply_wait(sm, c, w, flgs, pins) =
        CASE onPin /\ WaitIndex(w) \notin claim_mask(c) -> Fault(sm, "PIN_AUTHORIZATION")
          [] ~(onPin /\ WaitIndex(w) \notin claim_mask(c)) /\ observed # (Bit(w, 6) = 1) ->
                 Stall(sm, why)
          [] OTHER -> Done(sm)
  BY DEF apply_wait
<1> HIDE DEF observed, why
<1>2. Drives(sm, sm, c)
  BY DEF Drives, Keeps
<1>3. /\ Applies(Fault(sm, "PIN_AUTHORIZATION"), sm, c) /\ Applies(Stall(sm, why), sm, c)
      /\ Applies(Done(sm), sm, c)
  BY <1>2, Outcomes
<1> QED BY <1>1, <1>3

LEMMA ApplyDrives ==
  ASSUME NEW sm, IsSM(sm), NEW c, sm.oe \subseteq output_mask(c), NEW w \in Nat,
         c.program.out_window \in [base : Nat, width : Nat], NEW flgs, NEW pins
  PROVE  Applies(apply(sm, c, w, flgs, pins), sm, c)
<1> DEFINE noIsr == [sm EXCEPT !.isr = 0, !.isr_count = 0]
           noOsr == [sm EXCEPT !.osr = 0, !.osr_count = 0]
           toY == [sm EXCEPT !.y = Operand(w) % 128]
           toX == [sm EXCEPT !.x = Operand(w) % 128]
           decX == [sm EXCEPT !.x = @ - 1]
           decY == [sm EXCEPT !.y = @ - 1]
<1>1. /\ Like(noIsr, sm) /\ Like(noOsr, sm) /\ Like(toX, sm) /\ Like(toY, sm)
      /\ Like(decX, sm) /\ Like(decY, sm)
  BY DEF IsSM, Like, Keeps
<1>2. apply(sm, c, w, flgs, pins) =
        CASE Opcode(w) = CTRL /\ Sel(w) = 2 -> Done(noIsr)
          [] Opcode(w) = CTRL /\ Sel(w) = 3 -> Done(noOsr)
          [] Opcode(w) \in {SET_PIN, SET_DIR} -> apply_set(sm, c, w)
          [] Opcode(w) = SET_COUNT /\ Bit(w, 7) = 1 -> Done(toY)
          [] Opcode(w) = SET_COUNT /\ Bit(w, 7) = 0 -> Done(toX)
          [] Opcode(w) = IN_ -> apply_in(sm, c, w, pins)
          [] Opcode(w) = OUT_ -> apply_out(sm, c, w)
          [] Opcode(w) = MOVE -> Done(apply_move(sm, w))
          [] Opcode(w) = FIFO_ -> apply_fifo(sm, c, w)
          [] Opcode(w) = WAIT -> apply_wait(sm, c, w, flgs, pins)
          [] Opcode(w) = BRANCH /\ Sel(w) = 3 /\ sm.x > 0 -> Done(decX)
          [] Opcode(w) = BRANCH /\ Sel(w) = 4 /\ sm.y > 0 -> Done(decY)
          [] Opcode(w) = FLAG /\ Bit(w, 7) = 1 -> [Done(sm) EXCEPT !.set = {Sel(w) % 4}]
          [] Opcode(w) = FLAG /\ Bit(w, 7) = 0 -> [Done(sm) EXCEPT !.clear = {Sel(w) % 4}]
          [] OTHER -> Done(sm)
  BY DEF apply
<1> HIDE DEF noIsr, noOsr, toX, toY, decX, decY
<1>3. /\ Drives(noIsr, sm, c) /\ Drives(noOsr, sm, c) /\ Drives(toX, sm, c)
      /\ Drives(toY, sm, c) /\ Drives(decX, sm, c) /\ Drives(decY, sm, c)
      /\ Drives(apply_move(sm, w), sm, c) /\ Drives(sm, sm, c)
  BY <1>1, MoveKeeps, LikeDrives DEF Drives, Keeps
<1>4. /\ Applies(Done(noIsr), sm, c) /\ Applies(Done(noOsr), sm, c)
      /\ Applies(Done(toX), sm, c) /\ Applies(Done(toY), sm, c)
      /\ Applies(Done(decX), sm, c) /\ Applies(Done(decY), sm, c)
      /\ Applies(Done(apply_move(sm, w)), sm, c) /\ Applies(Done(sm), sm, c)
      /\ Applies([Done(sm) EXCEPT !.set = {Sel(w) % 4}], sm, c)
      /\ Applies([Done(sm) EXCEPT !.clear = {Sel(w) % 4}], sm, c)
  BY <1>3, Outcomes
<1>5. /\ Applies(apply_set(sm, c, w), sm, c) /\ Applies(apply_in(sm, c, w, pins), sm, c)
      /\ Applies(apply_out(sm, c, w), sm, c) /\ Applies(apply_fifo(sm, c, w), sm, c)
      /\ Applies(apply_wait(sm, c, w, flgs, pins), sm, c)
  BY SetDrives, InDrives, OutDrives, FifoDrives, WaitDrives
<1> QED BY <1>2, <1>4, <1>5

\* What an edge makes of a state machine configured for c: it stays configured, stays
\* disabled or not, drives only its own pins and, once disabled or closing, none.
Safe(r, c) ==
  /\ IsSM(r)
  /\ r.oe \subseteq output_mask(c)
  /\ r.state \in {"DISABLED", "CLOSING"} => r.oe = {}
Clocks(a, sm, c) ==
  /\ "sm" \in DOMAIN a
  /\ Safe(a.sm, c)
  /\ a.sm.config = sm.config
  /\ a.sm.state = "DISABLED" <=> sm.state = "DISABLED"

LEMMA FaultCloses ==
  ASSUME NEW sm, IsSM(sm), NEW c, NEW code
  PROVE  /\ Safe(fault(sm, code), c)
         /\ fault(sm, code).config = sm.config
         /\ fault(sm, code).state = "CLOSING"
BY DEF IsSM, Safe, fault

LEMMA SettledClocks ==
  ASSUME NEW sm, IsSM(sm), sm.state = "RUNNING", NEW c, sm.oe \subseteq output_mask(c),
         NEW w, NEW a, Applies(a, sm, c), NEW s
  PROVE  Clocks(Settled(sm, w, a, s), sm, c)
<1> DEFINE Worse(code) == IF s[1] = "fault" /\ Code(s[2]) < Code(code) THEN s[2] ELSE code
           stalled == [sm EXCEPT !.stall = a.why]
           done == [a.sm EXCEPT !.delay_remaining = Delay(w), !.stall = "NONE",
                                !.state = IF s[1] = "halt" THEN "HALTED" ELSE @,
                                !.pc = s[2]]
<1>1. Settled(sm, w, a, s) =
        CASE a.end = "stall" -> [a EXCEPT !.sm = stalled]
          [] a.end = "fault" -> [a EXCEPT !.sm = fault(sm, Worse(a.why))]
          [] a.end = "done" /\ s[1] = "fault" ->
                 [a EXCEPT !.sm = fault(sm, s[2]), !.set = {}, !.clear = {}]
          [] OTHER -> [a EXCEPT !.sm = done]
  BY DEF Settled
<1> HIDE DEF Worse
<1>2. Safe(stalled, c) /\ stalled.config = sm.config /\ stalled.state = "RUNNING"
  BY DEF IsSM, Safe
<1>3. Safe(done, c) /\ done.config = sm.config /\ done.state \in {"RUNNING", "HALTED"}
  <2>1. IsSM(a.sm) /\ a.sm.config = sm.config /\ a.sm.state = "RUNNING"
        /\ a.sm.oe \subseteq output_mask(c)
    BY DEF Applies, Drives, Keeps
  <2> QED BY <2>1 DEF IsSM, Safe
<1> HIDE DEF stalled, done
<1>4. ASSUME NEW r, Safe(r, c), r.config = sm.config, r.state # "DISABLED"
      PROVE  /\ Clocks([a EXCEPT !.sm = r], sm, c)
             /\ Clocks([a EXCEPT !.sm = r, !.set = {}, !.clear = {}], sm, c)
  BY <1>4 DEF Clocks, Applies
<1>5. /\ Clocks([a EXCEPT !.sm = stalled], sm, c) /\ Clocks([a EXCEPT !.sm = done], sm, c)
      /\ Clocks([a EXCEPT !.sm = fault(sm, Worse(a.why))], sm, c)
      /\ Clocks([a EXCEPT !.sm = fault(sm, s[2]), !.set = {}, !.clear = {}], sm, c)
  BY <1>2, <1>3, <1>4, FaultCloses
<1> QED BY <1>1, <1>5

LEMMA DoneClocks ==
  ASSUME NEW r, NEW sm, NEW c, Safe(r, c), r.config = sm.config,
         r.state = "DISABLED" <=> sm.state = "DISABLED"
  PROVE  Clocks(Done(r), sm, c)
BY DEF Clocks, Done

LEMMA TickClocks ==
  ASSUME \A k \in imem_valid : imem[k] \in Nat,
         NEW sm, IsSM(sm), sm.state = "RUNNING", NEW c, sm.oe \subseteq output_mask(c),
         c.program.out_window \in [base : Nat, width : Nat], NEW flgs, NEW pins
  PROVE  Clocks(execution_tick(sm, c, flgs, pins), sm, c)
<1> DEFINE idle == sm.delay_remaining = 0
           delayed == [sm EXCEPT !.delay_remaining = @ - 1, !.stall = "NONE"]
           w == imem[sm.pc]
<1>1. execution_tick(sm, c, flgs, pins) =
        CASE idle /\ sm.pc \notin SlotsOf(c) -> Done(fault(sm, "PROGRAM_BOUNDS"))
          [] idle /\ sm.pc \in SlotsOf(c) \ imem_valid -> Done(fault(sm, "INVALID_FETCH"))
          [] idle /\ sm.pc \in SlotsOf(c) \cap imem_valid /\ ~Instruction_validate(w) ->
                 Done(fault(sm, "ILLEGAL_INSTRUCTION"))
          [] idle /\ sm.pc \in SlotsOf(c) \cap imem_valid /\ Instruction_validate(w) ->
                 Executed(sm, c, w, flgs, pins)
          [] OTHER -> Done(delayed)
  BY DEF execution_tick
<1>2. ASSUME sm.pc \in imem_valid PROVE Clocks(Executed(sm, c, w, flgs, pins), sm, c)
  <2>1. w \in Nat
    BY <1>2
  <2> HIDE DEF w
  <2>2. Applies(apply(sm, c, w, flgs, pins), sm, c)
    BY <2>1, ApplyDrives
  <2> QED BY <2>2, SettledClocks DEF Executed, Applied
<1>3. \A code : Clocks(Done(fault(sm, code)), sm, c)
  BY FaultCloses, DoneClocks
<1>4. Safe(delayed, c) /\ delayed.config = sm.config /\ delayed.state = "RUNNING"
  BY DEF IsSM, Safe
<1> HIDE DEF delayed
<1>5. Clocks(Done(delayed), sm, c)
  BY <1>4, DoneClocks
<1> QED BY <1>1, <1>2, <1>3, <1>5

LEMMA ClockedClocks ==
  ASSUME \A k \in imem_valid : imem[k] \in Nat,
         NEW sm, Safe(sm, Image(sm)),
         Image(sm).program.out_window \in [base : Nat, width : Nat], NEW flgs, NEW pins
  PROVE  Clocks(Clocked(sm, flgs, pins), sm, Image(sm))
<1> DEFINE c == Image(sm)
           divided == [sm EXCEPT !.divider_remaining = @ - 1]
           reloaded == [sm EXCEPT !.divider_remaining = sm.config.divider]
<1>1. Clocked(sm, flgs, pins) =
        CASE sm.state # "RUNNING" -> Done(sm)
          [] sm.state = "RUNNING" /\ sm.divider_remaining > 1 -> Done(divided)
          [] OTHER -> execution_tick(reloaded, c, flgs, pins)
  BY DEF Clocked
<1>2. Like(divided, sm) /\ Like(reloaded, sm)
  BY DEF IsSM, Like, Safe, Keeps
<1> HIDE DEF divided, reloaded, c
<1>3. Safe(divided, c) /\ Safe(reloaded, c) /\ Safe(sm, c)
  BY <1>2 DEF Safe, Like, c, Keeps
<1>4. Clocks(Done(sm), sm, c) /\ Clocks(Done(divided), sm, c)
  BY <1>2, <1>3, DoneClocks DEF Like, Keeps
<1>5. ASSUME sm.state = "RUNNING"
      PROVE  Clocks(execution_tick(reloaded, c, flgs, pins), sm, c)
  <2>1. Clocks(execution_tick(reloaded, c, flgs, pins), reloaded, c)
    BY <1>2, <1>3, <1>5, TickClocks DEF Safe, Like, c, Keeps
  <2> QED BY <1>2, <2>1 DEF Clocks, Like, Keeps
<1> QED BY <1>1, <1>4, <1>5 DEF c

\* The inductive invariant of the pins: the configurations name images that exist, each
\* machine drives its own output pins and none when disabled or closing, and two that
\* are started have no output pin in common - START looks at both masks, and only a
\* disabled machine can be given another configuration afterwards.
DriveInv ==
  /\ DOMAIN sms = SMs
  /\ \A i \in SMs : /\ sms[i].config.handle \in {0} \cup Handles
                    /\ Safe(sms[i], Image(sms[i]))
  /\ sms[1].state = "DISABLED" \/ sms[2].state = "DISABLED"
     \/ output_mask(Image(sms[1])) \cap output_mask(Image(sms[2])) = {}

LEMMA DriveInvDisjoint == DriveInv => DriveDisjoint
BY DEF DriveInv, DriveDisjoint, Safe, SMs

\* A valid slot holds a word of an image in its place.
LEMMA ValidWords ==
  ASSUME StoreInv, NEW x \in imem_valid
  PROVE  \E c \in Placed : \E k \in DOMAIN c.words : imem[x] = c.words[k]
<1>1. PICK h \in Published : x \in SlotsOf(allocs[h])
  BY DEF StoreInv, Tiles
<1> DEFINE c == allocs[h]
<1>2. h \in Handles /\ Stored(h)
  BY DEF StoreInv, Published
<1>3. c \in Placed
  BY <1>2, HandleFacts DEF StoreInv
<1>4. \A k \in DOMAIN c.words : imem[c.base + k - 1] = c.words[k]
  BY <1>2 DEF Stored
<1> HIDE DEF c
<1>5. /\ c.base \in Nat /\ DOMAIN c.words = 1 .. Len(c.words) /\ Len(c.words) \in Nat
      /\ x \in c.base .. (c.base + Len(c.words) - 1)
  BY <1>1, <1>3, SlotFacts DEF c
<1> DEFINE k == x - c.base + 1
<1>6. k \in 1 .. Len(c.words) /\ c.base + k - 1 = x
  <2> DEFINE n == Len(c.words)
             b == c.base
  <2> HIDE DEF n, b
  <2>1. b \in Nat /\ n \in Nat /\ x \in b .. (b + n - 1)
    BY <1>5 DEF b, n
  <2>2. x - b + 1 \in 1 .. n /\ b + (x - b + 1) - 1 = x
    BY <2>1
  <2> QED BY <2>2 DEF b, n
<1> HIDE DEF k
<1> QED BY <1>3, <1>4, <1>5, <1>6

LEMMA WordsAreNat ==
  ASSUME StoreInv, NEW x \in imem_valid
  PROVE  imem[x] \in Nat
BY ValidWords, ImageFacts DEF Placed

LEMMA OutWindows ==
  ASSUME StoreInv, NEW h \in {0} \cup Handles
  PROVE  ImageOf(h).program.out_window \in [base : Nat, width : Nat]
<1>1. CASE h = 0
  BY <1>1 DEF ImageOf, relocate_program, NoProgram, Window
<1>2. CASE h # 0
  <2>1. h \in Handles /\ ImageOf(h) = allocs[h]
    BY <1>2 DEF ImageOf
  <2>2. PICK p \in Accepted, b \in Nat : allocs[h] = relocate_program(p, b)
    BY <2>1, HandleFacts DEF StoreInv, Placed, Images
  <2>3. PICK src \in AllSources : p \in assemble(src)
    BY DEF Accepted
  <2>4. p = Program(src)
    BY <2>3 DEF assemble
  <2>5. p.out_window = ValueOf(src, "out")
    BY <2>4 DEF Program
  <2>6. ValueOf(src, "out") \in [base : Nat, width : Nat]
    BY SceneAssumption
  <2> QED BY <2>1, <2>2, <2>5, <2>6 DEF relocate_program
<1> QED BY <1>1, <1>2

\* No step changes an image a configuration may name.
LEMMA ImagesStay ==
  ASSUME StoreInv, [Next]_vars
  PROVE  /\ Handles \subseteq Handles'
         /\ \A h \in Handles : allocs'[h] = allocs[h]
<1>1. ASSUME UNCHANGED allocs
      PROVE  Handles' = Handles /\ \A h \in Handles : allocs'[h] = allocs[h]
  BY <1>1 DEF Handles
<1>2. ASSUME NEW c, allocs' = Append(allocs, c)
      PROVE  Handles \subseteq Handles' /\ \A h \in Handles : allocs'[h] = allocs[h]
  <2>1. allocs \in Seq(Placed) /\ Handles = 1 .. Len(allocs) /\ Len(allocs) \in Nat
    BY HandleFacts DEF StoreInv, StoreTypes
  <2>2. /\ DOMAIN allocs' = 1 .. (Len(allocs) + 1)
        /\ \A h \in Handles : allocs'[h] = allocs[h]
    BY <1>2, <2>1
  <2> QED BY <2>1, <2>2 DEF Handles
<1>3. UNCHANGED allocs \/ \E c : allocs' = Append(allocs, c)
  <2>1. ASSUME NEW src, NEW base, load(src, base)
        PROVE  UNCHANGED allocs \/ \E c : allocs' = Append(allocs, c)
    BY <2>1 DEF load
  <2>2. CASE Churn(Scenes[scene])
    BY <2>1, <2>2 DEF Churn, unload, publish, unpublish, configure, invalidate_imem, allocator
  <2>3. ASSUME NEW mask, start(mask) \/ sm_reset(mask) PROVE UNCHANGED allocs
    BY <2>3 DEF start, sm_reset, allocator
  <2>4. CASE Edge(Scenes[scene])
    <3>1. ASSUME NEW ran, NEW ext, NEW put, NEW readers, step(ran, ext, put, readers)
          PROVE  UNCHANGED allocs
      BY <3>1 DEF step, allocator
    <3> QED BY <2>4, <3>1 DEF Edge
  <2>5. CASE UNCHANGED vars
    BY <2>5 DEF vars, allocator
  <2> QED BY <2>2, <2>3, <2>4, <2>5 DEF Next
<1> QED BY <1>1, <1>2, <1>3

\* What a machine is configured for does not change under it.
LEMMA ImageStays ==
  ASSUME StoreInv, [Next]_vars, NEW i \in SMs,
         sms[i].config.handle \in {0} \cup Handles, sms'[i].config = sms[i].config
  PROVE  Image(sms[i])' = Image(sms[i]) /\ sms'[i].config.handle \in {0} \cup Handles'
<1>1. CASE sms[i].config.handle = 0
  BY <1>1 DEF Image, ImageOf
<1>2. CASE sms[i].config.handle # 0
  BY <1>2, ImagesStay DEF Image, ImageOf
<1> QED BY <1>1, <1>2

LEMMA ResetMachine ==
  ASSUME NEW config
  PROVE  /\ SM(config).config = config /\ SM(config).state = "DISABLED"
         /\ SM(config).oe = {}
         /\ IsSM(SM(config))
BY DEF SM, IsSM

LEMMA ResetIsSafe ==
  ASSUME NEW config, NEW c
  PROVE  Safe(SM(config), c)
BY ResetMachine DEF Safe

\* The frame of most steps: no machine gets another configuration, none leaves DISABLED.
LEMMA DriveKept ==
  ASSUME StoreInv, DriveInv, [Next]_vars, DOMAIN sms' = SMs,
         \A i \in SMs : /\ sms'[i].config = sms[i].config
                        /\ sms[i].state = "DISABLED" => sms'[i].state = "DISABLED"
                        /\ Safe(sms'[i], Image(sms[i]))
  PROVE  DriveInv'
<1>1. \A i \in SMs : Image(sms[i])' = Image(sms[i]) /\ sms'[i].config.handle \in {0} \cup Handles'
  BY ImageStays DEF DriveInv
<1>2. 1 \in SMs /\ 2 \in SMs
  BY DEF SMs
<1>3. output_mask(Image(sms[1]))' = output_mask(Image(sms[1]))
      /\ output_mask(Image(sms[2]))' = output_mask(Image(sms[2]))
  BY <1>1, <1>2 DEF output_mask
<1>4. \A i \in SMs : Safe(sms[i], Image(sms[i]))'
  BY <1>1 DEF Safe, output_mask
<1> QED BY <1>1, <1>2, <1>3, <1>4 DEF DriveInv

LEMMA ConfigureDrives ==
  ASSUME StoreInv, DriveInv, [Next]_vars, NEW i, NEW h \in Handles, NEW d, configure(i, h, d)
  PROVE  DriveInv'
<1>1. /\ DOMAIN sms = SMs
      /\ \A k \in SMs : Safe(sms[k], Image(sms[k]))
  BY DEF DriveInv
<1>2. CASE i \notin SMs
  <2>1. DOMAIN sms' = SMs /\ \A k \in SMs : sms'[k] = sms[k]
    BY <1>1, <1>2 DEF configure
  <2> QED BY <1>1, <2>1, DriveKept
<1>3. CASE i \in SMs
  <2> DEFINE r == [sms[i] EXCEPT !.config = SMConfig(h, d)]
  <2>1. sms' = [sms EXCEPT ![i] = r] /\ sms[i].state = "DISABLED"
    BY DEF configure
  <2>2. IsSM(sms[i]) /\ sms[i].oe = {}
    BY <1>1, <1>3, <2>1 DEF Safe
  <2>3. IsSM(r) /\ r.state = "DISABLED" /\ r.oe = {} /\ r.config.handle = h
    BY <2>1, <2>2 DEF IsSM, SMConfig
  <2>4. \A c : Safe(r, c)
    BY <2>3 DEF Safe
  <2> HIDE DEF r
  <2>5. DOMAIN sms' = SMs /\ sms'[i] = r /\ \A k \in SMs \ {i} : sms'[k] = sms[k]
    BY <1>1, <1>3, <2>1
  <2>6. Handles' = Handles
    BY DEF configure, allocator, Handles
  <2>7. \A k \in SMs \ {i} : Image(sms[k])' = Image(sms[k])
    BY <2>5, ImageStays DEF DriveInv
  <2>8. ASSUME NEW k \in SMs
        PROVE  sms'[k].config.handle \in {0} \cup Handles' /\ Safe(sms[k], Image(sms[k]))'
    <3>1. CASE k = i
      <4>1. sms'[k] = r
        BY <2>5, <3>1
      <4>2. Safe(sms'[k], Image(sms[k])')
        BY <2>4, <4>1
      <4> QED BY <2>3, <2>6, <4>1, <4>2 DEF Safe, output_mask
    <3>2. CASE k # i
      BY <1>1, <2>5, <2>6, <2>7, <3>2 DEF DriveInv, Safe, output_mask
    <3> QED BY <3>1, <3>2
  <2>9. sms'[1].state = "DISABLED" \/ sms'[2].state = "DISABLED"
    BY <1>3, <2>3, <2>5 DEF SMs
  <2> QED BY <2>5, <2>8, <2>9 DEF DriveInv
<1> QED BY <1>2, <1>3

LEMMA StartDrives ==
  ASSUME StoreInv, DriveInv, [Next]_vars, NEW mask, start(mask)
  PROVE  DriveInv'
<1>1. /\ sms' = [i \in SMs |-> IF i \in mask THEN Started(sms[i]) ELSE sms[i]]
      /\ output_mask(Image(sms[1])) \cap output_mask(Image(sms[2])) = {}
  BY DEF start
<1>2. ASSUME NEW sm, NEW c
      PROVE  Safe(Started(sm), c) /\ Started(sm).config = sm.config
  <2> DEFINE m == SM(sm.config)
  <2>1. IsSM(m) /\ m.config = sm.config /\ m.oe = {}
    BY ResetMachine
  <2> HIDE DEF m
  <2>2. Started(sm) = [m EXCEPT !.tx = sm.tx, !.state = "RUNNING"]
    BY DEF Started, m
  <2> QED BY <2>1, <2>2 DEF IsSM, Safe
<1>3. ASSUME NEW i \in SMs
      PROVE  sms'[i].config = sms[i].config /\ Safe(sms'[i], Image(sms[i]))
  BY <1>1, <1>2 DEF DriveInv
<1>4. DOMAIN sms' = SMs
  BY <1>1
<1>5. \A i \in SMs : Image(sms[i])' = Image(sms[i]) /\ sms'[i].config.handle \in {0} \cup Handles'
  BY <1>3, ImageStays DEF DriveInv
<1>6. \A i \in SMs : Safe(sms[i], Image(sms[i]))'
  BY <1>3, <1>5 DEF Safe, output_mask
<1>7. (output_mask(Image(sms[1])) \cap output_mask(Image(sms[2])) = {})'
  BY <1>1, <1>5 DEF output_mask, SMs
<1> QED BY <1>4, <1>5, <1>6, <1>7 DEF DriveInv

LEMMA ResetDrives ==
  ASSUME StoreInv, DriveInv, [Next]_vars, NEW mask, sm_reset(mask)
  PROVE  DriveInv'
<1>1. sms' = [i \in SMs |-> IF i \in mask THEN SM(sms[i].config) ELSE sms[i]]
  BY DEF sm_reset
<1>2. ASSUME NEW i \in SMs
      PROVE  /\ sms'[i].config = sms[i].config
             /\ sms[i].state = "DISABLED" => sms'[i].state = "DISABLED"
             /\ Safe(sms'[i], Image(sms[i]))
  BY <1>1, ResetMachine, ResetIsSafe DEF DriveInv
<1> QED BY <1>1, <1>2, DriveKept

\* A lifecycle command keeps a machine safe and, where the code allows it, disabled.
LEMMA CommandKeeps ==
  ASSUME NEW sm, NEW c, Safe(sm, c), NEW cmd, MayCommand(sm, cmd)
  PROVE  /\ Safe(Commanded(sm, cmd), c)
         /\ Commanded(sm, cmd).config = sm.config
         /\ sm.state = "DISABLED" => Commanded(sm, cmd).state = "DISABLED"
BY DEF Safe, IsSM, Commanded, MayCommand

\* What an edge does to one machine: a command it may get, then its clock, then FIFO
\* traffic, which does not touch the registers of interest.
LEMMA EdgeShape ==
  ASSUME StoreInv, DriveInv, Edge(Scenes[scene])
  PROVE  /\ DOMAIN sms' = SMs
         /\ \A i \in SMs : \E cmd, r, pins :
              /\ MayCommand(sms[i], cmd) /\ r = Commanded(sms[i], cmd)
              /\ Safe(r, Image(sms[i])) /\ r.config = sms[i].config
              /\ sms[i].state = "DISABLED" => r.state = "DISABLED"
              /\ Clocks(Clocked(r, flags, pins), r, Image(sms[i]))
              /\ Like(sms'[i], Clocked(r, flags, pins).sm)
<1>1. PICK c1, c2, pins, ran :
        /\ c1 \in Commands(Scenes[scene], 1) /\ c2 \in Commands(Scenes[scene], 2)
        /\ ran = <<Clocked(Commanded(sms[1], c1), flags, pins),
                   Clocked(Commanded(sms[2], c2), flags, pins)>>
        /\ \E ext, put, readers : step(ran, ext, put, readers)
  BY DEF Edge
<1> DEFINE cmd(i) == IF i = 1 THEN c1 ELSE c2
           m(i) == Commanded(sms[i], cmd(i))
<1>2. ASSUME NEW i \in SMs
      PROVE  MayCommand(sms[i], cmd(i)) /\ ran[i] = Clocked(m(i), flags, pins)
  BY <1>1 DEF Commands, SMs
<1>3. ASSUME NEW i \in SMs
      PROVE  /\ Safe(m(i), Image(sms[i])) /\ m(i).config = sms[i].config
             /\ sms[i].state = "DISABLED" => m(i).state = "DISABLED"
  BY <1>2, CommandKeeps DEF DriveInv
<1> HIDE DEF cmd, m
<1>4. \A k \in imem_valid : imem[k] \in Nat
  BY WordsAreNat
<1>5. ASSUME NEW i \in SMs PROVE Clocks(ran[i], m(i), Image(sms[i]))
  <2>1. Image(m(i)) = Image(sms[i])
    BY <1>3 DEF Image
  <2>2. Image(sms[i]).program.out_window \in [base : Nat, width : Nat]
    BY OutWindows DEF DriveInv, Image
  <2>3. Clocks(Clocked(m(i), flags, pins), m(i), Image(m(i)))
    BY <1>3, <1>4, <2>1, <2>2, ClockedClocks
  <2> QED BY <1>2, <2>1, <2>3
<1>6. PICK tx, rx : sms' = [i \in SMs |-> [ran[i].sm EXCEPT !.tx = tx[i], !.rx = rx[i]]]
  <2>1. PICK ext, put, readers : step(ran, ext, put, readers)
    BY <1>1
  <2> DEFINE accepted == {i \in SMs : \E w \in put : w[1] = i /\ Len(sms[i].tx) < FifoDepth}
             word == CHOOSE w \in put : TRUE
             served == {i \in readers : sms[i].rx # <<>>}
             txs == [i \in SMs |-> IF i \in accepted THEN Append(ran[i].sm.tx, word[2])
                                                     ELSE ran[i].sm.tx]
             rxs == [i \in SMs |-> IF i \in served THEN Tail(ran[i].sm.rx) ELSE ran[i].sm.rx]
  <2>2. sms' = [i \in SMs |->
                  [ran[i].sm EXCEPT !.tx = IF i \in accepted THEN Append(@, word[2]) ELSE @,
                                    !.rx = IF i \in served THEN Tail(@) ELSE @]]
    BY <2>1 DEF step
  <2> HIDE DEF accepted, word, served
  <2>3. sms' = [i \in SMs |-> [ran[i].sm EXCEPT !.tx = txs[i], !.rx = rxs[i]]]
    BY <2>2
  <2> HIDE DEF txs, rxs
  <2> QED BY <2>3, Zenon
<1>7. ASSUME NEW i \in SMs PROVE Like(sms'[i], ran[i].sm)
  <2>1. IsSM(ran[i].sm)
    BY <1>5 DEF Clocks, Safe
  <2>2. sms'[i] = [ran[i].sm EXCEPT !.tx = tx[i], !.rx = rx[i]]
    BY <1>6
  <2> QED BY <2>1, <2>2 DEF IsSM, Like, Keeps
<1>8. DOMAIN sms' = SMs
  BY <1>6
<1>9. ASSUME NEW i \in SMs
      PROVE  \E command, r, ps :
               /\ MayCommand(sms[i], command) /\ r = Commanded(sms[i], command)
               /\ Safe(r, Image(sms[i])) /\ r.config = sms[i].config
               /\ sms[i].state = "DISABLED" => r.state = "DISABLED"
               /\ Clocks(Clocked(r, flags, ps), r, Image(sms[i]))
               /\ Like(sms'[i], Clocked(r, flags, ps).sm)
  <2>1. m(i) = Commanded(sms[i], cmd(i))
    BY DEF m
  <2> QED BY <1>2, <1>3, <1>5, <1>7, <2>1
<1> QED BY <1>8, <1>9

LEMMA EdgeDrives ==
  ASSUME StoreInv, DriveInv, [Next]_vars, Edge(Scenes[scene])
  PROVE  DriveInv'
<1>1. ASSUME NEW i \in SMs
      PROVE  /\ sms'[i].config = sms[i].config
             /\ sms[i].state = "DISABLED" => sms'[i].state = "DISABLED"
             /\ Safe(sms'[i], Image(sms[i]))
  BY EdgeShape DEF Clocks, Like, Safe, Keeps
<1> QED BY <1>1, EdgeShape, DriveKept

LEMMA DriveStep == StoreInv /\ DriveInv /\ [Next]_vars => DriveInv'
<1> SUFFICES ASSUME StoreInv, DriveInv, [Next]_vars PROVE DriveInv'
  OBVIOUS
<1>1. ASSUME UNCHANGED sms PROVE DriveInv'
  BY <1>1, DriveKept DEF DriveInv
<1>2. CASE Churn(Scenes[scene])
  <2>1. ASSUME NEW src, NEW base, load(src, base) PROVE UNCHANGED sms
    BY <2>1 DEF load
  <2>2. ASSUME NEW h, unload(h) \/ publish(h) \/ unpublish(h) PROVE UNCHANGED sms
    BY <2>2 DEF unload, publish, unpublish
  <2>3. invalidate_imem => UNCHANGED sms
    BY DEF invalidate_imem
  <2> QED BY <1>1, <1>2, <2>1, <2>2, <2>3, ConfigureDrives DEF Churn
<1>3. ASSUME NEW mask, start(mask) \/ sm_reset(mask) PROVE DriveInv'
  BY <1>3, StartDrives, ResetDrives
<1>4. CASE Edge(Scenes[scene])
  BY <1>4, EdgeDrives
<1>5. CASE UNCHANGED vars
  BY <1>1, <1>5 DEF vars
<1> QED BY <1>2, <1>3, <1>4, <1>5 DEF Next

LEMMA DriveInit == Init => DriveInv
<1> SUFFICES ASSUME Init PROVE DriveInv
  OBVIOUS
<1>1. PICK d : sms = [i \in SMs |-> SM(SMConfig(IF i \in Handles THEN i ELSE 0, d[i]))]
  BY DEF Init
<1> DEFINE config(i) == SMConfig(IF i \in Handles THEN i ELSE 0, d[i])
<1>2. \A i \in SMs : config(i).handle \in {0} \cup Handles
  BY DEF SMConfig
<1> HIDE DEF config
<1>3. DOMAIN sms = SMs /\ \A i \in SMs : sms[i] = SM(config(i))
  BY <1>1 DEF config
<1>4. ASSUME NEW i \in SMs
      PROVE  /\ sms[i].config = config(i) /\ sms[i].state = "DISABLED"
             /\ Safe(sms[i], Image(sms[i]))
  BY <1>3, ResetMachine, ResetIsSafe
<1> QED BY <1>2, <1>3, <1>4 DEF DriveInv, SMs

\* DriveDisjoint for all accepted programs and every interleaving: two state machines
\* never enable the same pin's driver and each enables only the pins of its windows,
\* through every instruction, fault, command, restart and change of configuration.
THEOREM DriversStayDisjoint == Spec => []DriveDisjoint
<1>1. Init => StoreInv /\ DriveInv
  BY StoreInit, DriveInit
<1>2. StoreInv /\ DriveInv /\ [Next]_vars => (StoreInv /\ DriveInv)'
  BY StoreStep, DriveStep
<1>3. StoreInv /\ DriveInv => DriveDisjoint
  BY DriveInvDisjoint
<1> QED BY <1>1, <1>2, <1>3, PTL DEF Spec

----------------------------------------------------------------------------
(* The faults.                                                             *)

WindowTypes(p) ==
  /\ p.in_window \in [base : Nat, width : Nat]
  /\ p.out_window \in [base : Nat, width : Nat]
  /\ p.set_window \in [base : Nat, width : Nat]

\* What Program.validate has checked of one word of p, apart from its branch target.
Checked(p, w) ==
  /\ Instruction_validate(w)
  /\ Opcode(w) = IN_ /\ Sel(w) = 0 => encoded_count(Low5(w)) <= p.in_window.width
  /\ Opcode(w) = OUT_ /\ Sel(w) \in {0, 1} => encoded_count(Low5(w)) <= p.out_window.width
  /\ Opcode(w) \in {SET_PIN, SET_DIR} => p.set_window.width > 0
  /\ Opcode(w) = WAIT /\ Bit(w, 7) = 0 => WaitIndex(w) \in referenced_resources(p)
  /\ UsesTestPin(w) => \E v \in Range(p.instructions) : UsesTestPin(v)

LEMMA AcceptedWords ==
  ASSUME NEW src \in AllSources, NEW p \in assemble(src)
  PROVE  /\ WindowTypes(p)
         /\ {p.entry, p.wrap_bottom, p.wrap_top} \subseteq 0 .. (Len(p.instructions) - 1)
         /\ \A k \in DOMAIN p.instructions :
              /\ Checked(p, p.instructions[k])
              /\ Opcode(p.instructions[k]) = BRANCH =>
                   Low5(p.instructions[k]) < Len(p.instructions)
<1>1. p = Program(src) /\ Program_validate(p)
  BY DEF assemble
<1>2. WindowTypes(p)
  <2>1. /\ p.in_window = ValueOf(src, "in") /\ p.out_window = ValueOf(src, "out")
        /\ p.set_window = ValueOf(src, "set")
    BY <1>1 DEF Program
  <2> QED BY <2>1, SceneAssumption DEF WindowTypes
<1>3. /\ {p.entry, p.wrap_bottom, p.wrap_top} \subseteq 0 .. (Len(p.instructions) - 1)
      /\ \A w \in Range(p.instructions) :
           /\ Instruction_validate(w)
           /\ Opcode(w) = BRANCH => Low5(w) < Len(p.instructions)
           /\ Opcode(w) = IN_ /\ Sel(w) = 0 => encoded_count(Low5(w)) <= p.in_window.width
           /\ Opcode(w) = OUT_ /\ Sel(w) \in {0, 1}
                => encoded_count(Low5(w)) <= p.out_window.width
           /\ Opcode(w) \in {SET_PIN, SET_DIR} => p.set_window.width > 0
  BY <1>1, Zenon DEF Program_validate
<1>4. ASSUME NEW k \in DOMAIN p.instructions
      PROVE  /\ Checked(p, p.instructions[k])
             /\ Opcode(p.instructions[k]) = BRANCH =>
                  Low5(p.instructions[k]) < Len(p.instructions)
  <2> DEFINE w == p.instructions[k]
  <2>1. w \in Range(p.instructions)
    BY DEF Range
  <2> HIDE DEF w
  <2>2. Opcode(w) = WAIT /\ Bit(w, 7) = 0 => WaitIndex(w) \in referenced_resources(p)
    BY <2>1 DEF referenced_resources
  <2> QED BY <1>3, <2>1, <2>2 DEF Checked, w
<1> QED BY <1>2, <1>3, <1>4

\* A word of an image in its place: what was checked of the word it was relocated from
\* holds of it, and its branch target is a slot of the image.
Permitted(c, w) ==
  /\ Checked(c.program, w)
  /\ Opcode(w) = BRANCH => Low5(w) \in SlotsOf(c)

LEMMA MovedFields ==
  ASSUME NEW u \in Nat, Low5(u) = 0, NEW s \in 0 .. 31, NEW t \in 0 .. 31
  PROVE  /\ Opcode(u + s) = Opcode(u + t)
         /\ Sel(u + s) = Sel(u + t)
         /\ Low5(u + s) = s
BY DEF Low5, Opcode, Operand, Sel

LEMMA ImageWords ==
  ASSUME NEW c \in Placed, NEW k \in DOMAIN c.words
  PROVE  Permitted(c, c.words[k]) /\ c.words[k] \in Nat /\ c.words[k] # NoWord
<1>1. PICK p \in Accepted, b \in Nat : c = relocate_program(p, b)
  BY DEF Placed, Images
<1>2. PICK src \in AllSources : p \in assemble(src)
  BY DEF Accepted
<1> DEFINE v == p.instructions[k]
           w == c.words[k]
           n == Len(p.instructions)
           t == Low5(v)
           u == v - t
<1>3. /\ c.base = b /\ c.program = p /\ k \in DOMAIN p.instructions
      /\ DOMAIN c.words = DOMAIN p.instructions
      /\ w = IF Opcode(v) = BRANCH THEN u + b + t ELSE v
  BY <1>1 DEF relocate_program
<1>4. /\ v \in Nat /\ n \in 1 .. InstructionWords /\ DOMAIN p.instructions = 1 .. n
      /\ Opcode(v) = BRANCH => t \in 0 .. n - 1 /\ u \in Nat /\ Low5(u) = 0
  BY <1>2, <1>3, AcceptedFacts
<1>5. Checked(p, v)
  BY <1>2, <1>3, AcceptedWords
<1>6. InstructionWords \in 1 .. 32
  BY PioAssumption
<1>7. SlotsOf(c) = b .. (b + n - 1) /\ b + n - 1 \in 0 .. 31
  <2>1. SlotsOf(c) \subseteq Slots /\ SlotsOf(c) = c.base .. (c.base + Len(c.words) - 1)
    BY SlotFacts DEF Placed
  <2>2. Len(c.words) = n
    <3>1. DOMAIN c.words = 1 .. Len(c.words) /\ Len(c.words) \in Nat
      BY SlotFacts
    <3> QED BY <3>1, <1>3, <1>4
  <2> HIDE DEF n
  <2>3. b + n - 1 \in b .. (b + n - 1)
    BY <1>4, <1>6
  <2>4. b + n - 1 \in 0 .. InstructionWords - 1
    BY <2>1, <2>2, <2>3, <1>3 DEF Slots
  <2>5. b + n - 1 \in 0 .. 31
    BY <2>4, <1>6
  <2> QED BY <2>1, <2>2, <2>5, <1>3
<1> HIDE DEF v, w, n, t, u
<1>8. Opcode(w) \in CTRL .. FLAG /\ w \in Nat => w # NoWord
  BY DEF Opcode, CTRL, FLAG, NoWord
<1>9. CASE Opcode(v) # BRANCH
  <2>1. w = v
    BY <1>3, <1>9
  <2> QED BY <1>3, <1>4, <1>5, <1>8, <1>9, <2>1 DEF Permitted, Checked, Instruction_validate, w
<1>10. CASE Opcode(v) = BRANCH
  <2>1. t \in 0 .. n - 1 /\ u \in Nat /\ Low5(u) = 0 /\ n \in Nat \ {0}
    BY <1>4, <1>6, <1>10
  <2>2. t \in 0 .. 31 /\ b + t \in 0 .. 31 /\ b + t \in b .. (b + n - 1) /\ u + b + t = u + (b + t)
    BY <1>4, <1>6, <1>7, <2>1
  <2>3. v = u + t
    BY <1>4, <2>1 DEF u
  <2>4. Opcode(w) = BRANCH /\ Sel(w) = Sel(v) /\ Low5(w) = b + t /\ w \in Nat
    <3>1. w = u + (b + t)
      BY <1>3, <1>10, <2>2
    <3> QED BY <1>10, <2>1, <2>2, <2>3, <3>1, MovedFields
  <2>5. Instruction_validate(w)
    BY <2>4 DEF Instruction_validate, BRANCH, CTRL, IN_, OUT_, MOVE, FIFO_, WAIT, FLAG
  <2>6. UsesTestPin(w) => UsesTestPin(v)
    BY <1>10, <2>4 DEF UsesTestPin
  <2>7. Checked(p, w)
    BY <1>5, <2>4, <2>5, <2>6 DEF Checked, BRANCH, IN_, OUT_, SET_PIN, SET_DIR, WAIT
  <2>8. Low5(w) \in SlotsOf(c)
    BY <1>7, <2>2, <2>4
  <2>9. w # NoWord
    BY <1>8, <2>4 DEF BRANCH, CTRL, FLAG
  <2> QED BY <1>3, <2>4, <2>7, <2>8, <2>9 DEF Permitted, w
<1> QED BY <1>9, <1>10

\* An outcome of apply: a fault is one of the shift counts.
OnlyShifts(a) == a.end = "fault" => a.why = "SHIFT_BOUNDS"

LEMMA OutcomeShifts ==
  ASSUME NEW r, NEW v
  PROVE  /\ OnlyShifts(Done(r))
         /\ OnlyShifts(Stall(r, v))
         /\ OnlyShifts(Fault(r, "SHIFT_BOUNDS"))
         /\ OnlyShifts([Done(r) EXCEPT !.set = v])
         /\ OnlyShifts([Done(r) EXCEPT !.clear = v])
BY DEF OnlyShifts, Done, Stall, Fault

\* The claim mask holds the pins of the three windows by its definition.
LEMMA WindowsClaimed ==
  ASSUME NEW c
  PROVE  /\ Mask(c.program.in_window) \subseteq claim_mask(c)
         /\ require_output(c, c.program.out_window)
         /\ require_output(c, c.program.set_window)
BY DEF claim_mask, referenced_resources, require_output, output_mask

LEMMA ShiftOutFaults ==
  ASSUME NEW sm, NEW c, NEW w \in Nat, Permitted(c, w), WindowTypes(c.program), Opcode(w) = OUT_
  PROVE  OnlyShifts(ShiftOut(sm, c, w))
<1> DEFINE count == encoded_count(Low5(w))
           win == c.program.out_window
<1>1. require_output(c, win)
  BY WindowsClaimed
<1>2. count \in Nat /\ win.width \in Nat
  BY CountNat DEF WindowTypes
<1>3. Sel(w) \in {0, 1} => count <= win.width
  BY DEF Permitted, Checked
<1>4. ~(Sel(w) \in {0, 1} /\ (count > win.width \/ ~require_output(c, win)))
  <2> HIDE DEF count, win
  <2> QED BY <1>1, <1>2, <1>3
<1>5. \E r : ShiftOut(sm, c, w) = Done(r)
  <2> DEFINE rest == sm.osr_count - count
             chunk == IF c.program.tx.right THEN sm.osr % MaskOf(count) ELSE sm.osr \div 2^rest
             left == IF c.program.tx.right THEN sm.osr \div 2^count ELSE sm.osr % MaskOf(rest)
             next == [sm EXCEPT !.osr = left, !.osr_count = rest]
             touched == Mask(Window(win.base, count))
             level == BitsAt(Window(win.base, count), chunk)
             value == [next EXCEPT !.value = (@ \ touched) \cup level]
             dirs == [next EXCEPT !.oe = (@ \ touched) \cup level]
             x == [next EXCEPT !.x = chunk % MaskOf(HalfBits)]
             y == [next EXCEPT !.y = chunk % MaskOf(HalfBits)]
  <2>1. ShiftOut(sm, c, w) =
          CASE Sel(w) \in {0, 1} /\ (count > win.width \/ ~require_output(c, win)) ->
                 Fault(next, "PIN_AUTHORIZATION")
            [] Sel(w) = 0 /\ count <= win.width /\ require_output(c, win) -> Done(value)
            [] Sel(w) = 1 /\ count <= win.width /\ require_output(c, win) -> Done(dirs)
            [] Sel(w) = 2 -> Done(x)
            [] Sel(w) = 3 -> Done(y)
            [] OTHER -> Done(next)
    BY DEF ShiftOut
  <2> HIDE DEF value, dirs, x, y, next, count, win
  <2>2. ShiftOut(sm, c, w) \in {Done(value), Done(dirs), Done(x), Done(y), Done(next)}
    BY <1>4, <2>1
  <2> QED BY <2>2
<1> QED BY <1>5, OutcomeShifts

LEMMA OutFaults ==
  ASSUME NEW sm, NEW c, NEW w \in Nat, Permitted(c, w), WindowTypes(c.program), Opcode(w) = OUT_
  PROVE  OnlyShifts(apply_out(sm, c, w))
BY ShiftOutFaults, OutcomeShifts DEF apply_out

LEMMA FifoFaults ==
  ASSUME NEW sm, NEW c, NEW w
  PROVE  OnlyShifts(apply_fifo(sm, c, w))
BY OutcomeShifts DEF apply_fifo

LEMMA InFaults ==
  ASSUME NEW sm, NEW c, NEW w \in Nat, Permitted(c, w), WindowTypes(c.program), Opcode(w) = IN_,
         NEW pins
  PROVE  OnlyShifts(apply_in(sm, c, w, pins))
<1> DEFINE count == encoded_count(Low5(w))
           total == sm.isr_count + count
           limit == IF c.program.rx.auto THEN c.program.rx.bits ELSE WordBits
           complete == c.program.rx.auto /\ total = c.program.rx.bits
           win == c.program.in_window
           source == CASE Sel(w) = 0 -> ValueAt(win, pins) [] Sel(w) = 1 -> sm.x
                       [] Sel(w) = 2 -> sm.y [] OTHER -> 0
           value == source % MaskOf(count)
           isr == IF c.program.rx.right THEN (sm.isr \div 2^count) + value * 2^(WordBits - count)
                                       ELSE (sm.isr * 2^count + value) % MaskOf(WordBits)
           next == [sm EXCEPT !.isr = isr, !.isr_count = total]
           denied == Sel(w) = 0 /\ (count > win.width \/ ~(Mask(win) \subseteq claim_mask(c)))
           kept == IF complete THEN Pushed(next, c) ELSE next
<1>1. apply_in(sm, c, w, pins) =
        CASE total > limit -> Fault(sm, "SHIFT_BOUNDS")
          [] total <= limit /\ complete /\ Len(sm.rx) >= FifoDepth -> Stall(sm, "RX")
          [] OTHER -> IF denied THEN Fault(sm, "PIN_AUTHORIZATION") ELSE Done(kept)
  BY DEF apply_in
<1>2. ~denied
  <2>1. Mask(win) \subseteq claim_mask(c)
    BY WindowsClaimed
  <2>2. count \in Nat /\ win.width \in Nat
    BY CountNat DEF WindowTypes
  <2>3. Sel(w) = 0 => count <= win.width
    BY DEF Permitted, Checked
  <2> HIDE DEF count, win
  <2> QED BY <2>1, <2>2, <2>3
<1> HIDE DEF total, limit, complete, denied, kept
<1> QED BY <1>1, <1>2, OutcomeShifts

LEMMA SetFaults ==
  ASSUME NEW sm, NEW c, NEW w, Permitted(c, w), WindowTypes(c.program),
         Opcode(w) \in {SET_PIN, SET_DIR}
  PROVE  OnlyShifts(apply_set(sm, c, w))
<1> DEFINE win == c.program.set_window
           level == BitsAt(win, Operand(w))
           value == [sm EXCEPT !.value = (@ \ Mask(win)) \cup level]
           dirs == [sm EXCEPT !.oe = (@ \ Mask(win)) \cup level]
<1>1. apply_set(sm, c, w) =
        CASE win.width = 0 \/ ~require_output(c, win) -> Fault(sm, "PIN_AUTHORIZATION")
          [] win.width > 0 /\ require_output(c, win) /\ Opcode(w) = SET_PIN -> Done(value)
          [] OTHER -> Done(dirs)
  BY DEF apply_set
<1>2. ~(win.width = 0 \/ ~require_output(c, win))
  BY WindowsClaimed DEF Permitted, Checked, WindowTypes
<1> HIDE DEF value, dirs, win
<1> QED BY <1>1, <1>2, OutcomeShifts

LEMMA WaitFaults ==
  ASSUME NEW sm, NEW c, NEW w, Permitted(c, w), Opcode(w) = WAIT, NEW flgs, NEW pins
  PROVE  OnlyShifts(apply_wait(sm, c, w, flgs, pins))
<1>1. ~(Bit(w, 7) = 0 /\ WaitIndex(w) \notin claim_mask(c))
  BY DEF Permitted, Checked, claim_mask
<1> QED BY <1>1, OutcomeShifts DEF apply_wait

LEMMA ApplyFaults ==
  ASSUME NEW sm, NEW c, NEW w \in Nat, Permitted(c, w), WindowTypes(c.program),
         NEW flgs, NEW pins
  PROVE  OnlyShifts(apply(sm, c, w, flgs, pins))
<1>1. /\ Opcode(w) \in {SET_PIN, SET_DIR} => OnlyShifts(apply_set(sm, c, w))
      /\ Opcode(w) = IN_ => OnlyShifts(apply_in(sm, c, w, pins))
      /\ Opcode(w) = OUT_ => OnlyShifts(apply_out(sm, c, w))
      /\ OnlyShifts(apply_fifo(sm, c, w))
      /\ Opcode(w) = WAIT => OnlyShifts(apply_wait(sm, c, w, flgs, pins))
  BY SetFaults, InFaults, OutFaults, FifoFaults, WaitFaults
<1> QED BY <1>1, OutcomeShifts DEF apply

\* The region of an image in its place, and the pin its branches may test.
LEMMA PlacedRegion ==
  ASSUME NEW c \in Placed
  PROVE  /\ WindowTypes(c.program)
         /\ {c.entry, c.wrap_bottom, c.wrap_top} \subseteq SlotsOf(c)
         /\ \A x \in SlotsOf(c) : x + 1 \in SlotsOf(c) \/ x = c.base + Len(c.words) - 1
         /\ (\E v \in Range(c.program.instructions) : UsesTestPin(v))
              => c.program.test_pin \in claim_mask(c)
<1>1. PICK p \in Accepted, b \in Nat : c = relocate_program(p, b)
  BY DEF Placed, Images
<1>2. PICK src \in AllSources : p \in assemble(src)
  BY DEF Accepted
<1>3. /\ c.base = b /\ c.program = p /\ DOMAIN c.words = DOMAIN p.instructions
      /\ c.entry = b + p.entry /\ c.wrap_bottom = b + p.wrap_bottom
      /\ c.wrap_top = b + p.wrap_top
  BY <1>1 DEF relocate_program
<1>4. /\ DOMAIN p.instructions = 1 .. Len(p.instructions)
      /\ Len(p.instructions) \in Nat \ {0}
  BY <1>2, AcceptedFacts, PioAssumption
<1>5. /\ WindowTypes(p)
      /\ {p.entry, p.wrap_bottom, p.wrap_top} \subseteq 0 .. (Len(p.instructions) - 1)
  BY <1>2, AcceptedWords
<1>6. /\ DOMAIN c.words = 1 .. Len(c.words) /\ Len(c.words) \in Nat \ {0}
      /\ SlotsOf(c) = c.base .. (c.base + Len(c.words) - 1)
  BY SlotFacts
<1>7. Len(c.words) = Len(p.instructions)
  BY <1>3, <1>4, <1>6
<1>8. {c.entry, c.wrap_bottom, c.wrap_top} \subseteq SlotsOf(c)
  <2>1. ASSUME NEW n \in Nat, NEW e \in 0 .. (n - 1) PROVE b + e \in b .. (b + n - 1)
    OBVIOUS
  <2>2. SlotsOf(c) = b .. (b + Len(p.instructions) - 1)
    BY <1>3, <1>6, <1>7
  <2> QED BY <1>3, <1>4, <1>5, <2>1, <2>2
<1>9. \A x \in SlotsOf(c) : x + 1 \in SlotsOf(c) \/ x = c.base + Len(c.words) - 1
  BY <1>3, <1>6
<1>10. (\E v \in Range(c.program.instructions) : UsesTestPin(v))
         => c.program.test_pin \in claim_mask(c)
  BY DEF claim_mask, referenced_resources
<1> QED BY <1>3, <1>5, <1>8, <1>9, <1>10

\* The pc is at the end of the program, behind its wrap, and the word there is not HALT.
AtEnd(pc, c, w) ==
  /\ pc = c.base + Len(c.words) - 1 /\ pc # c.wrap_top
  /\ ~(Opcode(w) = CTRL /\ Sel(w) = 1)

LEMMA SuccessorStays ==
  ASSUME NEW sm, NEW c, NEW w, NEW flgs, NEW pins
  PROVE  /\ successor(sm, c, w, flgs, pins)[1] \in {"halt", "pc", "fault"}
         /\ successor(sm, c, w, flgs, pins)[1] = "pc"
              => successor(sm, c, w, flgs, pins)[2] \in SlotsOf(c)
BY DEF successor

LEMMA SuccessorFaults ==
  ASSUME NEW sm, NEW c \in Placed, NEW w, Permitted(c, w), sm.pc \in SlotsOf(c),
         NEW flgs, NEW pins, successor(sm, c, w, flgs, pins)[1] = "fault"
  PROVE  /\ successor(sm, c, w, flgs, pins)[2] = "PROGRAM_BOUNDS"
         /\ AtEnd(sm.pc, c, w)
<1> DEFINE s == successor(sm, c, w, flgs, pins)
           taken == CASE Sel(w) = 0 -> TRUE
                      [] Sel(w) = 1 -> sm.x = 0
                      [] Sel(w) = 2 -> sm.y = 0
                      [] Sel(w) = 3 -> sm.x # 0
                      [] Sel(w) = 4 -> sm.y # 0
                      [] Sel(w) = 5 -> c.program.test_pin \in pins
                      [] Sel(w) = 6 -> sm.last_fifo_failed
                      [] OTHER -> c.program.test_flag \in flgs
           branch == Opcode(w) = BRANCH
           sequential == IF sm.pc = c.wrap_top THEN c.wrap_bottom ELSE sm.pc + 1
           next == IF branch /\ taken THEN Low5(w) ELSE sequential
           denied == ~((\E v \in Range(c.program.instructions) : UsesTestPin(v))
                         /\ c.program.test_pin \in claim_mask(c))
<1>1. s = CASE Opcode(w) = CTRL /\ Sel(w) = 1 -> <<"halt", sm.pc>>
            [] branch /\ Low5(w) \notin SlotsOf(c) -> <<"fault", "PROGRAM_BOUNDS">>
            [] branch /\ Low5(w) \in SlotsOf(c) /\ UsesTestPin(w) /\ denied ->
                 <<"fault", "PIN_AUTHORIZATION">>
            [] OTHER -> IF next \in SlotsOf(c) THEN <<"pc", next>>
                                               ELSE <<"fault", "PROGRAM_BOUNDS">>
  BY DEF successor
<1>2. branch => Low5(w) \in SlotsOf(c)
  BY DEF Permitted
<1>3. UsesTestPin(w) => ~denied
  BY PlacedRegion DEF Permitted, Checked
<1>4. c.wrap_bottom \in SlotsOf(c)
      /\ (sm.pc + 1 \in SlotsOf(c) \/ sm.pc = c.base + Len(c.words) - 1)
  BY PlacedRegion
<1>5. next \notin SlotsOf(c) => sm.pc # c.wrap_top /\ sm.pc = c.base + Len(c.words) - 1
  <2> HIDE DEF taken
  <2> QED BY <1>2, <1>4
<1> HIDE DEF next, denied, branch
<1>6. s[1] = "fault" => /\ s[2] = "PROGRAM_BOUNDS" /\ next \notin SlotsOf(c)
                        /\ ~(Opcode(w) = CTRL /\ Sel(w) = 1)
  <2> HIDE DEF s
  <2>1. BRANCH # CTRL
    BY DEF BRANCH, CTRL
  <2>2. CASE Opcode(w) = CTRL /\ Sel(w) = 1
    <3>1. ~branch
      BY <2>1, <2>2 DEF branch
    <3>2. s = <<"halt", sm.pc>>
      BY <1>1, <2>2, <3>1
    <3> QED BY <3>2
  <2>3. CASE ~(Opcode(w) = CTRL /\ Sel(w) = 1)
    <3>1. s = IF next \in SlotsOf(c) THEN <<"pc", next>> ELSE <<"fault", "PROGRAM_BOUNDS">>
      BY <1>1, <1>2, <1>3, <2>3
    <3> QED BY <2>3, <3>1
  <2> QED BY <2>2, <2>3
<1> QED BY <1>5, <1>6 DEF AtEnd

\* The store holds the image, and what then is left to a machine that runs it.
Holds(c) ==
  \A k \in DOMAIN c.words :
    c.base + k - 1 \in imem_valid /\ imem[c.base + k - 1] = c.words[k]
Own(r, c) ==
  r.fault \notin {"NONE", "SHIFT_BOUNDS"} =>
    r.fault = "PROGRAM_BOUNDS" /\ AtEnd(r.pc, c, imem[r.pc])

\* A machine configured for c: it has faulted only when it is closing, while it may still
\* run its pc is in its program, and with its words in place a fault is its own doing.
Regular(r, c) ==
  /\ IsSM(r)
  /\ r.fault # "NONE" => r.state = "CLOSING"
  /\ r.state \in {"RUNNING", "PAUSED"} => r.pc \in SlotsOf(c)
  /\ Holds(c) => Own(r, c)

LEMMA FetchedWord ==
  ASSUME NEW c \in Placed, Holds(c), NEW x \in SlotsOf(c)
  PROVE  x \in imem_valid /\ Permitted(c, imem[x]) /\ imem[x] \in Nat
<1>1. /\ c.base \in Nat /\ DOMAIN c.words = 1 .. Len(c.words) /\ Len(c.words) \in Nat
      /\ x \in c.base .. (c.base + Len(c.words) - 1)
  BY SlotFacts
<1> DEFINE k == x - c.base + 1
<1>2. k \in 1 .. Len(c.words) /\ c.base + k - 1 = x
  <2> DEFINE n == Len(c.words)
             b == c.base
  <2> HIDE DEF n, b
  <2>1. b \in Nat /\ n \in Nat /\ x \in b .. (b + n - 1)
    BY <1>1 DEF b, n
  <2>2. x - b + 1 \in 1 .. n /\ b + (x - b + 1) - 1 = x
    BY <2>1
  <2> QED BY <2>2 DEF b, n
<1> HIDE DEF k
<1>3. k \in DOMAIN c.words /\ x \in imem_valid /\ imem[x] = c.words[k]
  BY <1>1, <1>2 DEF Holds
<1> QED BY <1>3, ImageWords

\* Nothing holds the default configuration: its word is no instruction.
LEMMA HeldIsPlaced ==
  ASSUME StoreInv, NEW h \in {0} \cup Handles, Holds(ImageOf(h))
  PROVE  ImageOf(h) \in Placed
<1>1. CASE h # 0
  BY <1>1, HandleFacts DEF ImageOf, StoreInv
<1>2. CASE h = 0
  <2> DEFINE c == ImageOf(h)
  <2>1. Opcode(NoWord) # BRANCH
    BY DEF Opcode, NoWord, BRANCH
  <2>2. NoProgram.instructions = <<NoWord>>
    BY DEF NoProgram
  <2>3. c.base = 0 /\ DOMAIN c.words = {1} /\ c.words[1] = NoWord
    <3>1. c = relocate_program(NoProgram, 0)
      BY <1>2 DEF ImageOf
    <3> HIDE DEF c
    <3> QED BY <2>1, <2>2, <3>1 DEF relocate_program
  <2> HIDE DEF c
  <2>4. 0 \in imem_valid /\ imem[0] = NoWord
    <3>1. Holds(c)
      BY DEF c
    <3>2. 0 + 1 - 1 = 0
      OBVIOUS
    <3> QED BY <2>3, <3>1, <3>2 DEF Holds
  <2> QED BY <2>4, ValidWords, ImageWords
<1> QED BY <1>1, <1>2

LEMMA FaultOf ==
  ASSUME NEW sm, IsSM(sm), sm.fault = "NONE", NEW code
  PROVE  /\ IsSM(fault(sm, code)) /\ fault(sm, code).state = "CLOSING"
         /\ fault(sm, code).fault = code /\ fault(sm, code).pc = sm.pc
BY DEF IsSM, fault

LEMMA SettledRegular ==
  ASSUME NEW sm, IsSM(sm), sm.state = "RUNNING", sm.fault = "NONE", NEW c,
         sm.pc \in SlotsOf(c), NEW a, Applies(a, sm, c), NEW s,
         s[1] \in {"halt", "pc", "fault"}, s[1] = "pc" => s[2] \in SlotsOf(c),
         Holds(c) => /\ OnlyShifts(a)
                     /\ s[1] = "fault" => /\ s[2] = "PROGRAM_BOUNDS"
                                          /\ AtEnd(sm.pc, c, imem[sm.pc])
  PROVE  Regular(Settled(sm, imem[sm.pc], a, s).sm, c)
<1> DEFINE w == imem[sm.pc]
           Worse(code) == IF s[1] = "fault" /\ Code(s[2]) < Code(code) THEN s[2] ELSE code
           stalled == [sm EXCEPT !.stall = a.why]
           done == [a.sm EXCEPT !.delay_remaining = Delay(w), !.stall = "NONE",
                                !.state = IF s[1] = "halt" THEN "HALTED" ELSE @,
                                !.pc = s[2]]
           r == Settled(sm, w, a, s).sm
<1>1. Settled(sm, w, a, s) =
        CASE a.end = "stall" -> [a EXCEPT !.sm = stalled]
          [] a.end = "fault" -> [a EXCEPT !.sm = fault(sm, Worse(a.why))]
          [] a.end = "done" /\ s[1] = "fault" ->
                 [a EXCEPT !.sm = fault(sm, s[2]), !.set = {}, !.clear = {}]
          [] OTHER -> [a EXCEPT !.sm = done]
  BY DEF Settled
<1>2. Regular(stalled, c)
  BY DEF IsSM, Regular, Own
<1>3. "sm" \in DOMAIN a /\ a.end \in {"done", "stall", "fault"}
      /\ IsSM(a.sm) /\ a.sm.state = "RUNNING" /\ a.sm.fault = "NONE"
  BY DEF Applies, Drives, Keeps
<1>4. s[1] # "fault" => Regular(done, c)
  <2>1. IsSM(done) /\ done.fault = "NONE" /\ done.pc = s[2]
        /\ done.state = IF s[1] = "halt" THEN "HALTED" ELSE "RUNNING"
    BY <1>3 DEF IsSM
  <2> HIDE DEF done
  <2> QED BY <2>1 DEF Regular, Own
<1>5. ASSUME a.end = "fault" PROVE Regular(fault(sm, Worse(a.why)), c)
  <2>1. Holds(c) => \/ Worse(a.why) = "SHIFT_BOUNDS"
                    \/ Worse(a.why) = "PROGRAM_BOUNDS" /\ AtEnd(sm.pc, c, w)
    BY <1>5 DEF OnlyShifts
  <2> HIDE DEF Worse
  <2> QED BY <2>1, FaultOf DEF Regular, Own
<1>6. ASSUME s[1] = "fault" PROVE Regular(fault(sm, s[2]), c)
  BY <1>6, FaultOf DEF Regular, Own
<1> HIDE DEF stalled, done, Worse, w
<1>7. CASE a.end = "stall"
  <2>1. r = stalled
    BY <1>1, <1>3, <1>7
  <2> QED BY <1>2, <2>1 DEF w
<1>8. CASE a.end = "fault"
  <2>1. r = fault(sm, Worse(a.why))
    BY <1>1, <1>3, <1>8
  <2> QED BY <1>5, <1>8, <2>1 DEF w
<1>9. CASE a.end = "done" /\ s[1] = "fault"
  <2>1. r = fault(sm, s[2])
    BY <1>1, <1>3, <1>9
  <2> QED BY <1>6, <1>9, <2>1 DEF w
<1>10. CASE a.end = "done" /\ s[1] # "fault"
  <2>1. r = done
    BY <1>1, <1>3, <1>10
  <2> QED BY <1>4, <1>10, <2>1 DEF w
<1> QED BY <1>3, <1>7, <1>8, <1>9, <1>10

LEMMA TickRegular ==
  ASSUME \A k \in imem_valid : imem[k] \in Nat,
         NEW sm, IsSM(sm), sm.state = "RUNNING", sm.fault = "NONE", NEW c,
         sm.pc \in SlotsOf(c), sm.oe \subseteq output_mask(c),
         c.program.out_window \in [base : Nat, width : Nat], Holds(c) => c \in Placed,
         NEW flgs, NEW pins
  PROVE  Regular(execution_tick(sm, c, flgs, pins).sm, c)
<1> DEFINE idle == sm.delay_remaining = 0
           delayed == [sm EXCEPT !.delay_remaining = @ - 1, !.stall = "NONE"]
           w == imem[sm.pc]
<1>1. execution_tick(sm, c, flgs, pins) =
        CASE idle /\ sm.pc \notin SlotsOf(c) -> Done(fault(sm, "PROGRAM_BOUNDS"))
          [] idle /\ sm.pc \in SlotsOf(c) \ imem_valid -> Done(fault(sm, "INVALID_FETCH"))
          [] idle /\ sm.pc \in SlotsOf(c) \cap imem_valid /\ ~Instruction_validate(w) ->
                 Done(fault(sm, "ILLEGAL_INSTRUCTION"))
          [] idle /\ sm.pc \in SlotsOf(c) \cap imem_valid /\ Instruction_validate(w) ->
                 Executed(sm, c, w, flgs, pins)
          [] OTHER -> Done(delayed)
  BY DEF execution_tick
<1>2. Holds(c) => sm.pc \in imem_valid /\ Permitted(c, w) /\ Instruction_validate(w)
  BY FetchedWord DEF Permitted, Checked
<1>3. ASSUME sm.pc \in imem_valid
      PROVE  Regular(Executed(sm, c, w, flgs, pins).sm, c)
  <2> DEFINE a == apply(sm, c, w, flgs, pins)
             s == successor(a.sm, c, w, flgs, pins)
  <2>1. w \in Nat
    BY <1>3
  <2>2. Applies(a, sm, c)
    BY <2>1, ApplyDrives
  <2>3. s[1] \in {"halt", "pc", "fault"} /\ (s[1] = "pc" => s[2] \in SlotsOf(c))
    BY SuccessorStays
  <2>4. Holds(c) => OnlyShifts(a)
    BY <1>2, <2>1, ApplyFaults, PlacedRegion
  <2>5. a.sm.pc = sm.pc
    BY <2>2 DEF Applies, Drives, Keeps
  <2>6. Holds(c) /\ s[1] = "fault" => s[2] = "PROGRAM_BOUNDS" /\ AtEnd(sm.pc, c, w)
    <3> HIDE DEF a, w
    <3> QED BY <1>2, <2>5, SuccessorFaults
  <2>7. Executed(sm, c, w, flgs, pins) = Settled(sm, w, a, s)
    BY DEF Executed, Applied
  <2> HIDE DEF a, s
  <2>8. Regular(Settled(sm, w, a, s).sm, c)
    BY <2>2, <2>3, <2>4, <2>6, SettledRegular
  <2> QED BY <2>7, <2>8
<1>4. ASSUME NEW code, ~Holds(c) PROVE Regular(fault(sm, code), c)
  BY <1>4, FaultOf DEF Regular
<1>5. Regular(delayed, c)
  BY DEF IsSM, Regular, Own
<1>6. \A x : Done(x).sm = x
  BY DEF Done
<1> HIDE DEF delayed, w, idle
<1> QED BY <1>1, <1>2, <1>3, <1>4, <1>5, <1>6

LEMMA ClockedRegular ==
  ASSUME \A k \in imem_valid : imem[k] \in Nat,
         NEW sm, NEW c, c = Image(sm), Regular(sm, c), Safe(sm, c),
         c.program.out_window \in [base : Nat, width : Nat], Holds(c) => c \in Placed,
         NEW flgs, NEW pins
  PROVE  Regular(Clocked(sm, flgs, pins).sm, c)
<1> DEFINE divided == [sm EXCEPT !.divider_remaining = @ - 1]
           reloaded == [sm EXCEPT !.divider_remaining = sm.config.divider]
<1>1. Clocked(sm, flgs, pins) =
        CASE sm.state # "RUNNING" -> Done(sm)
          [] sm.state = "RUNNING" /\ sm.divider_remaining > 1 -> Done(divided)
          [] OTHER -> execution_tick(reloaded, c, flgs, pins)
  BY DEF Clocked
<1>2. Like(divided, sm) /\ Like(reloaded, sm)
  BY DEF IsSM, Like, Safe, Keeps
<1> HIDE DEF divided, reloaded
<1>3. Regular(divided, c)
  BY <1>2 DEF Regular, Own, Like, Keeps
<1>4. ASSUME sm.state = "RUNNING"
      PROVE  Regular(execution_tick(reloaded, c, flgs, pins).sm, c)
  <2>1. /\ IsSM(reloaded) /\ reloaded.state = "RUNNING" /\ reloaded.fault = "NONE"
        /\ reloaded.pc \in SlotsOf(c) /\ reloaded.oe \subseteq output_mask(c)
    BY <1>2, <1>4 DEF Regular, Safe, Like, Keeps
  <2> QED BY <2>1, TickRegular
<1>5. \A x : Done(x).sm = x
  BY DEF Done
<1> QED BY <1>1, <1>3, <1>4, <1>5

\* The inductive invariant of the faults.  The store changes only while both machines
\* are disabled, and a machine that has faulted is closing until it is reset: so what was
\* true of the words when it faulted stays true.
FaultInv == \A i \in SMs : Regular(sms[i], Image(sms[i]))

LEMMA FaultInvOwn == FaultInv => OnlyOwnFaults
<1> SUFFICES ASSUME FaultInv, NEW i \in SMs, sms[i].fault \notin {"NONE", "SHIFT_BOUNDS"},
                    Intact(sms[i])
             PROVE  RanOff(sms[i])
  BY DEF OnlyOwnFaults
<1>1. Holds(Image(sms[i]))
  BY DEF Intact, Holds
<1> QED BY <1>1 DEF FaultInv, Regular, Own, AtEnd, RanOff

\* The frame of a step that leaves the store alone.
LEMMA FaultKept ==
  ASSUME StoreInv, DriveInv, [Next]_vars, UNCHANGED <<imem, imem_valid>>,
         \A i \in SMs : /\ sms'[i].config = sms[i].config
                        /\ Regular(sms'[i], Image(sms[i]))
  PROVE  FaultInv'
<1> SUFFICES ASSUME NEW i \in SMs PROVE Regular(sms[i], Image(sms[i]))'
  BY DEF FaultInv
<1>1. Image(sms[i])' = Image(sms[i])
  BY ImageStays DEF DriveInv
<1>2. Regular(sms'[i], Image(sms[i]))
  OBVIOUS
<1> QED BY <1>1, <1>2 DEF Regular, Holds, Own, AtEnd, SlotsOf

\* A disabled machine without a fault is regular whatever the store holds.
LEMMA FaultQuiet ==
  ASSUME \A i \in SMs : /\ IsSM(sms'[i]) /\ sms'[i].fault = "NONE"
                        /\ sms'[i].state = "DISABLED"
  PROVE  FaultInv'
BY DEF FaultInv, Regular, Own

LEMMA ResetFault ==
  ASSUME NEW config
  PROVE  /\ IsSM(SM(config)) /\ SM(config).fault = "NONE" /\ SM(config).state = "DISABLED"
         /\ SM(config).pc = ImageOf(config.handle).entry /\ SM(config).config = config
BY DEF SM, IsSM

LEMMA ResetRegular ==
  ASSUME NEW config, NEW c
  PROVE  Regular(SM(config), c)
BY ResetFault DEF Regular, Own

LEMMA ConfigureFaults ==
  ASSUME StoreInv, DriveInv, FaultInv, [Next]_vars, NEW i, NEW h, NEW d, configure(i, h, d)
  PROVE  FaultInv'
<1>1. DOMAIN sms = SMs /\ UNCHANGED <<imem, imem_valid>>
  BY DEF DriveInv, configure, store
<1>2. CASE i \notin SMs
  <2>1. \A k \in SMs : sms'[k] = sms[k]
    BY <1>1, <1>2 DEF configure
  <2> QED BY <1>1, <2>1, FaultKept DEF FaultInv
<1>3. CASE i \in SMs
  <2> DEFINE r == [sms[i] EXCEPT !.config = SMConfig(h, d)]
  <2>1. sms' = [sms EXCEPT ![i] = r] /\ sms[i].state = "DISABLED"
    BY DEF configure
  <2>2. IsSM(sms[i]) /\ sms[i].fault = "NONE"
    BY <1>3, <2>1 DEF FaultInv, Regular
  <2>3. IsSM(r) /\ r.state = "DISABLED" /\ r.fault = "NONE"
    BY <2>1, <2>2 DEF IsSM
  <2> HIDE DEF r
  <2>4. sms'[i] = r /\ \A k \in SMs \ {i} : sms'[k] = sms[k]
    BY <1>1, <1>3, <2>1
  <2>5. ASSUME NEW k \in SMs PROVE Regular(sms[k], Image(sms[k]))'
    <3>1. CASE k = i
      BY <2>3, <2>4, <3>1 DEF Regular, Own
    <3>2. CASE k # i
      <4>1. sms'[k] = sms[k] /\ Regular(sms[k], Image(sms[k]))
        BY <2>4, <3>2 DEF FaultInv
      <4>2. Image(sms[k])' = Image(sms[k])
        BY <4>1, ImageStays DEF DriveInv
      <4> QED BY <1>1, <4>1, <4>2 DEF Regular, Holds, Own, AtEnd, SlotsOf
    <3> QED BY <3>1, <3>2
  <2> QED BY <2>5 DEF FaultInv
<1> QED BY <1>2, <1>3

LEMMA StartFaults ==
  ASSUME StoreInv, DriveInv, FaultInv, [Next]_vars, NEW mask, start(mask)
  PROVE  FaultInv'
<1>1. /\ sms' = [i \in SMs |-> IF i \in mask THEN Started(sms[i]) ELSE sms[i]]
      /\ \A i \in mask : config_validate(Image(sms[i]))
      /\ UNCHANGED <<imem, imem_valid>>
  BY DEF start, store
<1>2. ASSUME NEW i \in SMs, i \in mask
      PROVE  Regular(Started(sms[i]), Image(sms[i])) /\ Started(sms[i]).config = sms[i].config
  <2> DEFINE m == SM(sms[i].config)
  <2>1. IsSM(m) /\ m.fault = "NONE" /\ m.pc = Image(sms[i]).entry /\ m.config = sms[i].config
    BY ResetFault DEF Image
  <2>2. Image(sms[i]).entry \in SlotsOf(Image(sms[i]))
    BY <1>1, <1>2 DEF config_validate
  <2>3. Started(sms[i]) = [m EXCEPT !.tx = sms[i].tx, !.state = "RUNNING"]
    BY DEF Started
  <2> HIDE DEF m
  <2> QED BY <2>1, <2>2, <2>3 DEF IsSM, Regular, Own
<1>3. ASSUME NEW i \in SMs
      PROVE  sms'[i].config = sms[i].config /\ Regular(sms'[i], Image(sms[i]))
  BY <1>1, <1>2 DEF FaultInv
<1> QED BY <1>1, <1>3, FaultKept

LEMMA ResetFaults ==
  ASSUME StoreInv, DriveInv, FaultInv, [Next]_vars, NEW mask, sm_reset(mask)
  PROVE  FaultInv'
<1>1. /\ sms' = [i \in SMs |-> IF i \in mask THEN SM(sms[i].config) ELSE sms[i]]
      /\ UNCHANGED <<imem, imem_valid>>
  BY DEF sm_reset, store
<1>2. ASSUME NEW i \in SMs
      PROVE  sms'[i].config = sms[i].config /\ Regular(sms'[i], Image(sms[i]))
  BY <1>1, ResetFault, ResetRegular DEF FaultInv
<1> QED BY <1>1, <1>2, FaultKept

\* DISABLE is refused to a closing machine, PAUSE and RESUME look at the state.
LEMMA CommandRegular ==
  ASSUME NEW sm, NEW c, Regular(sm, c), NEW cmd, MayCommand(sm, cmd)
  PROVE  Regular(Commanded(sm, cmd), c)
<1> DEFINE r == Commanded(sm, cmd)
<1>1. /\ IsSM(r) /\ r.pc = sm.pc /\ r.fault = sm.fault
      /\ r.state \in {"RUNNING", "PAUSED"} => sm.state \in {"RUNNING", "PAUSED"}
      /\ sm.state = "CLOSING" => r.state = "CLOSING"
  BY DEF Regular, IsSM, Commanded, MayCommand
<1> HIDE DEF r
<1>2. Regular(r, c)
  BY <1>1 DEF Regular, Own
<1> QED BY <1>2 DEF r

LEMMA EdgeFaults ==
  ASSUME StoreInv, DriveInv, FaultInv, [Next]_vars, Edge(Scenes[scene])
  PROVE  FaultInv'
<1>1. UNCHANGED <<imem, imem_valid>>
  <2>1. ASSUME NEW ran, NEW ext, NEW put, NEW readers, step(ran, ext, put, readers)
        PROVE  UNCHANGED <<imem, imem_valid>>
    BY <2>1 DEF step, store
  <2> QED BY <2>1 DEF Edge
<1>2. \A k \in imem_valid : imem[k] \in Nat
  BY WordsAreNat
<1>3. ASSUME NEW i \in SMs
      PROVE  sms'[i].config = sms[i].config /\ Regular(sms'[i], Image(sms[i]))
  <2> DEFINE c == Image(sms[i])
  <2>1. PICK cmd, r, pins :
          /\ MayCommand(sms[i], cmd) /\ r = Commanded(sms[i], cmd)
          /\ Safe(r, Image(sms[i])) /\ r.config = sms[i].config
          /\ Clocks(Clocked(r, flags, pins), r, Image(sms[i]))
          /\ Like(sms'[i], Clocked(r, flags, pins).sm)
    BY EdgeShape
  <2>2. Regular(r, c)
    BY <2>1, CommandRegular DEF FaultInv
  <2>3. Image(r) = c
    BY <2>1 DEF Image
  <2>4. sms[i].config.handle \in {0} \cup Handles /\ c = ImageOf(sms[i].config.handle)
    BY DEF DriveInv, Image
  <2>5. /\ c.program.out_window \in [base : Nat, width : Nat]
        /\ Holds(c) => c \in Placed
    BY <2>4, OutWindows, HeldIsPlaced
  <2> HIDE DEF c
  <2>6. Regular(Clocked(r, flags, pins).sm, c)
    BY <1>2, <2>1, <2>2, <2>3, <2>5, ClockedRegular DEF c
  <2>7. Regular(sms'[i], c)
    BY <2>1, <2>6 DEF Regular, Own, Like, Keeps
  <2>8. sms'[i].config = sms[i].config
    BY <2>1 DEF Clocks, Like, Keeps
  <2> QED BY <2>7, <2>8 DEF c
<1> QED BY <1>1, <1>3, FaultKept

LEMMA FaultStep == StoreInv /\ DriveInv /\ FaultInv /\ [Next]_vars => FaultInv'
<1> SUFFICES ASSUME StoreInv, DriveInv, FaultInv, [Next]_vars PROVE FaultInv'
  OBVIOUS
<1>1. ASSUME UNCHANGED <<sms, imem, imem_valid>> PROVE FaultInv'
  BY <1>1, FaultKept DEF FaultInv
<1>2. ASSUME AllDisabled, UNCHANGED sms PROVE FaultInv'
  BY <1>2, FaultQuiet DEF FaultInv, Regular, AllDisabled
<1>3. CASE Churn(Scenes[scene])
  <2>1. ASSUME NEW src, NEW base, load(src, base) PROVE UNCHANGED <<sms, imem, imem_valid>>
    BY <2>1 DEF load
  <2>2. ASSUME NEW h, unload(h) PROVE UNCHANGED <<sms, imem, imem_valid>>
    BY <2>2 DEF unload, store
  <2>3. ASSUME NEW h, publish(h) \/ unpublish(h) PROVE AllDisabled /\ UNCHANGED sms
    BY <2>3 DEF publish, unpublish
  <2>4. invalidate_imem => AllDisabled /\ UNCHANGED sms
    BY DEF invalidate_imem
  <2> QED BY <1>1, <1>2, <1>3, <2>1, <2>2, <2>3, <2>4, ConfigureFaults DEF Churn
<1>4. ASSUME NEW mask, start(mask) \/ sm_reset(mask) PROVE FaultInv'
  BY <1>4, StartFaults, ResetFaults
<1>5. CASE Edge(Scenes[scene])
  BY <1>5, EdgeFaults
<1>6. CASE UNCHANGED vars
  BY <1>1, <1>6 DEF vars, store
<1> QED BY <1>3, <1>4, <1>5, <1>6 DEF Next

LEMMA FaultInit == Init => FaultInv
<1> SUFFICES ASSUME Init PROVE FaultInv
  OBVIOUS
<1>1. PICK d : sms = [i \in SMs |-> SM(SMConfig(IF i \in Handles THEN i ELSE 0, d[i]))]
  BY DEF Init
<1>2. \A i \in SMs : \E config : sms[i] = SM(config)
  BY <1>1
<1> QED BY <1>2, ResetRegular DEF FaultInv

\* OnlyOwnFaults for all accepted programs: with its words in place, a program that
\* Program.validate let through never meets a fetch, decoding, branch-target or pin
\* authorization fault, wherever it was relocated and whatever the other machine, the
\* caller and the pins do; what is left is a shift count or the end of its own code.
THEOREM FaultsStayOwn == Spec => []OnlyOwnFaults
<1>1. Init => StoreInv /\ DriveInv /\ FaultInv
  BY StoreInit, DriveInit, FaultInit
<1>2. StoreInv /\ DriveInv /\ FaultInv /\ [Next]_vars => (StoreInv /\ DriveInv /\ FaultInv)'
  BY StoreStep, DriveStep, FaultStep
<1>3. StoreInv /\ DriveInv /\ FaultInv => OnlyOwnFaults
  BY FaultInvOwn
<1> QED BY <1>1, <1>2, <1>3, PTL DEF Spec
=============================================================================
