------------------------- MODULE TargetGuard_proofs -------------------------
(***************************************************************************)
(* Proofs about the target guard, for every timeout, burst length, FIFO    *)
(* depth and traffic, and for a target that may stall or fall silent at    *)
(* any beat and forget to mark the last one, but sends no beat it was not  *)
(* asked for.                                                              *)
(***************************************************************************)
EXTENDS TargetGuard, SequenceTheorems, WellFoundedInduction, TLAPS

-----------------------------------------------------------------------------
(* The inductive invariant.                                                *)

\* What a neighbour must hold valid it owes.
OfferInv ==
  /\ "r" \in offered => snk_reads # <<>>
  /\ "b" \in offered => snk_writes # <<>>

\* A direction without traffic rests.
RestInv ==
  /\ traffic[1] = 0 =>
       /\ to_read = 0 /\ ar_fifo = <<>> /\ read_state = "Idle" /\ read_latched = FALSE
       /\ src_reads = <<>> /\ snk_reads = <<>>
  /\ traffic[2] = 0 =>
       /\ to_write = 0 /\ aw_fifo = <<>> /\ write_state = "Idle" /\ write_latched = FALSE
       /\ src_writes = <<>> /\ snk_writes = <<>>

\* A report that is taken at once is never held.
PromptInv ==
  ~MailboxMayBeBusy =>
    /\ hold = FALSE
    /\ traffic[2] = 0 => read_latched = FALSE
    /\ traffic[1] = 0 => write_latched = FALSE

\* The books of the source are the burst that is served, followed by the FIFO.
Serves(books, fifo, n) == books # <<>> /\ Head(books) = n /\ Tail(books) = fifo

\* Reads alone: where the burst at the head stands, and what the target owes of it.
ReadInv ==
  traffic[2] = 0 /\ ~MailboxMayBeBusy =>
    /\ read_state \in {"Idle", "Send"} => src_reads = ar_fifo /\ snk_reads = <<>>
    /\ read_state = "Send" => ar_fifo # <<>>
    /\ read_state \in {"Forward", "Abort", "Synthetic"} =>
         Serves(src_reads, ar_fifo, read_remaining)
    /\ read_state = "Forward" => Serves(snk_reads, <<>>, read_remaining)
    /\ read_state = "Synthetic" => snk_reads = <<>>
    /\ read_state \in {"Send", "Forward"} => ~isolated

\* Writes alone: the same; the data of a write is complete exactly when its last
\* beat was seen.
Remaining == Head(src_writes)
WriteInv ==
  traffic[1] = 0 /\ ~MailboxMayBeBusy =>
    /\ write_state \in {"Idle", "Send"} => src_writes = aw_fifo /\ snk_writes = <<>>
    /\ write_state = "Send" => aw_fifo # <<>> /\ ~write_last_seen
    /\ write_state \notin {"Idle", "Send"} => Serves(src_writes, aw_fifo, Remaining)
    /\ write_state \in {"Stream", "Response"} => Serves(snk_writes, <<>>, Remaining)
    /\ write_state \in {"Drop", "Synthetic"} => snk_writes = <<>>
    /\ write_state \in {"Stream", "Drop"} => Remaining > 0 /\ ~write_last_seen
    /\ write_state \in {"Response", "Synthetic"} => Remaining = 0 /\ write_last_seen
    /\ write_state = "Abort" => (write_last_seen <=> Remaining = 0)
    /\ write_state \in {"Send", "Stream", "Response"} => ~isolated

GuardInv ==
  TypeOK /\ OfferInv /\ RestInv /\ PromptInv /\ ReadInv /\ WriteInv /\ EveryBurstExact
-----------------------------------------------------------------------------
(* Lemmas about FIFOs and books.                                           *)

LEMMA Least == ASSUME NEW T \in SUBSET Nat, T # {} PROVE \E k \in T : \A j \in T : k <= j
<1>1. PICK x \in T : \A y \in T : ~(<<y, x>> \in OpToRel(<, Nat))
  BY NatLessThanWellFounded, WFMin
<1>2. \A y \in T : ~(y < x)
  BY <1>1 DEF OpToRel
<1> QED BY <1>2

LEMMA Constants ==
  Timeout \in Nat /\ MaxBeats \in Nat \ {0} /\ Depth \in Nat \ {0} /\ Beats \subseteq 0 .. MaxBeats
  /\ \A b \in Beats : b \in Nat /\ b > 0
BY GuardAssumption DEF Beats

\* What follows a push into a FIFO or a hand-over noted in the books.
LEMMA Pushed ==
  ASSUME NEW S, NEW s \in Seq(S), NEW b \in {0} \cup Beats, Beats \subseteq S
  PROVE  /\ Append0(s, b) \in Seq(S)
         /\ Len(Append0(s, b)) <= Len(s) + 1 /\ Len(Append0(s, b)) >= Len(s)
         /\ b = 0 => Append0(s, b) = s
         /\ s # <<>> => /\ Append0(s, b) # <<>> /\ Head(Append0(s, b)) = Head(s)
                        /\ Tail(Append0(s, b)) = Append0(Tail(s), b)
<1>1. CASE b = 0
  BY <1>1 DEF Append0
<1>2. CASE b # 0
  <2>1. b \in S /\ Append0(s, b) = Append(s, b)
    BY <1>2 DEF Append0
  <2>2. s # <<>> => Tail(Append(s, b)) = Append(Tail(s), b)
    BY <2>1
  <2> QED BY <1>2, <2>1, <2>2 DEF Append0
<1> QED BY <1>1, <1>2

LEMMA Popped ==
  ASSUME NEW S, NEW s \in Seq(S), NEW pop \in BOOLEAN
  PROVE  /\ Pop(s, pop) \in Seq(S) /\ Len(Pop(s, pop)) <= Len(s)
         /\ pop /\ s # <<>> => Pop(s, pop) = Tail(s)
         /\ ~pop \/ s = <<>> => Pop(s, pop) = s
BY DEF Pop

LEMMA SeqFacts ==
  ASSUME NEW S, NEW s \in Seq(S)
  PROVE  /\ Len(s) \in Nat /\ (s = <<>> <=> Len(s) = 0)
         /\ s # <<>> => Tail(s) \in Seq(S) /\ Len(Tail(s)) = Len(s) - 1
         /\ \A e \in S : /\ Append(s, e) \in Seq(S) /\ Len(Append(s, e)) = Len(s) + 1
                         /\ Append(s, e) # <<>>
OBVIOUS

LEMMA Headed ==
  ASSUME NEW s \in Seq(Beats)
  PROVE  FifoHead(s) \in Beats /\ (s # <<>> => FifoHead(s) = Head(s))
BY GuardAssumption DEF FifoHead, Beats

\* A read beat is taken from the oldest entry.
LEMMA BeatTaken ==
  ASSUME NEW s \in Seq(Beats)
  PROVE  /\ TakeBeat(s) \in Seq(Beats) /\ Len(TakeBeat(s)) <= Len(s)
         /\ s # <<>> /\ Head(s) = 1 => TakeBeat(s) = Tail(s)
         /\ s # <<>> /\ Head(s) # 1 =>
              TakeBeat(s) # <<>> /\ Head(TakeBeat(s)) = Head(s) - 1 /\ Tail(TakeBeat(s)) = Tail(s)
<1>1. CASE s = <<>>
  BY <1>1 DEF TakeBeat
<1>2. CASE s # <<>> /\ Head(s) = 1
  BY <1>2 DEF TakeBeat
<1>3. CASE s # <<>> /\ Head(s) # 1
  <2>1. Head(s) \in Beats /\ Head(s) > 1 /\ Head(s) = s[1] /\ 1 \in 1 .. Len(s)
    BY <1>3, Constants DEF Beats
  <2> DEFINE t == [s EXCEPT ![1] = s[1] - 1]
  <2>2. TakeBeat(s) = t /\ s[1] - 1 \in Beats
    BY <1>3, <2>1, Constants DEF TakeBeat, Beats
  <2>3. t \in Seq(Beats) /\ Len(t) = Len(s) /\ t[1] = s[1] - 1
    BY <2>1, <2>2
  <2>4. t # <<>> /\ Head(t) = s[1] - 1
    BY <2>1, <2>3
  <2>5. Tail(t) = Tail(s)
    BY <2>1, <2>3
  <2> HIDE DEF t
  <2> QED BY <1>3, <2>1, <2>2, <2>3, <2>4, <2>5
<1> QED BY <1>1, <1>2, <1>3, Constants

\* Write data goes to the oldest entry that still lacks some.
LEMMA DataNext ==
  ASSUME NEW s \in Seq(0 .. MaxBeats)
  PROVE  /\ NextData(s) \in 0 .. Len(s)
         /\ NextData(s) # 0 => s[NextData(s)] > 0
         /\ s # <<>> /\ Head(s) > 0 => NextData(s) = 1
<1> DEFINE open == {k \in 1 .. Len(s) : s[k] > 0}
<1>1. CASE open = {}
  <2>1. NextData(s) = 0
    BY <1>1 DEF NextData
  <2> QED BY <1>1, <2>1
<1>2. CASE open # {}
  <2>1. \E k \in open : \A j \in open : k <= j
    <3>1. open \in SUBSET Nat
      OBVIOUS
    <3> HIDE DEF open
    <3> QED BY <1>2, <3>1, Least
  <2>2. NextData(s) = CHOOSE k \in open : \A j \in open : k <= j
    BY <1>2 DEF NextData
  <2>3. NextData(s) \in open /\ \A j \in open : NextData(s) <= j
    BY <2>1, <2>2
  <2>4. s # <<>> /\ Head(s) > 0 => 1 \in open
    OBVIOUS
  <2> QED BY <2>3, <2>4
<1> QED BY <1>1, <1>2

LEMMA DataTaken ==
  ASSUME NEW s \in Seq(0 .. MaxBeats)
  PROVE  /\ TakeData(s) \in Seq(0 .. MaxBeats) /\ Len(TakeData(s)) = Len(s)
         /\ s # <<>> /\ Head(s) > 0 =>
              TakeData(s) # <<>> /\ Head(TakeData(s)) = Head(s) - 1 /\ Tail(TakeData(s)) = Tail(s)
<1>1. CASE NextData(s) = 0
  BY <1>1, DataNext DEF TakeData
<1>2. CASE NextData(s) # 0
  <2> DEFINE n == NextData(s)
             t == [s EXCEPT ![n] = s[n] - 1]
  <2>1. n \in 1 .. Len(s) /\ s[n] - 1 \in 0 .. MaxBeats /\ TakeData(s) = t
    BY <1>2, DataNext, Constants DEF TakeData
  <2> HIDE DEF n
  <2>2. t \in Seq(0 .. MaxBeats) /\ Len(t) = Len(s)
    BY <2>1
  <2>3. ASSUME s # <<>>, Head(s) > 0
        PROVE  t # <<>> /\ Head(t) = Head(s) - 1 /\ Tail(t) = Tail(s)
    <3>1. n = 1 /\ Head(s) = s[1]
      BY <2>3, DataNext DEF n
    <3>2. t # <<>> /\ Head(t) = t[1] /\ t[1] = s[1] - 1
      BY <2>1, <2>2, <3>1
    <3>3. Tail(t) = Tail(s)
      BY <2>1, <2>2, <3>1
    <3> QED BY <3>1, <3>2, <3>3
  <2> QED BY <2>1, <2>2, <2>3
<1> QED BY <1>1, <1>2
-----------------------------------------------------------------------------
(* What the neighbours can drive.                                          *)

LEMMA Driven ==
  ASSUME OfferInv, NEW i \in Inputs
  PROVE  /\ i.rvalid => snk_reads # <<>>
         /\ i.bvalid => snk_writes # <<>>
         /\ i.rlast => snk_reads # <<>> /\ Head(snk_reads) = 1
         /\ i.abort_done => "Abort" \in {read_state, write_state}
         /\ ~MailboxMayBeBusy => i.report_ready
         /\ "r" \notin offered /\ snk_reads = <<>> => ~i.rvalid
         /\ NextData(src_writes) = 0 /\ "w" \notin offered => ~i.wvalid
<1>1. /\ i.rvalid \in Offer("r", snk_reads # <<>>)
      /\ i.rlast \in When(snk_reads # <<>> /\ Head(snk_reads) = 1)
      /\ i.bvalid \in Offer("b", snk_writes # <<>> /\ Head(snk_writes) = 0)
      /\ i.abort_done \in When("Abort" \in {read_state, write_state})
      /\ i.report_ready \in (IF MailboxMayBeBusy THEN BOOLEAN ELSE {TRUE})
      /\ i.wvalid \in Offer("w", NextData(src_writes) # 0)
  BY DEF Inputs
<1> QED BY <1>1 DEF OfferInv, Offer, When

-----------------------------------------------------------------------------
(* The two machines, arm by arm.                                           *)

\* The arms of the read machine and of the write machine.
LEMMA ReadArms ==
  ASSUME NEW i, ReadMachine(i)
  PROVE  \/ timeout_block(i) /\ ReadHold /\ UNCHANGED read_timeout
         \/ /\ ~timeout_block(i) /\ read_state = "Idle" /\ read_timeout' = 0
            /\ \/ ar_fifo = <<>> /\ ReadHold
               \/ ar_fifo # <<>> /\ isolated /\ ReadLoad("Synthetic")
               \/ ar_fifo # <<>> /\ ~isolated /\ ReadTo("Send", read_id, read_remaining)
         \/ /\ ~timeout_block(i) /\ read_state = "Send" /\ isolated
            /\ ReadLoad("Synthetic") /\ UNCHANGED read_timeout
         \/ /\ ~timeout_block(i) /\ read_state = "Forward" /\ isolated
            /\ ReadTo("Abort", read_id, read_remaining) /\ UNCHANGED read_timeout
         \/ /\ ~timeout_block(i) /\ read_state # "Idle" /\ (read_state \in {"Send", "Forward"} => ~isolated)
            /\ \/ /\ read_timeout_accept(i) /\ read_timeout' = 0
                  /\ \/ read_state = "Send" /\ ReadLoad("Synthetic")
                     \/ read_state # "Send" /\ ReadTo("Abort", read_id, read_remaining)
               \/ ~read_timeout_accept(i) /\ read_timeout_pending(i) /\ ReadHold /\ UNCHANGED read_timeout
               \/ /\ ~read_timeout_accept(i) /\ ~read_timeout_pending(i) /\ ReadProgress(i)
                  /\ \/ read_timeout' = 0
                     \/ read_timeout_enable(i) /\ read_timeout' = read_timeout + 1
                     \/ read_timeout' = read_timeout
BY DEF ReadMachine

LEMMA ReadProgressArms ==
  ASSUME NEW i, ReadProgress(i)
  PROVE  \/ read_state = "Send" /\ ArSent(i) /\ ReadLoad("Forward")
         \/ /\ read_state = "Forward" /\ SinkR(i)
            /\ ReadTo(IF i.rlast \/ read_remaining = 1 THEN "Idle" ELSE "Forward", read_id,
                      IF read_remaining = 0 THEN 0 ELSE read_remaining - 1)
         \/ read_state = "Abort" /\ i.abort_done /\ ReadTo("Synthetic", read_id, read_remaining)
         \/ /\ read_state = "Synthetic" /\ SourceR(i)
            /\ ReadTo(IF read_remaining = 1 THEN "Idle" ELSE "Synthetic", read_id,
                      IF read_remaining = 0 THEN 0 ELSE read_remaining - 1)
         \/ /\ ReadHold /\ ~(read_state = "Send" /\ ArSent(i)) /\ ~(read_state = "Forward" /\ SinkR(i))
            /\ ~(read_state = "Abort" /\ i.abort_done) /\ ~(read_state = "Synthetic" /\ SourceR(i))
BY DEF ReadProgress

LEMMA WriteArms ==
  ASSUME NEW i, WriteMachine(i)
  PROVE  \/ timeout_block(i) /\ WriteHold /\ UNCHANGED write_timeout
         \/ /\ ~timeout_block(i) /\ write_state = "Idle" /\ write_timeout' = 0
            /\ \/ aw_fifo = <<>> /\ WriteTo("Idle", FALSE)
               \/ aw_fifo # <<>> /\ isolated /\ WriteLoad("Drop")
               \/ aw_fifo # <<>> /\ ~isolated /\ WriteTo("Send", FALSE)
         \/ /\ ~timeout_block(i) /\ write_state = "Send" /\ isolated
            /\ WriteLoad("Drop") /\ UNCHANGED write_timeout
         \/ /\ ~timeout_block(i) /\ write_state \in {"Stream", "Response"} /\ isolated
            /\ WriteTo("Abort", write_last_seen) /\ UNCHANGED write_timeout
         \/ /\ ~timeout_block(i) /\ write_state # "Idle"
            /\ (write_state \in {"Send", "Stream", "Response"} => ~isolated)
            /\ \/ /\ write_timeout_accept(i) /\ write_timeout' = 0
                  /\ \/ write_state = "Send" /\ WriteLoad("Drop")
                     \/ write_state # "Send" /\ WriteTo("Abort", write_last_seen)
               \/ ~write_timeout_accept(i) /\ write_timeout_pending(i) /\ WriteHold /\ UNCHANGED write_timeout
               \/ /\ ~write_timeout_accept(i) /\ ~write_timeout_pending(i) /\ WriteProgress(i)
                  /\ \/ write_timeout' = 0
                     \/ write_timeout_enable(i) /\ write_timeout' = write_timeout + 1
                     \/ write_timeout' = write_timeout
BY DEF WriteMachine, IsolationAborts

LEMMA WriteProgressArms ==
  ASSUME NEW i, WriteProgress(i)
  PROVE  \/ write_state = "Send" /\ AwSent(i) /\ WriteLoad("Stream")
         \/ write_state = "Stream" /\ SinkW(i) /\ wlast /\ WriteTo("Response", TRUE)
         \/ write_state = "Response" /\ SinkB(i) /\ WriteTo("Idle", write_last_seen)
         \/ write_state = "Abort" /\ i.abort_done /\ WriteTo(AfterAbort, write_last_seen)
         \/ write_state = "Drop" /\ SourceW(i) /\ wlast /\ WriteTo("Synthetic", TRUE)
         \/ write_state = "Synthetic" /\ SourceB(i) /\ WriteTo("Idle", write_last_seen)
         \/ /\ WriteHold /\ ~(write_state = "Send" /\ AwSent(i))
            /\ ~(write_state = "Stream" /\ SinkW(i) /\ wlast) /\ ~(write_state = "Response" /\ SinkB(i))
            /\ ~(write_state = "Abort" /\ i.abort_done) /\ ~(write_state = "Drop" /\ SourceW(i) /\ wlast)
            /\ ~(write_state = "Synthetic" /\ SourceB(i))
BY DEF WriteProgress

-----------------------------------------------------------------------------
(* Type correctness.                                                       *)

LEMMA ReadTypes ==
  ASSUME TypeOK, NEW i, ReadMachine(i)
  PROVE  /\ read_state' \in ReadStates
         /\ read_id' \in 0 .. MaxBeats /\ read_remaining' \in 0 .. MaxBeats
         /\ read_timeout' \in Nat /\ (read_timeout' = 0 \/ read_timeout' < Timeout)
<1>0. FifoHead(ar_fifo) \in 0 .. MaxBeats
  BY Headed, Constants DEF TypeOK
<1>1. ASSUME ReadHold \/ \E q \in ReadStates : ReadLoad(q) \/ ReadTo(q, read_id, read_remaining)
      PROVE  /\ read_state' \in ReadStates
             /\ read_id' \in 0 .. MaxBeats /\ read_remaining' \in 0 .. MaxBeats
  BY <1>0, <1>1 DEF TypeOK, ReadTo, ReadHold, ReadLoad
<1>2. ASSUME ReadProgress(i)
      PROVE  /\ read_state' \in ReadStates
             /\ read_id' \in 0 .. MaxBeats /\ read_remaining' \in 0 .. MaxBeats
  <2>1. PICK q \in ReadStates, n \in 0 .. MaxBeats : ReadLoad(q) \/ ReadTo(q, read_id, n)
    <3>0. read_state \in ReadStates /\ read_remaining \in 0 .. MaxBeats
      BY DEF TypeOK
    <3>1. (IF read_remaining = 0 THEN 0 ELSE read_remaining - 1) \in 0 .. MaxBeats
      BY <3>0, Constants
    <3>2. "Forward" \in ReadStates /\ "Idle" \in ReadStates /\ "Synthetic" \in ReadStates
      BY DEF ReadStates
    <3> QED BY <1>2, <3>0, <3>1, <3>2, ReadProgressArms DEF ReadHold
  <2> QED BY <2>1, <1>0 DEF TypeOK, ReadTo, ReadLoad
<1>3. /\ read_state' \in ReadStates
      /\ read_id' \in 0 .. MaxBeats /\ read_remaining' \in 0 .. MaxBeats
  BY <1>1, <1>2, ReadArms DEF ReadStates
<1>4. \/ read_timeout' = 0 \/ read_timeout' = read_timeout
      \/ /\ read_timeout_enable(i) /\ ~read_timeout_pending(i)
         /\ read_timeout' = read_timeout + 1
  BY ReadArms
<1>5. read_timeout_enable(i) /\ ~read_timeout_pending(i) => Timeout # 0 /\ read_timeout # Timeout - 1
  BY DEF read_timeout_enable, read_timeout_pending, read_timeout_raw
<1>6. read_timeout \in Nat /\ (read_timeout = 0 \/ read_timeout < Timeout)
  BY DEF TypeOK
<1>7. read_timeout' \in Nat /\ (read_timeout' = 0 \/ read_timeout' < Timeout)
  BY <1>4, <1>5, <1>6, Constants
<1> QED BY <1>3, <1>7

LEMMA WriteTypes ==
  ASSUME TypeOK, NEW i, WriteMachine(i)
  PROVE  /\ write_state' \in WriteStates /\ write_id' \in 0 .. MaxBeats
         /\ write_last_seen' \in BOOLEAN
         /\ write_timeout' \in Nat /\ (write_timeout' = 0 \/ write_timeout' < Timeout)
<1>0. FifoHead(aw_fifo) \in 0 .. MaxBeats
  BY Headed, Constants DEF TypeOK
<1>1. ASSUME \E q \in WriteStates, l \in BOOLEAN : WriteLoad(q) \/ WriteTo(q, l)
      PROVE  write_state' \in WriteStates /\ write_id' \in 0 .. MaxBeats /\ write_last_seen' \in BOOLEAN
  BY <1>0, <1>1 DEF TypeOK, WriteTo, WriteLoad
<1>2. write_state \in WriteStates /\ write_last_seen \in BOOLEAN /\ AfterAbort \in WriteStates
  BY DEF TypeOK, WriteStates, AfterAbort
<1>3. WriteProgress(i) => \E q \in WriteStates, l \in BOOLEAN : WriteLoad(q) \/ WriteTo(q, l)
  BY <1>2, WriteProgressArms DEF WriteStates, WriteHold
<1>4. \E q \in WriteStates, l \in BOOLEAN : WriteLoad(q) \/ WriteTo(q, l)
  BY <1>2, <1>3, WriteArms DEF WriteStates, WriteHold
<1>5. \/ write_timeout' = 0 \/ write_timeout' = write_timeout
      \/ /\ write_timeout_enable(i) /\ ~write_timeout_pending(i)
         /\ write_timeout' = write_timeout + 1
  BY WriteArms
<1>6. write_timeout_enable(i) /\ ~write_timeout_pending(i) => Timeout # 0 /\ write_timeout # Timeout - 1
  BY DEF write_timeout_enable, write_timeout_pending, write_timeout_raw
<1>7. write_timeout \in Nat /\ (write_timeout = 0 \/ write_timeout < Timeout)
  BY DEF TypeOK
<1>8. write_timeout' \in Nat /\ (write_timeout' = 0 \/ write_timeout' < Timeout)
  BY <1>5, <1>6, <1>7, Constants
<1> QED BY <1>1, <1>4, <1>8

\* What is left of the books behind a beat, a data beat or a response.
LEMMA ReadsLeft ==
  ASSUME NEW s \in Seq(Beats), NEW take \in BOOLEAN
  PROVE  /\ (IF take THEN TakeBeat(s) ELSE s) \in Seq(Beats)
         /\ Len(IF take THEN TakeBeat(s) ELSE s) <= Len(s)
<1>1. CASE take
  BY <1>1, BeatTaken
<1>2. CASE ~take
  BY <1>2, SeqFacts
<1> QED BY <1>1, <1>2

LEMMA DataLeft ==
  ASSUME NEW s \in Seq(0 .. MaxBeats), NEW take \in BOOLEAN
  PROVE  /\ (IF take THEN TakeData(s) ELSE s) \in Seq(0 .. MaxBeats)
         /\ Len(IF take THEN TakeData(s) ELSE s) = Len(s)
<1>1. CASE take
  BY <1>1, DataTaken
<1>2. CASE ~take
  BY <1>2, SeqFacts
<1> QED BY <1>1, <1>2

LEMMA ResponseLeft ==
  ASSUME NEW s \in Seq(0 .. MaxBeats), NEW take \in BOOLEAN, take => s # <<>>
  PROVE  /\ (IF take THEN Tail(s) ELSE s) \in Seq(0 .. MaxBeats)
         /\ Len(IF take THEN Tail(s) ELSE s) <= Len(s)
         /\ ~take => (IF take THEN Tail(s) ELSE s) = s
<1>1. CASE take
  BY <1>1, SeqFacts
<1>2. CASE ~take
  BY <1>2, SeqFacts
<1> QED BY <1>1, <1>2

LEMMA Handshakes ==
  ASSUME NEW i
  PROVE  /\ SourceR(i) \in BOOLEAN /\ SinkR(i) \in BOOLEAN /\ ArSent(i) \in BOOLEAN
         /\ SourceW(i) \in BOOLEAN /\ SinkW(i) \in BOOLEAN /\ AwSent(i) \in BOOLEAN
         /\ SourceB(i) \in BOOLEAN /\ SinkB(i) \in BOOLEAN
         /\ ar_pop(i) \in BOOLEAN /\ aw_pop(i) \in BOOLEAN
         /\ SinkB(i) => i.bvalid
         /\ SinkR(i) => i.rvalid
         /\ ArSent(i) \/ AwSent(i) => ~isolated
BY DEF SourceR, SinkR, ArSent, SourceW, SinkW, AwSent, SourceB, SinkB, ar_pop, aw_pop

LEMMA BookTypes ==
  ASSUME TypeOK, OfferInv, NEW i \in Inputs, NEW r \in {0} \cup Beats, NEW w \in {0} \cup Beats,
         Books(i, r, w)
  PROVE  /\ src_reads' \in Seq(Beats) /\ snk_reads' \in Seq(Beats)
         /\ src_writes' \in Seq(0 .. MaxBeats) /\ snk_writes' \in Seq(0 .. MaxBeats)
         /\ isolated => Len(snk_reads') <= Len(snk_reads) /\ Len(snk_writes') <= Len(snk_writes)
         /\ OfferInv'
<1>0. /\ src_reads \in Seq(Beats) /\ snk_reads \in Seq(Beats)
      /\ src_writes \in Seq(0 .. MaxBeats) /\ snk_writes \in Seq(0 .. MaxBeats)
      /\ ar_fifo \in Seq(Beats) /\ aw_fifo \in Seq(Beats)
  BY DEF TypeOK
<1>b. Beats \subseteq 0 .. MaxBeats
  BY Constants
<1>1. src_reads' \in Seq(Beats)
  <2> DEFINE left == IF SourceR(i) THEN TakeBeat(src_reads) ELSE src_reads
  <2>1. left \in Seq(Beats)
    BY <1>0, ReadsLeft, Handshakes
  <2>2. src_reads' = Append0(left, r)
    BY DEF Books
  <2> HIDE DEF left
  <2> QED BY <2>1, <2>2, Pushed
<1>2. src_writes' \in Seq(0 .. MaxBeats)
  <2> DEFINE data == IF SourceW(i) THEN TakeData(src_writes) ELSE src_writes
             rest == IF SourceB(i) /\ data # <<>> THEN Tail(data) ELSE data
  <2>1. data \in Seq(0 .. MaxBeats)
    BY <1>0, DataLeft, Handshakes
  <2>2. src_writes' = Append0(rest, w)
    BY DEF Books
  <2> HIDE DEF data
  <2>3. rest \in Seq(0 .. MaxBeats)
    BY <2>1, ResponseLeft, Handshakes
  <2> HIDE DEF rest
  <2> QED BY <1>b, <2>2, <2>3, Pushed
<1>3. /\ snk_reads' \in Seq(Beats)
      /\ isolated => Len(snk_reads') <= Len(snk_reads)
      /\ "r" \in offered' => snk_reads' # <<>>
  <2> DEFINE beat == IF SinkR(i) THEN TakeBeat(snk_reads) ELSE snk_reads
  <2>1. beat \in Seq(Beats) /\ Len(beat) <= Len(snk_reads)
    BY <1>0, ReadsLeft, Handshakes
  <2>2. \/ i.abort_done /\ snk_reads' = <<>>
        \/ ~i.abort_done /\ ArSent(i) /\ snk_reads' = Append(beat, FifoHead(ar_fifo))
        \/ ~i.abort_done /\ snk_reads' = beat
    <3>1. snk_reads' = CASE i.abort_done -> <<>>
                  [] ~i.abort_done /\ ArSent(i) -> Append(beat, FifoHead(ar_fifo))
                  [] OTHER -> beat
      BY DEF Books
    <3> HIDE DEF beat
    <3> QED BY <3>1
  <2>3. ArSent(i) => ~isolated
    BY Handshakes
  <2>4. FifoHead(ar_fifo) \in Beats
    BY <1>0, Headed
  <2>5. "r" \in offered' => i.rvalid /\ ~SinkR(i) /\ ~i.abort_done
    BY DEF Books
  <2>6. i.rvalid /\ ~SinkR(i) => beat # <<>>
    BY Driven
  <2> HIDE DEF beat
  <2>7. snk_reads' \in Seq(Beats)
    <3>1. CASE snk_reads' = <<>>
      BY <3>1
    <3>2. CASE snk_reads' = Append(beat, FifoHead(ar_fifo))
      BY <3>2, <2>1, <2>4, SeqFacts
    <3>3. CASE snk_reads' = beat
      BY <3>3, <2>1
    <3> QED BY <2>2, <3>1, <3>2, <3>3
  <2>8. isolated => Len(snk_reads') <= Len(snk_reads)
    <3>1. CASE snk_reads' = <<>>
      BY <3>1, <1>0, SeqFacts
    <3>2. CASE snk_reads' = beat
      BY <3>2, <2>1
    <3> QED BY <2>2, <2>3, <3>1, <3>2
  <2>9. "r" \in offered' => snk_reads' # <<>>
    BY <2>1, <2>2, <2>4, <2>5, <2>6, SeqFacts
  <2> QED BY <2>7, <2>8, <2>9
<1>4. /\ snk_writes' \in Seq(0 .. MaxBeats)
      /\ isolated => Len(snk_writes') <= Len(snk_writes)
      /\ "b" \in offered' => snk_writes' # <<>>
  <2> DEFINE data == IF SinkW(i) THEN TakeData(snk_writes) ELSE snk_writes
             resp == IF SinkB(i) THEN Tail(data) ELSE data
  <2>1. data \in Seq(0 .. MaxBeats) /\ Len(data) = Len(snk_writes)
    BY <1>0, DataLeft, Handshakes
  <2>2. \/ i.abort_done /\ snk_writes' = <<>>
        \/ ~i.abort_done /\ AwSent(i) /\ snk_writes' = Append(resp, FifoHead(aw_fifo))
        \/ ~i.abort_done /\ snk_writes' = resp
    <3>1. snk_writes' = CASE i.abort_done -> <<>>
                  [] ~i.abort_done /\ AwSent(i) -> Append(resp, FifoHead(aw_fifo))
                  [] OTHER -> resp
      BY DEF Books
    <3> HIDE DEF resp
    <3> QED BY <3>1
  <2>3. AwSent(i) => ~isolated
    BY Handshakes
  <2>4. FifoHead(aw_fifo) \in 0 .. MaxBeats
    BY <1>0, <1>b, Headed
  <2>5. "b" \in offered' => i.bvalid /\ ~SinkB(i) /\ ~i.abort_done
    BY DEF Books
  <2>6. i.bvalid => snk_writes # <<>>
    BY Driven
  <2> HIDE DEF data
  <2>7. i.bvalid => data # <<>>
    BY <1>0, <2>1, <2>6, SeqFacts
  <2>8. /\ resp \in Seq(0 .. MaxBeats) /\ Len(resp) <= Len(data)
        /\ ~SinkB(i) => resp = data
    BY <2>1, <2>7, ResponseLeft, Handshakes
  <2> HIDE DEF resp
  <2>9. snk_writes' \in Seq(0 .. MaxBeats)
    <3>1. CASE snk_writes' = <<>>
      BY <3>1
    <3>2. CASE snk_writes' = Append(resp, FifoHead(aw_fifo))
      BY <3>2, <2>4, <2>8, SeqFacts
    <3>3. CASE snk_writes' = resp
      BY <3>3, <2>8
    <3> QED BY <2>2, <3>1, <3>2, <3>3
  <2>10. isolated => Len(snk_writes') <= Len(snk_writes)
    <3>1. CASE snk_writes' = <<>>
      BY <3>1, <1>0, SeqFacts
    <3>2. CASE snk_writes' = resp
      BY <3>2, <2>1, <2>8
    <3> QED BY <2>2, <2>3, <3>1, <3>2
  <2>11. "b" \in offered' => snk_writes' # <<>>
    BY <2>2, <2>4, <2>5, <2>7, <2>8, SeqFacts
  <2> QED BY <2>9, <2>10, <2>11
<1> QED BY <1>1, <1>2, <1>3, <1>4 DEF OfferInv

\* A FIFO that is popped and pushed within a cycle.
LEMMA FifoNext ==
  ASSUME NEW fifo \in Seq(Beats), NEW pop \in BOOLEAN, NEW left, NEW b \in {0} \cup Beats,
         Len(fifo) <= Depth, Issue(fifo, left, b)
  PROVE  /\ Append0(Pop(fifo, pop), b) \in Seq(Beats)
         /\ Len(Append0(Pop(fifo, pop), b)) <= Depth
<1> DEFINE rest == Pop(fifo, pop)
<1>1. rest \in Seq(Beats) /\ Len(rest) <= Len(fifo)
  BY Popped
<1> HIDE DEF rest
<1>2. /\ Append0(rest, b) \in Seq(Beats) /\ Len(Append0(rest, b)) <= Len(rest) + 1
      /\ b = 0 => Append0(rest, b) = rest
  BY <1>1, Pushed
<1>3. Len(rest) \in Nat /\ Len(fifo) \in Nat /\ Len(Append0(rest, b)) \in Nat
  BY <1>1, <1>2, SeqFacts
<1>4. b # 0 => Len(fifo) < Depth
  BY DEF Issue
<1>5. Len(Append0(rest, b)) <= Depth
  BY <1>1, <1>2, <1>3, <1>4, Constants
<1> QED BY <1>2, <1>5 DEF rest

LEMMA CycleTypes ==
  ASSUME TypeOK, OfferInv, NEW i \in Inputs, NEW r \in {0} \cup Beats, NEW w \in {0} \cup Beats,
         Cycle(i, r, w)
  PROVE  TypeOK' /\ OfferInv'
<1>1. ReadMachine(i) /\ WriteMachine(i) /\ Report(i) /\ Books(i, r, w)
  BY DEF Cycle
<1>2. /\ ar_fifo' \in Seq(Beats) /\ aw_fifo' \in Seq(Beats)
      /\ Len(ar_fifo') <= Depth /\ Len(aw_fifo') <= Depth
  <2>1. /\ ar_fifo \in Seq(Beats) /\ aw_fifo \in Seq(Beats)
        /\ Len(ar_fifo) <= Depth /\ Len(aw_fifo) <= Depth
    BY DEF TypeOK
  <2>2. /\ Issue(ar_fifo, to_read, r) /\ ar_fifo' = Append0(Pop(ar_fifo, ar_pop(i)), r)
        /\ Issue(aw_fifo, to_write, w) /\ aw_fifo' = Append0(Pop(aw_fifo, aw_pop(i)), w)
    BY DEF Cycle
  <2>3. ar_pop(i) \in BOOLEAN /\ aw_pop(i) \in BOOLEAN
    BY Handshakes
  <2> QED BY <2>1, <2>2, <2>3, FifoNext
<1>3. /\ isolated' \in BOOLEAN /\ hold' \in BOOLEAN /\ sel_write_q' \in BOOLEAN
      /\ read_latched' \in BOOLEAN /\ write_latched' \in BOOLEAN
  <2>0. sel_write_q \in BOOLEAN
    BY DEF TypeOK
  <2>1. timeout_block(i) \in BOOLEAN /\ timeout_sel_write(i) \in BOOLEAN
    BY <2>0 DEF timeout_block, timeout_sel_write
  <2> QED BY <1>1, <2>0, <2>1 DEF Report
<1>4. /\ to_read' \in Nat /\ to_write' \in Nat
  <2>1. to_read \in Nat /\ to_write \in Nat
    BY DEF TypeOK
  <2>2. (r # 0 => to_read > 0) /\ (w # 0 => to_write > 0)
    BY DEF Cycle, Issue
  <2>3. /\ to_read' = IF r = 0 THEN to_read ELSE to_read - 1
        /\ to_write' = IF w = 0 THEN to_write ELSE to_write - 1
    BY <1>1 DEF Books
  <2> QED BY <2>1, <2>2, <2>3
<1>5. offered' \subseteq {"r", "b", "w"}
  BY <1>1 DEF Books
<1>6. mishaps' \subseteq {"read beat", "write response", "write data", "phantom address"}
  BY DEF Cycle, Mishaps, TypeOK
<1>7. traffic' \in Traffic
  BY DEF Cycle, TypeOK
<1>8. /\ read_state' \in ReadStates
      /\ read_id' \in 0 .. MaxBeats /\ read_remaining' \in 0 .. MaxBeats
      /\ read_timeout' \in Nat /\ (read_timeout' = 0 \/ read_timeout' < Timeout)
  BY <1>1, ReadTypes
<1>9. /\ write_state' \in WriteStates /\ write_id' \in 0 .. MaxBeats
      /\ write_last_seen' \in BOOLEAN
      /\ write_timeout' \in Nat /\ (write_timeout' = 0 \/ write_timeout' < Timeout)
  BY <1>1, WriteTypes
<1>10. /\ src_reads' \in Seq(Beats) /\ snk_reads' \in Seq(Beats)
       /\ src_writes' \in Seq(0 .. MaxBeats) /\ snk_writes' \in Seq(0 .. MaxBeats)
       /\ OfferInv'
  BY <1>1, BookTypes
<1> QED BY <1>2, <1>3, <1>4, <1>5, <1>6, <1>7, <1>8, <1>9, <1>10, Zenon DEF TypeOK

LEMMA GuardTypeStep ==
  TypeOK /\ OfferInv /\ [Next]_vars => TypeOK' /\ OfferInv'
<1> SUFFICES ASSUME TypeOK, OfferInv, [Next]_vars PROVE TypeOK' /\ OfferInv'
  OBVIOUS
<1>1. ASSUME NEW i \in Inputs, NEW r \in {0} \cup Beats, NEW w \in {0} \cup Beats, Cycle(i, r, w)
      PROVE  TypeOK' /\ OfferInv'
  BY <1>1, CycleTypes
<1>2. CASE Flush
  <2>1. <<>> \in Seq(Beats) /\ <<>> \in Seq(0 .. MaxBeats) /\ Len(<<>>) <= Depth
    BY Constants
  <2>2. "Idle" \in ReadStates /\ "Idle" \in WriteStates
    BY DEF ReadStates, WriteStates
  <2> QED BY <1>2, <2>1, <2>2, Zenon DEF Flush, TypeOK, OfferInv
<1>3. CASE UNCHANGED vars
  BY <1>3, Zenon DEF vars, readVars, writeVars, reportVars, envVars, TypeOK, OfferInv
<1> QED BY <1>1, <1>2, <1>3 DEF Next

LEMMA GuardTypeInit == Init => TypeOK /\ OfferInv
<1> SUFFICES ASSUME Init PROVE TypeOK /\ OfferInv
  OBVIOUS
<1>1. <<>> \in Seq(Beats) /\ <<>> \in Seq(0 .. MaxBeats) /\ Len(<<>>) <= Depth
  BY Constants
<1>2. "Idle" \in ReadStates /\ "Idle" \in WriteStates /\ 0 \in 0 .. MaxBeats /\ 0 \in Nat
  BY Constants DEF ReadStates, WriteStates
<1>3. traffic \in Traffic /\ to_read \in Nat /\ to_write \in Nat
  BY GuardAssumption DEF Init
<1> QED BY <1>1, <1>2, <1>3, Zenon DEF Init, TypeOK, OfferInv

\* The guard's registers, FIFOs and timeout counters stay in range, whatever the
\* target and the fault mailbox do.
THEOREM GuardTypeCorrect == Spec => []TypeOK
<1>1. Init => TypeOK /\ OfferInv
  BY GuardTypeInit
<1>2. TypeOK /\ OfferInv /\ [Next]_vars => (TypeOK /\ OfferInv)'
  BY GuardTypeStep
<1> QED BY <1>1, <1>2, PTL DEF Spec

-----------------------------------------------------------------------------
(* A direction without traffic rests, and prompt reports are never held.   *)

LEMMA RestReads ==
  ASSUME TypeOK, OfferInv, RestInv, NEW i \in Inputs, NEW r \in {0} \cup Beats,
         NEW w \in {0} \cup Beats, Cycle(i, r, w), traffic[1] = 0
  PROVE  /\ to_read' = 0 /\ ar_fifo' = <<>> /\ read_state' = "Idle" /\ read_latched' = FALSE
         /\ src_reads' = <<>> /\ snk_reads' = <<>>
<1>1. /\ to_read = 0 /\ ar_fifo = <<>> /\ read_state = "Idle" /\ read_latched = FALSE
      /\ src_reads = <<>> /\ snk_reads = <<>>
  BY DEF RestInv
<1>2. r = 0
  <2>1. r # 0 => to_read > 0
    BY DEF Cycle, Issue
  <2> QED BY <1>1, <2>1
<1>3. ~SourceR(i) /\ ~SinkR(i) /\ ~ArSent(i) /\ ~read_timeout_pending(i)
  BY <1>1, Driven
     DEF SourceR, SinkR, ArSent, read_timeout_pending, read_timeout_raw, read_timeout_enable
<1>4. ReadMachine(i) /\ Books(i, r, w) /\ Report(i) /\ ar_fifo' = Append0(Pop(ar_fifo, ar_pop(i)), r)
  BY DEF Cycle
<1>5. read_state' = "Idle"
  BY <1>1, <1>4, ReadArms DEF ReadHold, ReadTo
<1>6. read_latched' = FALSE
  BY <1>3, <1>4 DEF Report
<1>7. to_read' = 0 /\ src_reads' = <<>> /\ snk_reads' = <<>>
  BY <1>1, <1>2, <1>3, <1>4 DEF Books, Append0
<1>8. ar_fifo' = <<>>
  BY <1>1, <1>2, <1>4 DEF Append0, Pop
<1> QED BY <1>5, <1>6, <1>7, <1>8

LEMMA RestWrites ==
  ASSUME TypeOK, OfferInv, RestInv, NEW i \in Inputs, NEW r \in {0} \cup Beats,
         NEW w \in {0} \cup Beats, Cycle(i, r, w), traffic[2] = 0
  PROVE  /\ to_write' = 0 /\ aw_fifo' = <<>> /\ write_state' = "Idle" /\ write_latched' = FALSE
         /\ src_writes' = <<>> /\ snk_writes' = <<>>
<1>1. /\ to_write = 0 /\ aw_fifo = <<>> /\ write_state = "Idle" /\ write_latched = FALSE
      /\ src_writes = <<>> /\ snk_writes = <<>>
  BY DEF RestInv
<1>2. w = 0
  <2>1. w # 0 => to_write > 0
    BY DEF Cycle, Issue
  <2> QED BY <1>1, <2>1
<1>3. ~SourceW(i) /\ ~SinkW(i) /\ ~SourceB(i) /\ ~SinkB(i) /\ ~AwSent(i) /\ ~write_timeout_pending(i)
  BY <1>1, Driven
     DEF SourceW, SinkW, Streaming, SourceB, SinkB, AwSent, write_timeout_pending, write_timeout_raw,
         write_timeout_enable
<1>4. WriteMachine(i) /\ Books(i, r, w) /\ Report(i) /\ aw_fifo' = Append0(Pop(aw_fifo, aw_pop(i)), w)
  BY DEF Cycle
<1>5. write_state' = "Idle"
  BY <1>1, <1>4, WriteArms DEF WriteHold, WriteTo
<1>6. write_latched' = FALSE
  BY <1>3, <1>4 DEF Report
<1>7. to_write' = 0 /\ src_writes' = <<>> /\ snk_writes' = <<>>
  BY <1>1, <1>2, <1>3, <1>4 DEF Books, Append0
<1>8. aw_fifo' = <<>>
  BY <1>1, <1>2, <1>4 DEF Append0, Pop
<1> QED BY <1>5, <1>6, <1>7, <1>8

\* A report taken at once: nothing blocks, and the direction that has the traffic
\* sees its timeout accepted in the cycle in which it is raised.
LEMMA Prompt ==
  ASSUME TypeOK, OfferInv, RestInv, PromptInv, NEW i \in Inputs, ~MailboxMayBeBusy
  PROVE  /\ hold = FALSE /\ i.report_ready /\ ~timeout_block(i)
         /\ traffic[2] = 0 => /\ read_latched = FALSE /\ ~write_timeout_pending(i)
                              /\ read_timeout_accept(i) <=> read_timeout_pending(i)
                              /\ ~write_timeout_accept(i)
         /\ traffic[1] = 0 => /\ write_latched = FALSE /\ ~read_timeout_pending(i)
                              /\ write_timeout_accept(i) <=> write_timeout_pending(i)
                              /\ ~read_timeout_accept(i)
<1>1. hold = FALSE /\ i.report_ready
  BY Driven DEF PromptInv
<1>2. ~timeout_block(i)
  BY <1>1 DEF timeout_block
<1>3. ASSUME traffic[2] = 0
      PROVE  /\ read_latched = FALSE /\ ~write_timeout_pending(i)
             /\ read_timeout_accept(i) <=> read_timeout_pending(i)
             /\ ~write_timeout_accept(i)
  <2>1. read_latched = FALSE /\ write_latched = FALSE /\ write_state = "Idle"
    BY <1>3 DEF PromptInv, RestInv
  <2>2. ~write_timeout_pending(i)
    BY <2>1 DEF write_timeout_pending, write_timeout_raw, write_timeout_enable
  <2> QED BY <1>1, <2>1, <2>2 DEF read_timeout_accept, write_timeout_accept, timeout_accept,
                                  timeout_valid, timeout_sel_write
<1>4. ASSUME traffic[1] = 0
      PROVE  /\ write_latched = FALSE /\ ~read_timeout_pending(i)
             /\ write_timeout_accept(i) <=> write_timeout_pending(i)
             /\ ~read_timeout_accept(i)
  <2>1. read_latched = FALSE /\ write_latched = FALSE /\ read_state = "Idle"
    BY <1>4 DEF PromptInv, RestInv
  <2>2. ~read_timeout_pending(i)
    BY <2>1 DEF read_timeout_pending, read_timeout_raw, read_timeout_enable
  <2> QED BY <1>1, <2>1, <2>2 DEF read_timeout_accept, write_timeout_accept, timeout_accept,
                                  timeout_valid, timeout_sel_write
<1> QED BY <1>1, <1>2, <1>3, <1>4

LEMMA RestStep ==
  ASSUME TypeOK, OfferInv, RestInv, PromptInv, NEW i \in Inputs, NEW r \in {0} \cup Beats,
         NEW w \in {0} \cup Beats, Cycle(i, r, w)
  PROVE  RestInv' /\ PromptInv'
<1>1. traffic' = traffic /\ Report(i)
  BY DEF Cycle
<1>2. RestInv'
  BY <1>1, RestReads, RestWrites DEF RestInv
<1>3. PromptInv'
  <2> SUFFICES ASSUME ~MailboxMayBeBusy
               PROVE  /\ hold' = FALSE
                      /\ traffic[2] = 0 => read_latched' = FALSE
                      /\ traffic[1] = 0 => write_latched' = FALSE
    BY <1>1 DEF PromptInv, MailboxMayBeBusy
  <2>1. /\ hold = FALSE /\ ~timeout_block(i)
        /\ traffic[2] = 0 => (read_timeout_accept(i) <=> read_timeout_pending(i))
        /\ traffic[1] = 0 => (write_timeout_accept(i) <=> write_timeout_pending(i))
    BY Prompt
  <2>2. hold' = FALSE
    BY <1>1, <2>1 DEF Report, timeout_block
  <2>3. traffic[2] = 0 => read_latched' = FALSE
    BY <1>1, <2>1, Zenon DEF Report
  <2>4. traffic[1] = 0 => write_latched' = FALSE
    BY <1>1, <2>1, Zenon DEF Report
  <2> QED BY <2>2, <2>3, <2>4
<1> QED BY <1>2, <1>3
-----------------------------------------------------------------------------
(* Reads alone.                                                            *)

\* Handing over a burst extends the books and the FIFO alike.
LEMMA ServesPushed ==
  ASSUME NEW S, NEW s \in Seq(S), Beats \subseteq S, NEW f, NEW n, Serves(s, f, n),
         NEW b \in {0} \cup Beats
  PROVE  Serves(Append0(s, b), Append0(f, b), n)
<1>1. s # <<>> /\ Head(s) = n /\ Tail(s) = f
  BY DEF Serves
<1>2. /\ Append0(s, b) # <<>> /\ Head(Append0(s, b)) = Head(s)
      /\ Tail(Append0(s, b)) = Append0(Tail(s), b)
  BY <1>1, Pushed
<1> QED BY <1>1, <1>2 DEF Serves

LEMMA ReadAloneStep ==
  ASSUME GuardInv, traffic[2] = 0, ~MailboxMayBeBusy, NEW i \in Inputs,
         NEW r \in {0} \cup Beats, NEW w \in {0} \cup Beats, Cycle(i, r, w)
  PROVE  ReadInv' /\ Mishaps(i) = {}
<1> USE DEF GuardInv
<1>0. /\ src_reads \in Seq(Beats) /\ snk_reads \in Seq(Beats) /\ ar_fifo \in Seq(Beats)
      /\ read_state \in ReadStates /\ read_remaining \in 0 .. MaxBeats /\ isolated \in BOOLEAN
  BY DEF TypeOK
<1>t. ~timeout_block(i) /\ (read_timeout_accept(i) <=> read_timeout_pending(i))
      /\ ~write_timeout_accept(i) /\ read_latched = FALSE
  BY Prompt
<1>w. write_state = "Idle" /\ src_writes = <<>> /\ snk_writes = <<>>
  BY DEF RestInv
<1>c. ReadMachine(i) /\ Report(i) /\ traffic' = traffic /\ Books(i, r, w)
  BY DEF Cycle
<1>f. ar_fifo' = Append0(Pop(ar_fifo, ar_pop(i)), r)
  BY DEF Cycle
<1>s. src_reads' = Append0(IF SourceR(i) THEN TakeBeat(src_reads) ELSE src_reads, r)
  BY <1>c DEF Books
<1>k. /\ i.abort_done => snk_reads' = <<>>
      /\ ~i.abort_done /\ ArSent(i) =>
           snk_reads' = Append(IF SinkR(i) THEN TakeBeat(snk_reads) ELSE snk_reads, FifoHead(ar_fifo))
      /\ ~i.abort_done /\ ~ArSent(i) =>
           snk_reads' = IF SinkR(i) THEN TakeBeat(snk_reads) ELSE snk_reads
  <2> DEFINE beat == IF SinkR(i) THEN TakeBeat(snk_reads) ELSE snk_reads
  <2>1. snk_reads' = CASE i.abort_done -> <<>>
                [] ~i.abort_done /\ ArSent(i) -> Append(beat, FifoHead(ar_fifo))
                [] OTHER -> beat
    BY <1>c DEF Books
  <2> HIDE DEF beat
  <2>2. /\ i.abort_done => snk_reads' = <<>>
        /\ ~i.abort_done /\ ArSent(i) => snk_reads' = Append(beat, FifoHead(ar_fifo))
        /\ ~i.abort_done /\ ~ArSent(i) => snk_reads' = beat
    BY <2>1
  <2> QED BY <2>2 DEF beat
<1>i. /\ isolated' = (isolated \/ (read_timeout_pending(i) /\ read_state = "Forward"))
  BY <1>c, <1>t, <1>w DEF Report
<1>m. ASSUME SourceR(i) => src_reads # <<>> /\ (SourceRlast(i) <=> Head(src_reads) = 1),
             ArSent(i) => ar_fifo # <<>>
      PROVE  Mishaps(i) = {}
  <2>1. ~SourceB(i) /\ ~SinkW(i) /\ ~AwSent(i)
    BY <1>w DEF SourceB, SinkW, Streaming, AwSent
  <2>2. SourceRlast(i) = (Head(src_reads) = 1) \/ ~SourceR(i)
    BY <1>m DEF SourceRlast, read_missing_last
  <2>3. ~(SourceR(i) /\ (src_reads = <<>> \/ SourceRlast(i) # (Head(src_reads) = 1)))
    BY <1>m, <2>2
  <2> QED BY <1>m, <2>1, <2>3 DEF Mishaps
<1>d. /\ i.rvalid => snk_reads # <<>>
      /\ i.rlast => snk_reads # <<>> /\ Head(snk_reads) = 1
      /\ i.abort_done => read_state = "Abort"
  BY <1>w, Driven
<1>inv. /\ read_state \in {"Idle", "Send"} => src_reads = ar_fifo /\ snk_reads = <<>>
        /\ read_state = "Send" => ar_fifo # <<>>
        /\ read_state \in {"Forward", "Abort", "Synthetic"} => Serves(src_reads, ar_fifo, read_remaining)
        /\ read_state = "Forward" => Serves(snk_reads, <<>>, read_remaining)
        /\ read_state = "Synthetic" => snk_reads = <<>>
        /\ read_state \in {"Send", "Forward"} => ~isolated
  BY DEF ReadInv
<1> HIDE DEF GuardInv
<1> DEFINE Goal ==
      /\ read_state' \in {"Idle", "Send"} => src_reads' = ar_fifo' /\ snk_reads' = <<>>
      /\ read_state' = "Send" => ar_fifo' # <<>>
      /\ read_state' \in {"Forward", "Abort", "Synthetic"} => Serves(src_reads', ar_fifo', read_remaining')
      /\ read_state' = "Forward" => Serves(snk_reads', <<>>, read_remaining')
      /\ read_state' = "Synthetic" => snk_reads' = <<>>
      /\ read_state' \in {"Send", "Forward"} => ~isolated'
<1>g. SUFFICES Goal /\ Mishaps(i) = {}
  BY <1>c DEF ReadInv, Serves
<1>p. /\ ar_pop(i) \in BOOLEAN
      /\ ar_pop(i) /\ ar_fifo # <<>> => ar_fifo' = Append0(Tail(ar_fifo), r)
      /\ ~ar_pop(i) \/ ar_fifo = <<>> => ar_fifo' = Append0(ar_fifo, r)
  BY <1>0, <1>f, Popped, Handshakes
<1>l. FifoHead(ar_fifo) \in Beats /\ (ar_fifo # <<>> => FifoHead(ar_fifo) = Head(ar_fifo))
  BY <1>0, Headed
\* The burst at the head of the FIFO becomes the one that is served.
<1>v. ar_fifo # <<>> => Serves(ar_fifo, Tail(ar_fifo), Head(ar_fifo))
  BY DEF Serves
<1>x. ASSUME NEW f, Serves(src_reads, f, read_remaining), ~SourceR(i)
      PROVE  Serves(src_reads', Append0(f, r), read_remaining)
  BY <1>0, <1>s, <1>x, ServesPushed
<1>1. CASE read_state = "Idle"
  <2>1. ~SourceR(i) /\ ~SinkR(i) /\ ~ArSent(i) /\ ~i.abort_done
    BY <1>1, <1>d, <1>inv DEF SourceR, SinkR, ArSent
  <2>2. src_reads' = Append0(ar_fifo, r) /\ snk_reads' = <<>> /\ Mishaps(i) = {}
    BY <1>1, <2>1, <1>s, <1>k, <1>m, <1>inv
  <2>3. ar_pop(i) <=> isolated /\ ar_fifo # <<>>
    BY <1>1 DEF ar_pop
  <2>4. \/ ar_fifo = <<>> /\ ReadHold
        \/ ar_fifo # <<>> /\ isolated /\ ReadLoad("Synthetic")
        \/ ar_fifo # <<>> /\ ~isolated /\ ReadTo("Send", read_id, read_remaining)
    BY <1>1, <1>c, <1>t, ReadArms
  <2>5. CASE ar_fifo = <<>> /\ ReadHold
    BY <1>1, <2>2, <2>3, <2>5, <1>p DEF ReadHold, ReadTo
  <2>6. CASE ar_fifo # <<>> /\ isolated /\ ReadLoad("Synthetic")
    <3>1. Serves(Append0(ar_fifo, r), Append0(Tail(ar_fifo), r), Head(ar_fifo))
      BY <2>6, <1>0, <1>v, ServesPushed
    <3>2. ar_fifo' = Append0(Tail(ar_fifo), r) /\ read_state' = "Synthetic" /\ read_remaining' = Head(ar_fifo)
      BY <2>3, <2>6, <1>p, <1>l DEF ReadLoad, ReadTo
    <3> QED BY <2>2, <3>1, <3>2
  <2>7. CASE ar_fifo # <<>> /\ ~isolated /\ ReadTo("Send", read_id, read_remaining)
    <3>1. ar_fifo' = Append0(ar_fifo, r) /\ ar_fifo' # <<>> /\ read_state' = "Send"
      BY <2>3, <2>7, <1>0, <1>p, Pushed DEF ReadTo
    <3> QED BY <1>1, <1>i, <2>2, <2>7, <3>1
  <2> QED BY <2>4, <2>5, <2>6, <2>7
<1>2. CASE read_state = "Send"
  <2>0. ar_fifo # <<>> /\ src_reads = ar_fifo /\ snk_reads = <<>> /\ ~isolated
    BY <1>2, <1>inv
  <2>1. ~SourceR(i) /\ ~SinkR(i) /\ ~i.abort_done
    BY <1>2, <2>0, <1>d DEF SourceR, SinkR
  <2>2. src_reads' = Append0(ar_fifo, r) /\ Mishaps(i) = {}
    BY <2>0, <2>1, <1>s, <1>m
  <2>3. ar_pop(i) <=> ArSent(i) \/ read_timeout_pending(i)
    BY <1>2, <2>0, <1>t DEF ar_pop
  <2>4. ArSent(i) => ~read_timeout_pending(i)
    BY DEF ArSent
  <2>5. \/ read_timeout_pending(i) /\ ReadLoad("Synthetic")
        \/ ArSent(i) /\ ReadLoad("Forward")
        \/ ~ArSent(i) /\ ~read_timeout_pending(i) /\ ReadHold
    BY <1>2, <2>0, <1>c, <1>t, ReadArms, ReadProgressArms
  <2>6. Serves(Append0(ar_fifo, r), Append0(Tail(ar_fifo), r), Head(ar_fifo))
    BY <2>0, <1>0, <1>v, ServesPushed
  <2>7. CASE read_timeout_pending(i) /\ ReadLoad("Synthetic")
    <3>1. ar_fifo' = Append0(Tail(ar_fifo), r) /\ read_state' = "Synthetic" /\ read_remaining' = Head(ar_fifo)
      BY <2>0, <2>3, <2>7, <1>p, <1>l DEF ReadLoad, ReadTo
    <3>2. snk_reads' = <<>>
      BY <2>0, <2>1, <2>4, <2>7, <1>k
    <3> QED BY <2>2, <2>6, <3>1, <3>2
  <2>8. CASE ArSent(i) /\ ReadLoad("Forward")
    <3>1. ar_fifo' = Append0(Tail(ar_fifo), r) /\ read_state' = "Forward" /\ read_remaining' = Head(ar_fifo)
      BY <2>0, <2>3, <2>8, <1>p, <1>l DEF ReadLoad, ReadTo
    <3>2. snk_reads' = Append(<<>>, Head(ar_fifo))
      BY <2>0, <2>1, <2>8, <1>k, <1>l
    <3>3. Serves(snk_reads', <<>>, Head(ar_fifo))
      BY <3>2, <2>0, <1>l DEF Serves
    <3>4. ~isolated'
      BY <1>2, <1>i, <2>0
    <3> QED BY <2>2, <2>6, <3>1, <3>3, <3>4
  <2>9. CASE ~ArSent(i) /\ ~read_timeout_pending(i) /\ ReadHold
    <3>1. ar_fifo' = Append0(ar_fifo, r) /\ ar_fifo' # <<>> /\ read_state' = "Send"
      BY <1>2, <2>0, <2>3, <2>9, <1>0, <1>p, Pushed DEF ReadHold, ReadTo
    <3>2. snk_reads' = <<>>
      BY <2>0, <2>1, <2>9, <1>k
    <3> QED BY <1>2, <1>i, <2>0, <2>2, <3>1, <3>2
  <2> QED BY <2>5, <2>7, <2>8, <2>9
<1>3. CASE read_state = "Forward"
  <2>0. Serves(src_reads, ar_fifo, read_remaining) /\ Serves(snk_reads, <<>>, read_remaining) /\ ~isolated
    BY <1>3, <1>inv
  <2>1. ~ArSent(i) /\ ~ar_pop(i) /\ ~i.abort_done
    BY <1>3, <1>d DEF ArSent, ar_pop
  <2>2. read_timeout_pending(i) => ~i.rvalid
    BY <1>3, <1>t DEF read_timeout_pending, read_timeout_raw, read_timeout_enable
  <2>3. /\ SourceR(i) <=> SinkR(i)
        /\ SinkR(i) => (SourceRlast(i) <=> Head(snk_reads) = 1)
        /\ i.rlast => Head(snk_reads) = 1
        /\ SinkR(i) => ~read_timeout_pending(i)
    BY <1>3, <1>d, <2>0, <2>2 DEF SourceR, SinkR, SourceRlast, read_missing_last, Serves
  <2>4. /\ src_reads # <<>> /\ snk_reads # <<>>
        /\ Head(src_reads) = read_remaining /\ Head(snk_reads) = read_remaining
        /\ Tail(src_reads) = ar_fifo /\ Tail(snk_reads) = <<>>
    BY <2>0 DEF Serves
  <2>5. Mishaps(i) = {}
    BY <2>1, <2>3, <2>4, <1>m
  <2>6. ar_fifo' = Append0(ar_fifo, r)
    BY <2>1, <1>p
  <2>7. \/ ~SinkR(i) /\ read_timeout_pending(i) /\ ReadTo("Abort", read_id, read_remaining)
        \/ /\ SinkR(i)
           /\ ReadTo(IF i.rlast \/ read_remaining = 1 THEN "Idle" ELSE "Forward", read_id,
                     IF read_remaining = 0 THEN 0 ELSE read_remaining - 1)
        \/ ~SinkR(i) /\ ~read_timeout_pending(i) /\ ReadHold
    BY <1>3, <2>0, <2>3, <1>c, <1>t, ReadArms, ReadProgressArms
  <2>8. CASE ~SinkR(i) /\ (\/ read_timeout_pending(i) /\ ReadTo("Abort", read_id, read_remaining)
                           \/ ~read_timeout_pending(i) /\ ReadHold)
    <3>1. Serves(src_reads', Append0(ar_fifo, r), read_remaining)
      BY <2>0, <2>3, <2>8, <1>x
    <3>2. snk_reads' = snk_reads
      BY <2>1, <2>8, <1>k
    <3>3. /\ read_remaining' = read_remaining
          /\ read_state' = "Abort" \/ (read_state' = "Forward" /\ ~isolated')
      BY <1>3, <2>0, <2>8, <1>i DEF ReadHold, ReadTo
    <3> QED BY <2>0, <2>5, <2>6, <3>1, <3>2, <3>3
  <2>9. CASE SinkR(i) /\ read_remaining = 1
    <3>1. src_reads' = Append0(ar_fifo, r) /\ snk_reads' = <<>>
      BY <2>1, <2>3, <2>4, <2>9, <1>0, <1>s, <1>k, BeatTaken
    <3>2. read_state' = "Idle"
      BY <2>7, <2>9 DEF ReadTo
    <3> QED BY <2>5, <2>6, <3>1, <3>2
  <2>10. CASE SinkR(i) /\ read_remaining # 1
    <3>1. read_state' = "Forward" /\ read_remaining' = read_remaining - 1
      <4>1. read_remaining # 0
        BY <2>4, <1>0, Constants
      <4> QED BY <2>3, <2>4, <2>7, <2>10, <4>1 DEF ReadTo
    <3>2. Serves(TakeBeat(src_reads), ar_fifo, read_remaining - 1) /\ TakeBeat(src_reads) \in Seq(Beats)
      BY <2>4, <2>10, <1>0, BeatTaken DEF Serves
    <3>3. Serves(TakeBeat(snk_reads), <<>>, read_remaining - 1)
      BY <2>4, <2>10, <1>0, BeatTaken DEF Serves
    <3>4. Serves(src_reads', ar_fifo', read_remaining - 1)
      BY <2>3, <2>6, <2>10, <3>2, <1>s, ServesPushed
    <3>5. snk_reads' = TakeBeat(snk_reads)
      BY <2>1, <2>10, <1>k
    <3>6. ~isolated'
      BY <2>0, <2>3, <2>10, <1>i
    <3> QED BY <2>5, <3>1, <3>3, <3>4, <3>5, <3>6
  <2> QED BY <2>7, <2>8, <2>9, <2>10
<1>4. CASE read_state = "Abort"
  <2>0. Serves(src_reads, ar_fifo, read_remaining)
    BY <1>4, <1>inv
  <2>1. ~SourceR(i) /\ ~ArSent(i) /\ ~ar_pop(i) /\ ~read_timeout_pending(i)
    BY <1>4, <1>t DEF SourceR, ArSent, ar_pop, read_timeout_pending, read_timeout_raw, read_timeout_enable
  <2>2. ar_fifo' = Append0(ar_fifo, r) /\ Mishaps(i) = {} /\ Serves(src_reads', Append0(ar_fifo, r), read_remaining)
    BY <2>0, <2>1, <1>p, <1>m, <1>x
  <2>3. \/ i.abort_done /\ ReadTo("Synthetic", read_id, read_remaining)
        \/ ReadHold
    BY <1>4, <2>1, <1>c, <1>t, ReadArms, ReadProgressArms
  <2>4. /\ read_remaining' = read_remaining
        /\ read_state' = "Abort" \/ (read_state' = "Synthetic" /\ snk_reads' = <<>>)
    BY <1>4, <2>3, <1>k DEF ReadHold, ReadTo
  <2> QED BY <2>2, <2>4
<1>5. CASE read_state = "Synthetic"
  <2>0. Serves(src_reads, ar_fifo, read_remaining) /\ snk_reads = <<>>
    BY <1>5, <1>inv
  <2>1. ~SinkR(i) /\ ~ArSent(i) /\ ~ar_pop(i) /\ ~read_timeout_pending(i) /\ ~i.abort_done
    BY <1>5, <2>0, <1>d, <1>t
       DEF SinkR, ArSent, ar_pop, read_timeout_pending, read_timeout_raw, read_timeout_enable
  <2>2. ar_fifo' = Append0(ar_fifo, r) /\ snk_reads' = <<>>
    BY <2>0, <2>1, <1>p, <1>k
  <2>3. src_reads # <<>> /\ Head(src_reads) = read_remaining /\ Tail(src_reads) = ar_fifo
    BY <2>0 DEF Serves
  <2>4. Mishaps(i) = {}
    BY <1>5, <2>1, <2>3, <1>m DEF SourceRlast
  <2>5. \/ ~SourceR(i) /\ ReadHold
        \/ /\ SourceR(i)
           /\ ReadTo(IF read_remaining = 1 THEN "Idle" ELSE "Synthetic", read_id,
                     IF read_remaining = 0 THEN 0 ELSE read_remaining - 1)
    BY <1>5, <2>1, <1>c, <1>t, ReadArms, ReadProgressArms
  <2>6. CASE ~SourceR(i) /\ ReadHold
    <3>1. Serves(src_reads', Append0(ar_fifo, r), read_remaining)
      BY <2>0, <2>6, <1>x
    <3>2. read_state' = "Synthetic" /\ read_remaining' = read_remaining
      BY <1>5, <2>6 DEF ReadHold, ReadTo
    <3> QED BY <2>2, <2>4, <3>1, <3>2
  <2>7. CASE SourceR(i) /\ read_remaining = 1
    <3>1. src_reads' = Append0(ar_fifo, r)
      BY <2>3, <2>7, <1>0, <1>s, BeatTaken
    <3>2. read_state' = "Idle"
      BY <2>5, <2>7 DEF ReadTo
    <3> QED BY <2>2, <2>4, <3>1, <3>2
  <2>8. CASE SourceR(i) /\ read_remaining # 1
    <3>1. read_state' = "Synthetic" /\ read_remaining' = read_remaining - 1
      <4>1. read_remaining # 0
        BY <2>3, <1>0, Constants
      <4> QED BY <2>5, <2>8, <4>1 DEF ReadTo
    <3>2. Serves(TakeBeat(src_reads), ar_fifo, read_remaining - 1) /\ TakeBeat(src_reads) \in Seq(Beats)
      BY <2>3, <2>8, <1>0, BeatTaken DEF Serves
    <3>3. Serves(src_reads', ar_fifo', read_remaining - 1)
      BY <2>2, <2>8, <3>2, <1>s, ServesPushed
    <3> QED BY <2>2, <2>4, <3>1, <3>3
  <2> QED BY <2>5, <2>6, <2>7, <2>8
<1> QED BY <1>0, <1>1, <1>2, <1>3, <1>4, <1>5 DEF ReadStates
-----------------------------------------------------------------------------
(* Writes alone.                                                           *)

\* The data of the burst at the head, while it lacks some.
LEMMA HeadData ==
  ASSUME NEW s \in Seq(0 .. MaxBeats), NEW f, NEW n, Serves(s, f, n)
  PROVE  /\ n \in 0 .. MaxBeats /\ n \in Nat
         /\ s # <<>> /\ Head(s) = n /\ Tail(s) = f
         /\ n > 0 => /\ NextData(s) = 1 /\ s[1] = n /\ n - 1 \in Nat
                     /\ TakeData(s) \in Seq(0 .. MaxBeats) /\ Serves(TakeData(s), f, n - 1)
<1>1. s # <<>> /\ Head(s) = n /\ Tail(s) = f
  BY DEF Serves
<1>2. n \in 0 .. MaxBeats /\ n \in Nat /\ s[1] = n
  BY <1>1, Constants
<1>3. n > 0 => NextData(s) = 1
  BY <1>1, DataNext
<1>4. n > 0 => TakeData(s) \in Seq(0 .. MaxBeats) /\ Serves(TakeData(s), f, n - 1)
  BY <1>1, DataTaken DEF Serves
<1> QED BY <1>1, <1>2, <1>3, <1>4

\* The books of the writes, whichever neighbours took part.
LEMMA WriteBooks ==
  ASSUME NEW i, NEW r, NEW w, Books(i, r, w)
  PROVE  /\ ~SourceW(i) /\ ~SourceB(i) => src_writes' = Append0(src_writes, w)
         /\ SourceW(i) /\ ~SourceB(i) => src_writes' = Append0(TakeData(src_writes), w)
         /\ ~SourceW(i) /\ SourceB(i) /\ src_writes # <<>> => src_writes' = Append0(Tail(src_writes), w)
         /\ i.abort_done => snk_writes' = <<>>
         /\ ~i.abort_done /\ ~SinkW(i) /\ ~SinkB(i) /\ AwSent(i) =>
              snk_writes' = Append(snk_writes, FifoHead(aw_fifo))
         /\ ~i.abort_done /\ ~SinkW(i) /\ ~SinkB(i) /\ ~AwSent(i) => snk_writes' = snk_writes
         /\ ~i.abort_done /\ SinkW(i) /\ ~SinkB(i) /\ ~AwSent(i) => snk_writes' = TakeData(snk_writes)
         /\ ~i.abort_done /\ ~SinkW(i) /\ SinkB(i) /\ ~AwSent(i) => snk_writes' = Tail(snk_writes)
<1>s. /\ ~SourceW(i) /\ ~SourceB(i) => src_writes' = Append0(src_writes, w)
      /\ SourceW(i) /\ ~SourceB(i) => src_writes' = Append0(TakeData(src_writes), w)
      /\ ~SourceW(i) /\ SourceB(i) /\ src_writes # <<>> => src_writes' = Append0(Tail(src_writes), w)
  <2> DEFINE data == IF SourceW(i) THEN TakeData(src_writes) ELSE src_writes
  <2>1. src_writes' = Append0(IF SourceB(i) /\ data # <<>> THEN Tail(data) ELSE data, w)
    BY DEF Books
  <2>2. (SourceW(i) => data = TakeData(src_writes)) /\ (~SourceW(i) => data = src_writes)
    OBVIOUS
  <2> HIDE DEF data
  <2>3. /\ ~SourceB(i) => src_writes' = Append0(data, w)
        /\ SourceB(i) /\ data # <<>> => src_writes' = Append0(Tail(data), w)
    BY <2>1
  <2> QED BY <2>2, <2>3
<1>k. /\ i.abort_done => snk_writes' = <<>>
      /\ ~i.abort_done /\ ~SinkW(i) /\ ~SinkB(i) /\ AwSent(i) =>
           snk_writes' = Append(snk_writes, FifoHead(aw_fifo))
      /\ ~i.abort_done /\ ~SinkW(i) /\ ~SinkB(i) /\ ~AwSent(i) => snk_writes' = snk_writes
      /\ ~i.abort_done /\ SinkW(i) /\ ~SinkB(i) /\ ~AwSent(i) => snk_writes' = TakeData(snk_writes)
      /\ ~i.abort_done /\ ~SinkW(i) /\ SinkB(i) /\ ~AwSent(i) => snk_writes' = Tail(snk_writes)
  <2> DEFINE data == IF SinkW(i) THEN TakeData(snk_writes) ELSE snk_writes
             resp == IF SinkB(i) THEN Tail(data) ELSE data
  <2>1. snk_writes' = CASE i.abort_done -> <<>>
                [] ~i.abort_done /\ AwSent(i) -> Append(resp, FifoHead(aw_fifo))
                [] OTHER -> resp
    BY DEF Books
  <2>2. (SinkW(i) => data = TakeData(snk_writes)) /\ (~SinkW(i) => data = snk_writes)
    OBVIOUS
  <2> HIDE DEF data
  <2>3. (SinkB(i) => resp = Tail(data)) /\ (~SinkB(i) => resp = data)
    OBVIOUS
  <2> HIDE DEF resp
  <2>4. /\ i.abort_done => snk_writes' = <<>>
        /\ ~i.abort_done /\ AwSent(i) => snk_writes' = Append(resp, FifoHead(aw_fifo))
        /\ ~i.abort_done /\ ~AwSent(i) => snk_writes' = resp
    BY <2>1
  <2> QED BY <2>2, <2>3, <2>4
<1> QED BY <1>s, <1>k

LEMMA WriteAloneStep ==
  ASSUME GuardInv, traffic[1] = 0, ~MailboxMayBeBusy, NEW i \in Inputs,
         NEW r \in {0} \cup Beats, NEW w \in {0} \cup Beats, Cycle(i, r, w)
  PROVE  WriteInv' /\ Mishaps(i) = {}
<1> USE DEF GuardInv
<1>0. /\ src_writes \in Seq(0 .. MaxBeats) /\ snk_writes \in Seq(0 .. MaxBeats)
      /\ aw_fifo \in Seq(Beats) /\ aw_fifo \in Seq(0 .. MaxBeats)
      /\ write_state \in WriteStates /\ isolated \in BOOLEAN /\ write_last_seen \in BOOLEAN
      /\ Beats \subseteq 0 .. MaxBeats
  <2>1. aw_fifo \in Seq(Beats) /\ Beats \subseteq 0 .. MaxBeats
    BY Constants DEF TypeOK
  <2>2. aw_fifo \in Seq(0 .. MaxBeats)
    BY <2>1, SeqMonotonic
  <2> QED BY <2>1, <2>2, Zenon DEF TypeOK
<1>t. ~timeout_block(i) /\ (write_timeout_accept(i) <=> write_timeout_pending(i))
      /\ ~read_timeout_accept(i) /\ write_latched = FALSE
  BY Prompt
<1>r. read_state = "Idle" /\ src_reads = <<>> /\ snk_reads = <<>>
  BY DEF RestInv
<1>c. WriteMachine(i) /\ Report(i) /\ traffic' = traffic /\ Books(i, r, w)
  BY DEF Cycle
<1>f. aw_fifo' = Append0(Pop(aw_fifo, aw_pop(i)), w)
  BY DEF Cycle
<1>s. /\ ~SourceW(i) /\ ~SourceB(i) => src_writes' = Append0(src_writes, w)
      /\ SourceW(i) /\ ~SourceB(i) => src_writes' = Append0(TakeData(src_writes), w)
      /\ ~SourceW(i) /\ SourceB(i) /\ src_writes # <<>> => src_writes' = Append0(Tail(src_writes), w)
  BY <1>c, WriteBooks
<1>k. /\ i.abort_done => snk_writes' = <<>>
      /\ ~i.abort_done /\ ~SinkW(i) /\ ~SinkB(i) /\ AwSent(i) =>
           snk_writes' = Append(snk_writes, FifoHead(aw_fifo))
      /\ ~i.abort_done /\ ~SinkW(i) /\ ~SinkB(i) /\ ~AwSent(i) => snk_writes' = snk_writes
      /\ ~i.abort_done /\ SinkW(i) /\ ~SinkB(i) /\ ~AwSent(i) => snk_writes' = TakeData(snk_writes)
      /\ ~i.abort_done /\ ~SinkW(i) /\ SinkB(i) /\ ~AwSent(i) => snk_writes' = Tail(snk_writes)
  BY <1>c, WriteBooks
<1>i. isolated' = (isolated \/ (write_timeout_pending(i) /\ write_state \in {"Stream", "Response"}))
  BY <1>c, <1>t, <1>r DEF Report
<1>m. ASSUME SourceB(i) => src_writes # <<>> /\ Head(src_writes) = 0,
             SinkW(i) => NextData(snk_writes) # 0 /\ (wlast <=> snk_writes[NextData(snk_writes)] = 1),
             AwSent(i) => aw_fifo # <<>>
      PROVE  Mishaps(i) = {}
  <2>1. ~SourceR(i) /\ ~ArSent(i)
    BY <1>r DEF SourceR, ArSent
  <2>2. wlast = (snk_writes[NextData(snk_writes)] = 1) \/ ~SinkW(i)
    BY <1>m DEF wlast
  <2>3. ~(SinkW(i) /\ (NextData(snk_writes) = 0 \/ wlast # (snk_writes[NextData(snk_writes)] = 1)))
    BY <1>m, <2>2
  <2> QED BY <1>m, <2>1, <2>3 DEF Mishaps
<1>d. /\ i.bvalid => snk_writes # <<>>
      /\ i.abort_done => write_state = "Abort"
  BY <1>r, Driven
<1> DEFINE n == Head(src_writes)
<1>inv. /\ write_state \in {"Idle", "Send"} => src_writes = aw_fifo /\ snk_writes = <<>>
        /\ write_state = "Send" => aw_fifo # <<>> /\ ~write_last_seen
        /\ write_state \notin {"Idle", "Send"} => Serves(src_writes, aw_fifo, n)
        /\ write_state \in {"Stream", "Response"} => Serves(snk_writes, <<>>, n)
        /\ write_state \in {"Drop", "Synthetic"} => snk_writes = <<>>
        /\ write_state \in {"Stream", "Drop"} => n > 0 /\ ~write_last_seen
        /\ write_state \in {"Response", "Synthetic"} => n = 0 /\ write_last_seen
        /\ write_state = "Abort" => (write_last_seen <=> n = 0)
        /\ write_state \in {"Send", "Stream", "Response"} => ~isolated
  BY DEF WriteInv, Remaining
<1> HIDE DEF GuardInv, n
<1> DEFINE Goal(m) ==
      /\ write_state' \in {"Idle", "Send"} => src_writes' = aw_fifo' /\ snk_writes' = <<>>
      /\ write_state' = "Send" => aw_fifo' # <<>> /\ ~write_last_seen'
      /\ write_state' \notin {"Idle", "Send"} => Serves(src_writes', aw_fifo', m)
      /\ write_state' \in {"Stream", "Response"} => Serves(snk_writes', <<>>, m)
      /\ write_state' \in {"Drop", "Synthetic"} => snk_writes' = <<>>
      /\ write_state' \in {"Stream", "Drop"} => m > 0 /\ ~write_last_seen'
      /\ write_state' \in {"Response", "Synthetic"} => m = 0 /\ write_last_seen'
      /\ write_state' = "Abort" => (write_last_seen' <=> m = 0)
      /\ write_state' \in {"Send", "Stream", "Response"} => ~isolated'
<1>g. SUFFICES Mishaps(i) = {} /\ \E m : Goal(m)
  <2>1. PICK m : Goal(m)
    BY <1>g
  <2>2. write_state' \notin {"Idle", "Send"} => m = Remaining'
    BY <2>1 DEF Remaining, Serves
  <2>3. WriteInv'
    BY <1>c, <2>1, <2>2 DEF WriteInv, Remaining, Serves
  <2> QED BY <1>g, <2>3
<1>p. /\ aw_pop(i) /\ aw_fifo # <<>> => aw_fifo' = Append0(Tail(aw_fifo), w)
      /\ ~aw_pop(i) \/ aw_fifo = <<>> => aw_fifo' = Append0(aw_fifo, w)
  BY <1>0, <1>f, Popped, Handshakes
<1>l. /\ FifoHead(aw_fifo) \in Beats
      /\ aw_fifo # <<>> => FifoHead(aw_fifo) = Head(aw_fifo) /\ Head(aw_fifo) \in Nat /\ Head(aw_fifo) > 0
  BY <1>0, Headed, Constants
<1>v. aw_fifo # <<>> => Serves(Append0(aw_fifo, w), Append0(Tail(aw_fifo), w), Head(aw_fifo))
  <2>1. aw_fifo # <<>> => Serves(aw_fifo, Tail(aw_fifo), Head(aw_fifo))
    BY DEF Serves
  <2> QED BY <1>0, <2>1, ServesPushed
<1>x. ASSUME Serves(src_writes, aw_fifo, n), ~SourceW(i), ~SourceB(i)
      PROVE  Serves(src_writes', Append0(aw_fifo, w), n)
  BY <1>0, <1>s, <1>x, ServesPushed
<1>1. CASE write_state = "Idle"
  <2>1. ~SourceW(i) /\ ~SourceB(i) /\ ~SinkW(i) /\ ~SinkB(i) /\ ~AwSent(i) /\ ~i.abort_done
    BY <1>1, <1>d, <1>inv DEF SourceW, SourceB, SinkW, Streaming, SinkB, AwSent
  <2>2. src_writes' = Append0(aw_fifo, w) /\ snk_writes' = <<>> /\ Mishaps(i) = {}
    BY <1>1, <2>1, <1>s, <1>k, <1>m, <1>inv
  <2>3. aw_pop(i) <=> isolated /\ aw_fifo # <<>>
    BY <1>1 DEF aw_pop
  <2>4. \/ aw_fifo = <<>> /\ WriteTo("Idle", FALSE)
        \/ aw_fifo # <<>> /\ isolated /\ WriteLoad("Drop")
        \/ aw_fifo # <<>> /\ ~isolated /\ WriteTo("Send", FALSE)
    BY <1>1, <1>c, <1>t, WriteArms
  <2>5. CASE aw_fifo = <<>> /\ WriteTo("Idle", FALSE)
    <3>1. Goal(0)
      BY <1>1, <2>2, <2>3, <2>5, <1>p DEF WriteTo
    <3> QED BY <2>2, <3>1
  <2>6. CASE aw_fifo # <<>> /\ isolated /\ WriteLoad("Drop")
    <3>1. aw_fifo' = Append0(Tail(aw_fifo), w) /\ write_state' = "Drop" /\ ~write_last_seen'
      BY <1>1, <2>3, <2>6, <1>p DEF WriteLoad
    <3>2. Goal(Head(aw_fifo))
      BY <2>2, <2>6, <3>1, <1>v, <1>l
    <3> QED BY <2>2, <3>2
  <2>7. CASE aw_fifo # <<>> /\ ~isolated /\ WriteTo("Send", FALSE)
    <3>1. aw_fifo' = Append0(aw_fifo, w) /\ aw_fifo' # <<>> /\ write_state' = "Send" /\ ~write_last_seen'
      BY <2>3, <2>7, <1>0, <1>p, Pushed DEF WriteTo
    <3>2. Goal(0)
      BY <1>1, <1>i, <2>2, <2>7, <3>1
    <3> QED BY <2>2, <3>2
  <2> QED BY <2>4, <2>5, <2>6, <2>7
<1>2. CASE write_state = "Send"
  <2>0. aw_fifo # <<>> /\ src_writes = aw_fifo /\ snk_writes = <<>> /\ ~isolated /\ ~write_last_seen
    BY <1>2, <1>inv
  <2>1. ~SourceW(i) /\ ~SourceB(i) /\ ~SinkW(i) /\ ~SinkB(i) /\ ~i.abort_done
    BY <1>2, <2>0, <1>d DEF SourceW, SourceB, SinkW, Streaming, SinkB
  <2>2. src_writes' = Append0(aw_fifo, w) /\ Mishaps(i) = {}
    BY <2>0, <2>1, <1>s, <1>m
  <2>3. aw_pop(i) <=> AwSent(i) \/ write_timeout_pending(i)
    BY <1>2, <2>0, <1>t DEF aw_pop
  <2>4. AwSent(i) => ~write_timeout_pending(i)
    BY DEF AwSent
  <2>5. \/ write_timeout_pending(i) /\ WriteLoad("Drop")
        \/ AwSent(i) /\ WriteLoad("Stream")
        \/ ~AwSent(i) /\ ~write_timeout_pending(i) /\ WriteHold
    BY <1>2, <2>0, <1>c, <1>t, WriteArms, WriteProgressArms
  <2>7. CASE write_timeout_pending(i) /\ WriteLoad("Drop")
    <3>1. aw_fifo' = Append0(Tail(aw_fifo), w) /\ write_state' = "Drop" /\ ~write_last_seen'
      BY <2>0, <2>3, <2>7, <1>p DEF WriteLoad
    <3>2. snk_writes' = <<>>
      BY <2>0, <2>1, <2>4, <2>7, <1>k
    <3>3. Goal(Head(aw_fifo))
      BY <2>0, <2>2, <3>1, <3>2, <1>v, <1>l
    <3> QED BY <2>2, <3>3
  <2>8. CASE AwSent(i) /\ WriteLoad("Stream")
    <3>1. aw_fifo' = Append0(Tail(aw_fifo), w) /\ write_state' = "Stream" /\ ~write_last_seen'
      BY <2>0, <2>3, <2>8, <1>p DEF WriteLoad
    <3>2. snk_writes' = Append(<<>>, Head(aw_fifo))
      BY <2>0, <2>1, <2>8, <1>k, <1>l
    <3>3. Serves(snk_writes', <<>>, Head(aw_fifo))
      BY <3>2, <2>0, <1>l DEF Serves
    <3>4. ~isolated'
      BY <1>2, <1>i, <2>0
    <3>5. Goal(Head(aw_fifo))
      BY <2>0, <2>2, <3>1, <3>3, <3>4, <1>v, <1>l
    <3> QED BY <2>2, <3>5
  <2>9. CASE ~AwSent(i) /\ ~write_timeout_pending(i) /\ WriteHold
    <3>1. aw_fifo' = Append0(aw_fifo, w) /\ aw_fifo' # <<>> /\ write_state' = "Send" /\ ~write_last_seen'
      BY <1>2, <2>0, <2>3, <2>9, <1>0, <1>p, Pushed DEF WriteHold, WriteTo
    <3>2. snk_writes' = <<>>
      BY <2>0, <2>1, <2>9, <1>k
    <3>3. Goal(0)
      BY <1>2, <1>i, <2>0, <2>2, <3>1, <3>2
    <3> QED BY <2>2, <3>3
  <2> QED BY <2>5, <2>7, <2>8, <2>9
<1>3. CASE write_state = "Stream"
  <2>0. /\ Serves(src_writes, aw_fifo, n) /\ Serves(snk_writes, <<>>, n)
        /\ ~isolated /\ n > 0 /\ ~write_last_seen
    BY <1>3, <1>inv
  <2>1. ~AwSent(i) /\ ~aw_pop(i) /\ ~i.abort_done /\ ~SourceB(i) /\ ~SinkB(i) /\ (SourceW(i) <=> SinkW(i))
    BY <1>3, <1>d DEF AwSent, aw_pop, SourceB, SinkB, SourceW, SinkW
  <2>2. /\ NextData(src_writes) = 1 /\ src_writes[1] = n /\ NextData(snk_writes) = 1 /\ snk_writes[1] = n
        /\ TakeData(src_writes) \in Seq(0 .. MaxBeats) /\ Serves(TakeData(src_writes), aw_fifo, n - 1)
        /\ Serves(TakeData(snk_writes), <<>>, n - 1) /\ n \in Nat /\ n - 1 \in Nat
    BY <2>0, <1>0, HeadData
  <2>3. wlast <=> n = 1
    BY <2>2 DEF wlast
  <2>4. Mishaps(i) = {}
    BY <2>1, <2>2, <2>3, <1>m
  <2>5. aw_fifo' = Append0(aw_fifo, w)
    BY <2>1, <1>p
  <2>6. SinkW(i) => ~write_timeout_pending(i)
    BY DEF SinkW, Streaming
  <2>7. \/ ~SinkW(i) /\ write_timeout_pending(i) /\ WriteTo("Abort", write_last_seen)
        \/ SinkW(i) /\ n = 1 /\ WriteTo("Response", TRUE)
        \/ SinkW(i) /\ n # 1 /\ WriteHold
        \/ ~SinkW(i) /\ ~write_timeout_pending(i) /\ WriteHold
    BY <1>3, <2>0, <2>3, <2>6, <1>c, <1>t, WriteArms, WriteProgressArms
  <2>8. CASE ~SinkW(i) /\ (\/ write_timeout_pending(i) /\ WriteTo("Abort", write_last_seen)
                           \/ ~write_timeout_pending(i) /\ WriteHold)
    <3>1. Serves(src_writes', Append0(aw_fifo, w), n)
      BY <2>0, <2>1, <2>8, <1>x
    <3>2. snk_writes' = snk_writes
      BY <2>1, <2>8, <1>k
    <3>3. /\ ~write_last_seen'
          /\ write_state' = "Abort" \/ (write_state' = "Stream" /\ ~isolated')
      <4>1. CASE write_timeout_pending(i) /\ WriteTo("Abort", write_last_seen)
        BY <2>0, <4>1 DEF WriteTo
      <4>2. CASE ~write_timeout_pending(i) /\ WriteHold
        <5>1. ~isolated'
          BY <2>0, <4>2, <1>i, Zenon
        <5> QED BY <1>3, <2>0, <4>2, <5>1 DEF WriteHold, WriteTo
      <4> QED BY <2>8, <4>1, <4>2
    <3>4. Goal(n)
      BY <2>0, <2>2, <2>5, <3>1, <3>2, <3>3
    <3> QED BY <2>4, <3>4
  <2>9. CASE SinkW(i)
    <3>1. Serves(src_writes', aw_fifo', n - 1)
      BY <2>1, <2>2, <2>5, <2>9, <1>0, <1>s, ServesPushed
    <3>2. Serves(snk_writes', <<>>, n - 1)
      BY <2>1, <2>2, <2>9, <1>k
    <3>3. ~isolated'
      BY <2>0, <2>6, <2>9, <1>i
    <3>4. \/ n - 1 = 0 /\ write_state' = "Response" /\ write_last_seen'
          \/ n - 1 > 0 /\ write_state' = "Stream" /\ ~write_last_seen'
      BY <1>3, <2>0, <2>2, <2>7, <2>9 DEF WriteTo, WriteHold
    <3>5. Goal(n - 1)
      BY <3>1, <3>2, <3>3, <3>4
    <3> QED BY <2>4, <3>5
  <2> QED BY <2>7, <2>8, <2>9
<1>4. CASE write_state = "Response"
  <2>0. /\ Serves(src_writes, aw_fifo, n) /\ Serves(snk_writes, <<>>, n)
        /\ ~isolated /\ n = 0 /\ write_last_seen
    BY <1>4, <1>inv
  <2>1. ~AwSent(i) /\ ~aw_pop(i) /\ ~i.abort_done /\ ~SourceW(i) /\ ~SinkW(i)
    BY <1>4, <1>d DEF AwSent, aw_pop, SourceW, SinkW, Streaming
  <2>2. write_timeout_pending(i) => ~i.bvalid
    BY <1>4, <1>t DEF write_timeout_pending, write_timeout_raw, write_timeout_enable
  <2>3. (SourceB(i) <=> SinkB(i)) /\ (SinkB(i) => ~write_timeout_pending(i))
    BY <1>4, <2>2 DEF SourceB, SinkB
  <2>4. src_writes # <<>> /\ Head(src_writes) = 0 /\ Tail(src_writes) = aw_fifo /\ Tail(snk_writes) = <<>>
    BY <2>0 DEF Serves
  <2>5. Mishaps(i) = {} /\ aw_fifo' = Append0(aw_fifo, w)
    BY <2>1, <2>4, <1>m, <1>p
  <2>6. \/ ~SinkB(i) /\ write_timeout_pending(i) /\ WriteTo("Abort", write_last_seen)
        \/ SinkB(i) /\ WriteTo("Idle", write_last_seen)
        \/ ~SinkB(i) /\ ~write_timeout_pending(i) /\ WriteHold
    BY <1>4, <2>0, <2>3, <1>c, <1>t, WriteArms, WriteProgressArms
  <2>7. CASE ~SinkB(i) /\ (\/ write_timeout_pending(i) /\ WriteTo("Abort", write_last_seen)
                           \/ ~write_timeout_pending(i) /\ WriteHold)
    <3>1. Serves(src_writes', Append0(aw_fifo, w), n)
      BY <2>0, <2>1, <2>3, <2>7, <1>x
    <3>2. snk_writes' = snk_writes
      BY <2>1, <2>7, <1>k
    <3>3. /\ write_last_seen'
          /\ write_state' = "Abort" \/ (write_state' = "Response" /\ ~isolated')
      BY <1>4, <2>0, <2>7, <1>i DEF WriteHold, WriteTo
    <3>4. Goal(n)
      BY <2>0, <2>5, <3>1, <3>2, <3>3
    <3> QED BY <2>5, <3>4
  <2>8. CASE SinkB(i) /\ WriteTo("Idle", write_last_seen)
    <3>1. src_writes' = Append0(aw_fifo, w) /\ snk_writes' = <<>> /\ write_state' = "Idle"
      BY <2>1, <2>3, <2>4, <2>8, <1>s, <1>k DEF WriteTo
    <3>2. Goal(0)
      BY <2>5, <3>1
    <3> QED BY <2>5, <3>2
  <2> QED BY <2>6, <2>7, <2>8
<1>5. CASE write_state = "Abort"
  <2>0. Serves(src_writes, aw_fifo, n) /\ (write_last_seen <=> n = 0)
    BY <1>5, <1>inv
  <2>1. /\ ~SourceW(i) /\ ~SourceB(i) /\ ~SinkW(i) /\ ~AwSent(i) /\ ~aw_pop(i)
        /\ ~write_timeout_pending(i)
    BY <1>5, <1>t DEF SourceW, SourceB, SinkW, Streaming, AwSent, aw_pop, write_timeout_pending,
                      write_timeout_raw, write_timeout_enable
  <2>2. aw_fifo' = Append0(aw_fifo, w) /\ Mishaps(i) = {} /\ Serves(src_writes', Append0(aw_fifo, w), n)
    BY <2>0, <2>1, <1>p, <1>m, <1>x
  <2>3. \/ i.abort_done /\ WriteTo(AfterAbort, write_last_seen)
        \/ WriteHold
    BY <1>5, <2>1, <1>c, <1>t, WriteArms, WriteProgressArms
  <2>4. n \in Nat
    BY <2>0, <1>0, HeadData
  <2>5. /\ write_last_seen' <=> n = 0
        /\ \/ write_state' = "Abort"
           \/ write_state' = "Drop" /\ snk_writes' = <<>> /\ n > 0
           \/ write_state' = "Synthetic" /\ snk_writes' = <<>> /\ n = 0
    BY <1>5, <2>0, <2>3, <2>4, <1>k DEF WriteHold, WriteTo, AfterAbort
  <2>6. Goal(n)
    BY <2>2, <2>5, <2>4
  <2> QED BY <2>2, <2>6
<1>6. CASE write_state = "Drop"
  <2>0. Serves(src_writes, aw_fifo, n) /\ snk_writes = <<>> /\ n > 0 /\ ~write_last_seen
    BY <1>6, <1>inv
  <2>1. /\ ~SourceB(i) /\ ~SinkW(i) /\ ~SinkB(i) /\ ~AwSent(i) /\ ~aw_pop(i) /\ ~i.abort_done
        /\ ~write_timeout_pending(i)
    BY <1>6, <1>d, <1>t DEF SourceB, SinkW, Streaming, SinkB, AwSent, aw_pop, write_timeout_pending,
                            write_timeout_raw, write_timeout_enable
  <2>2. aw_fifo' = Append0(aw_fifo, w) /\ snk_writes' = <<>> /\ Mishaps(i) = {}
    BY <2>0, <2>1, <1>p, <1>k, <1>m
  <2>3. /\ NextData(src_writes) = 1 /\ src_writes[1] = n /\ n \in Nat /\ n - 1 \in Nat
        /\ TakeData(src_writes) \in Seq(0 .. MaxBeats) /\ Serves(TakeData(src_writes), aw_fifo, n - 1)
    BY <2>0, <1>0, HeadData
  <2>4. wlast <=> n = 1
    BY <2>3 DEF wlast
  <2>5. \/ SourceW(i) /\ n = 1 /\ WriteTo("Synthetic", TRUE)
        \/ ~(SourceW(i) /\ n = 1) /\ WriteHold
    BY <1>6, <2>1, <2>4, <1>c, <1>t, WriteArms, WriteProgressArms
  <2>6. CASE ~SourceW(i)
    <3>1. Serves(src_writes', Append0(aw_fifo, w), n)
      BY <2>0, <2>1, <2>6, <1>x
    <3>2. write_state' = "Drop" /\ ~write_last_seen'
      BY <1>6, <2>0, <2>5, <2>6 DEF WriteHold, WriteTo
    <3>3. Goal(n)
      BY <2>0, <2>2, <3>1, <3>2
    <3> QED BY <2>2, <3>3
  <2>7. CASE SourceW(i)
    <3>1. Serves(src_writes', aw_fifo', n - 1)
      BY <2>1, <2>2, <2>3, <2>7, <1>0, <1>s, ServesPushed
    <3>2. \/ n - 1 = 0 /\ write_state' = "Synthetic" /\ write_last_seen'
          \/ n - 1 > 0 /\ write_state' = "Drop" /\ ~write_last_seen'
      BY <1>6, <2>0, <2>3, <2>5, <2>7 DEF WriteTo, WriteHold
    <3>3. Goal(n - 1)
      BY <2>2, <3>1, <3>2
    <3> QED BY <2>2, <3>3
  <2> QED BY <2>6, <2>7
<1>7. CASE write_state = "Synthetic"
  <2>0. Serves(src_writes, aw_fifo, n) /\ snk_writes = <<>> /\ n = 0 /\ write_last_seen
    BY <1>7, <1>inv
  <2>1. /\ ~SourceW(i) /\ ~SinkW(i) /\ ~SinkB(i) /\ ~AwSent(i) /\ ~aw_pop(i) /\ ~i.abort_done
        /\ ~write_timeout_pending(i)
    BY <1>7, <2>0, <1>d, <1>t DEF SourceW, SinkW, Streaming, SinkB, AwSent, aw_pop, write_timeout_pending,
                                  write_timeout_raw, write_timeout_enable
  <2>2. src_writes # <<>> /\ Head(src_writes) = 0 /\ Tail(src_writes) = aw_fifo
    BY <2>0 DEF Serves
  <2>3. aw_fifo' = Append0(aw_fifo, w) /\ snk_writes' = <<>> /\ Mishaps(i) = {}
    BY <2>0, <2>1, <2>2, <1>p, <1>k, <1>m
  <2>4. \/ SourceB(i) /\ WriteTo("Idle", write_last_seen)
        \/ ~SourceB(i) /\ WriteHold
    BY <1>7, <2>1, <1>c, <1>t, WriteArms, WriteProgressArms
  <2>5. CASE SourceB(i) /\ WriteTo("Idle", write_last_seen)
    <3>1. src_writes' = Append0(aw_fifo, w) /\ write_state' = "Idle"
      BY <2>1, <2>2, <2>5, <1>s DEF WriteTo
    <3>2. Goal(0)
      BY <2>3, <3>1
    <3> QED BY <2>3, <3>2
  <2>6. CASE ~SourceB(i) /\ WriteHold
    <3>1. Serves(src_writes', Append0(aw_fifo, w), n)
      BY <2>0, <2>1, <2>6, <1>x
    <3>2. write_state' = "Synthetic" /\ write_last_seen'
      BY <1>7, <2>0, <2>6 DEF WriteHold, WriteTo
    <3>3. Goal(n)
      BY <2>0, <2>3, <3>1, <3>2
    <3> QED BY <2>3, <3>3
  <2> QED BY <2>4, <2>5, <2>6
<1> QED BY <1>0, <1>1, <1>2, <1>3, <1>4, <1>5, <1>6, <1>7 DEF WriteStates
-----------------------------------------------------------------------------
(* Writes beside reads.                                                    *)

\* Reports taken at once, reads and writes overlapping: until the target is isolated
\* the books of the writes agree with the write machine, whatever the reads do, and a
\* write that still streams when a read isolates the target is due its data, in the
\* one cycle before it goes to the abort.
OverlapInv ==
  ~MailboxMayBeBusy =>
    /\ hold = FALSE /\ read_latched = FALSE
    /\ write_latched => /\ read_state \in {"Abort", "Synthetic"}
                        /\ isolated \/ write_state \in {"Send", "Stream", "Response"}
    /\ write_state = "Stream" =>
         /\ Serves(src_writes, aw_fifo, Remaining) /\ Serves(snk_writes, <<>>, Remaining)
         /\ Remaining > 0
    /\ ~isolated =>
         /\ read_state # "Abort" /\ write_state # "Abort"
         /\ write_state \in {"Idle", "Send"} => src_writes = aw_fifo /\ snk_writes = <<>>
         /\ write_state = "Send" => aw_fifo # <<>>
         /\ write_state \in {"Response", "Drop", "Synthetic"} => Serves(src_writes, aw_fifo, Remaining)
         /\ write_state = "Response" => Serves(snk_writes, <<>>, Remaining)
         /\ write_state \in {"Drop", "Synthetic"} => snk_writes = <<>>
         /\ write_state = "Drop" => Remaining > 0
         /\ write_state \in {"Response", "Synthetic"} => Remaining = 0

\* A report taken at once: a read's timeout is accepted in its cycle and a write's in
\* that or the next.
LEMMA OverlapPrompt ==
  ASSUME TypeOK, OfferInv, OverlapInv, ~MailboxMayBeBusy, NEW i \in Inputs
  PROVE  /\ ~timeout_block(i)
         /\ read_timeout_accept(i) <=> read_timeout_pending(i)
         /\ write_timeout_accept(i) <=> write_timeout_pending(i) /\ ~read_timeout_pending(i)
         /\ read_timeout_pending(i) => read_state \in {"Send", "Forward"} /\ ~write_latched
<1>1. hold = FALSE /\ read_latched = FALSE /\ i.report_ready
  BY Driven DEF OverlapInv
<1>2. ~timeout_block(i)
  BY <1>1 DEF timeout_block
<1>3. /\ read_timeout_accept(i) <=> read_timeout_pending(i)
      /\ write_timeout_accept(i) <=> write_timeout_pending(i) /\ ~read_timeout_pending(i)
  BY <1>1 DEF read_timeout_accept, write_timeout_accept, timeout_accept, timeout_valid,
              timeout_sel_write
<1>4. read_timeout_pending(i) => read_state \in {"Send", "Forward"}
  BY <1>1 DEF read_timeout_pending, read_timeout_raw, read_timeout_enable
<1>5. write_latched => read_state \in {"Abort", "Synthetic"}
  BY DEF OverlapInv
<1> QED BY <1>2, <1>3, <1>4, <1>5

LEMMA OverlapLatches ==
  ASSUME TypeOK, OfferInv, OverlapInv, ~MailboxMayBeBusy, NEW i \in Inputs,
         ReadMachine(i), WriteMachine(i), Report(i)
  PROVE  /\ hold' = FALSE /\ read_latched' = FALSE
         /\ write_latched' => /\ read_state' \in {"Abort", "Synthetic"}
                              /\ isolated' \/ write_state' \in {"Send", "Stream", "Response"}
         /\ ~isolated' => ~isolated /\ read_state' # "Abort"
<1>1. /\ ~timeout_block(i) /\ hold = FALSE /\ read_latched = FALSE
      /\ read_timeout_accept(i) <=> read_timeout_pending(i)
      /\ write_timeout_accept(i) <=> write_timeout_pending(i) /\ ~read_timeout_pending(i)
      /\ read_timeout_pending(i) => read_state \in {"Send", "Forward"} /\ ~write_latched
  BY OverlapPrompt DEF OverlapInv
<1>2. hold' = FALSE /\ read_latched' = FALSE
  <2>1. read_latched' = (~read_timeout_accept(i) /\ read_timeout_pending(i))
    BY DEF Report
  <2>2. hold' = IF hold THEN ~timeout_accept(i) ELSE timeout_block(i)
    BY DEF Report
  <2>3. timeout_block(i) \in BOOLEAN
    BY DEF timeout_block
  <2> QED BY <1>1, <2>1, <2>2, <2>3
<1>3. ASSUME write_latched'
      PROVE  /\ read_state' \in {"Abort", "Synthetic"}
             /\ isolated' \/ write_state' \in {"Send", "Stream", "Response"}
  <2>1. write_timeout_pending(i) /\ read_timeout_pending(i) /\ ~write_timeout_accept(i) /\ ~write_latched
    BY <1>1, <1>3, Zenon DEF Report
  <2>2. read_state' \in {"Abort", "Synthetic"}
    BY <1>1, <2>1, ReadArms DEF ReadLoad, ReadTo
  <2>3. write_state \in {"Send", "Stream", "Response"}
    BY <2>1 DEF write_timeout_pending, write_timeout_raw, write_timeout_enable
  <2>4. isolated => isolated'
    BY DEF Report
  <2>5. ~isolated => write_state' = write_state
    BY <1>1, <2>1, <2>3, WriteArms DEF WriteHold, WriteTo
  <2> QED BY <2>2, <2>3, <2>4, <2>5
<1>4. ASSUME ~isolated' PROVE ~isolated /\ read_state' # "Abort"
  <2>1. ~isolated /\ ~(read_timeout_accept(i) /\ read_state = "Forward")
    BY <1>4 DEF Report
  <2>2. read_state # "Abort"
    BY <2>1 DEF OverlapInv
  <2> QED BY <1>1, <2>1, <2>2, ReadArms, ReadProgressArms DEF ReadHold, ReadLoad, ReadTo
<1> QED BY <1>2, <1>3, <1>4

LEMMA OverlapWrites ==
  ASSUME TypeOK, OfferInv, OverlapInv, ~MailboxMayBeBusy, NEW i \in Inputs,
         NEW r \in {0} \cup Beats, NEW w \in {0} \cup Beats, Cycle(i, r, w)
  PROVE  OverlapInv' /\ "write data" \notin Mishaps(i)
<1>0. /\ src_writes \in Seq(0 .. MaxBeats) /\ snk_writes \in Seq(0 .. MaxBeats)
      /\ aw_fifo \in Seq(Beats) /\ aw_fifo \in Seq(0 .. MaxBeats)
      /\ write_state \in WriteStates /\ isolated \in BOOLEAN
      /\ Beats \subseteq 0 .. MaxBeats
  <2>1. aw_fifo \in Seq(Beats) /\ Beats \subseteq 0 .. MaxBeats
    BY Constants DEF TypeOK
  <2>2. aw_fifo \in Seq(0 .. MaxBeats)
    BY <2>1, SeqMonotonic
  <2> QED BY <2>1, <2>2, Zenon DEF TypeOK
<1>c. /\ ReadMachine(i) /\ WriteMachine(i) /\ Report(i) /\ traffic' = traffic /\ Books(i, r, w)
      /\ aw_fifo' = Append0(Pop(aw_fifo, aw_pop(i)), w)
  BY DEF Cycle
<1>t. /\ ~timeout_block(i)
      /\ write_timeout_accept(i) <=> write_timeout_pending(i) /\ ~read_timeout_pending(i)
  BY OverlapPrompt
<1>h. /\ hold' = FALSE /\ read_latched' = FALSE
      /\ write_latched' => /\ read_state' \in {"Abort", "Synthetic"}
                           /\ isolated' \/ write_state' \in {"Send", "Stream", "Response"}
      /\ ~isolated' => ~isolated /\ read_state' # "Abort"
  BY <1>c, OverlapLatches
<1>s. /\ ~SourceW(i) /\ ~SourceB(i) => src_writes' = Append0(src_writes, w)
      /\ SourceW(i) /\ ~SourceB(i) => src_writes' = Append0(TakeData(src_writes), w)
      /\ ~SourceW(i) /\ SourceB(i) /\ src_writes # <<>> => src_writes' = Append0(Tail(src_writes), w)
  BY <1>c, WriteBooks
<1>k. /\ ~i.abort_done /\ ~SinkW(i) /\ ~SinkB(i) /\ AwSent(i) =>
           snk_writes' = Append(snk_writes, FifoHead(aw_fifo))
      /\ ~i.abort_done /\ ~SinkW(i) /\ ~SinkB(i) /\ ~AwSent(i) => snk_writes' = snk_writes
      /\ ~i.abort_done /\ SinkW(i) /\ ~SinkB(i) /\ ~AwSent(i) => snk_writes' = TakeData(snk_writes)
      /\ ~i.abort_done /\ ~SinkW(i) /\ SinkB(i) /\ ~AwSent(i) => snk_writes' = Tail(snk_writes)
  BY <1>c, WriteBooks
<1>i. write_timeout_accept(i) /\ write_state \in {"Stream", "Response"} => isolated'
  BY <1>c DEF Report
<1>e. write_timeout_accept(i) /\ ~isolated => write_state \in {"Send", "Stream", "Response"}
  <2>1. write_latched /\ ~isolated => write_state \in {"Send", "Stream", "Response"}
    BY DEF OverlapInv
  <2> QED BY <1>t, <2>1 DEF write_timeout_pending, write_timeout_raw, write_timeout_enable
<1>d. /\ i.bvalid => snk_writes # <<>>
      /\ ~isolated => ~i.abort_done
  <2>1. ~isolated => "Abort" \notin {read_state, write_state}
    BY DEF OverlapInv
  <2> QED BY <2>1, Driven
<1>m. ASSUME SinkW(i) => NextData(snk_writes) # 0 /\ (wlast <=> snk_writes[NextData(snk_writes)] = 1)
      PROVE  "write data" \notin Mishaps(i)
  <2>1. wlast = (snk_writes[NextData(snk_writes)] = 1) \/ ~SinkW(i)
    BY <1>m DEF wlast
  <2>2. ~(SinkW(i) /\ (NextData(snk_writes) = 0 \/ wlast # (snk_writes[NextData(snk_writes)] = 1)))
    BY <1>m, <2>1
  <2> QED BY <2>2 DEF Mishaps
<1> DEFINE n == Head(src_writes)
<1>inv. /\ write_state = "Stream" =>
             Serves(src_writes, aw_fifo, n) /\ Serves(snk_writes, <<>>, n) /\ n > 0
        /\ ~isolated =>
             /\ write_state # "Abort"
             /\ write_state \in {"Idle", "Send"} => src_writes = aw_fifo /\ snk_writes = <<>>
             /\ write_state = "Send" => aw_fifo # <<>>
             /\ write_state \in {"Response", "Drop", "Synthetic"} => Serves(src_writes, aw_fifo, n)
             /\ write_state = "Response" => Serves(snk_writes, <<>>, n)
             /\ write_state \in {"Drop", "Synthetic"} => snk_writes = <<>>
             /\ write_state = "Drop" => n > 0
             /\ write_state \in {"Response", "Synthetic"} => n = 0
  BY DEF OverlapInv, Remaining
<1> HIDE DEF n
<1> DEFINE Goal(m) ==
      /\ write_state' = "Stream" =>
           Serves(src_writes', aw_fifo', m) /\ Serves(snk_writes', <<>>, m) /\ m > 0
      /\ ~isolated' =>
           /\ write_state' # "Abort"
           /\ write_state' \in {"Idle", "Send"} => src_writes' = aw_fifo' /\ snk_writes' = <<>>
           /\ write_state' = "Send" => aw_fifo' # <<>>
           /\ write_state' \in {"Response", "Drop", "Synthetic"} => Serves(src_writes', aw_fifo', m)
           /\ write_state' = "Response" => Serves(snk_writes', <<>>, m)
           /\ write_state' \in {"Drop", "Synthetic"} => snk_writes' = <<>>
           /\ write_state' = "Drop" => m > 0
           /\ write_state' \in {"Response", "Synthetic"} => m = 0
<1>g. SUFFICES (\E m : Goal(m)) /\ (SinkW(i) => NextData(snk_writes) # 0
                                    /\ (wlast <=> snk_writes[NextData(snk_writes)] = 1))
  <2>1. PICK m : Goal(m)
    BY <1>g
  <2>2. write_state' \in {"Stream", "Response", "Drop", "Synthetic"} /\ (write_state' = "Stream" \/ ~isolated')
          => m = Remaining'
    BY <2>1 DEF Remaining, Serves
  <2>3. OverlapInv'
    BY <1>h, <2>1, <2>2 DEF OverlapInv
  <2> QED BY <1>g, <1>m, <2>3
<1>p. /\ aw_pop(i) /\ aw_fifo # <<>> => aw_fifo' = Append0(Tail(aw_fifo), w)
      /\ ~aw_pop(i) \/ aw_fifo = <<>> => aw_fifo' = Append0(aw_fifo, w)
  BY <1>0, <1>c, Popped, Handshakes
<1>l. /\ FifoHead(aw_fifo) \in Beats
      /\ aw_fifo # <<>> => FifoHead(aw_fifo) = Head(aw_fifo) /\ Head(aw_fifo) \in Nat /\ Head(aw_fifo) > 0
  BY <1>0, Headed, Constants
<1>v. aw_fifo # <<>> => Serves(Append0(aw_fifo, w), Append0(Tail(aw_fifo), w), Head(aw_fifo))
  <2>1. aw_fifo # <<>> => Serves(aw_fifo, Tail(aw_fifo), Head(aw_fifo))
    BY DEF Serves
  <2> QED BY <1>0, <2>1, ServesPushed
<1>x. ASSUME Serves(src_writes, aw_fifo, n), ~SourceW(i), ~SourceB(i)
      PROVE  Serves(src_writes', Append0(aw_fifo, w), n)
  BY <1>0, <1>s, <1>x, ServesPushed
<1>z. isolated => isolated'
  BY <1>c DEF Report
\* A write that streams, isolated or not, has its data.
<1>y. ASSUME write_state = "Stream"
      PROVE  /\ NextData(src_writes) = 1 /\ src_writes[1] = n /\ NextData(snk_writes) = 1 /\ snk_writes[1] = n
             /\ TakeData(src_writes) \in Seq(0 .. MaxBeats) /\ Serves(TakeData(src_writes), aw_fifo, n - 1)
             /\ Serves(TakeData(snk_writes), <<>>, n - 1) /\ n \in Nat /\ n - 1 \in Nat
             /\ wlast <=> n = 1
             /\ SinkW(i) => NextData(snk_writes) # 0 /\ (wlast <=> snk_writes[NextData(snk_writes)] = 1)
  <2>1. /\ NextData(src_writes) = 1 /\ src_writes[1] = n /\ NextData(snk_writes) = 1 /\ snk_writes[1] = n
        /\ TakeData(src_writes) \in Seq(0 .. MaxBeats) /\ Serves(TakeData(src_writes), aw_fifo, n - 1)
        /\ Serves(TakeData(snk_writes), <<>>, n - 1) /\ n \in Nat /\ n - 1 \in Nat
    BY <1>y, <1>0, <1>inv, HeadData
  <2> QED BY <2>1 DEF wlast
\* Behind the isolation.
<1>1. CASE isolated
  <2>1. ~AwSent(i)
    BY <1>1 DEF AwSent
  <2>2. write_state' # "Stream"
    BY <1>1, <1>c, <1>t, <2>1, WriteArms, WriteProgressArms DEF WriteTo, WriteLoad, WriteHold, AfterAbort
  <2>3. Goal(0)
    BY <1>1, <1>z, <2>2
  <2>4. write_state # "Stream" => ~SinkW(i)
    BY DEF SinkW, Streaming
  <2> QED BY <1>y, <2>3, <2>4
<1>2. CASE ~isolated /\ write_state = "Idle"
  <2>1. ~SourceW(i) /\ ~SourceB(i) /\ ~SinkW(i) /\ ~SinkB(i) /\ ~AwSent(i) /\ ~i.abort_done /\ ~aw_pop(i)
    BY <1>2, <1>d DEF SourceW, SourceB, SinkW, Streaming, SinkB, AwSent, aw_pop
  <2>2. src_writes' = Append0(aw_fifo, w) /\ snk_writes' = <<>> /\ aw_fifo' = Append0(aw_fifo, w)
    BY <1>2, <2>1, <1>s, <1>k, <1>inv, <1>p
  <2>3. \/ aw_fifo = <<>> /\ WriteTo("Idle", FALSE)
        \/ aw_fifo # <<>> /\ WriteTo("Send", FALSE)
    BY <1>2, <1>c, <1>t, WriteArms
  <2>4. aw_fifo # <<>> => aw_fifo' # <<>>
    BY <1>0, <2>2, Pushed
  <2>5. Goal(0)
    BY <2>2, <2>3, <2>4 DEF WriteTo
  <2> QED BY <2>1, <2>5
<1>3. CASE ~isolated /\ write_state = "Send"
  <2>0. aw_fifo # <<>> /\ src_writes = aw_fifo /\ snk_writes = <<>>
    BY <1>3, <1>inv
  <2>1. ~SourceW(i) /\ ~SourceB(i) /\ ~SinkW(i) /\ ~SinkB(i) /\ ~i.abort_done
    BY <1>3, <2>0, <1>d DEF SourceW, SourceB, SinkW, Streaming, SinkB
  <2>2. src_writes' = Append0(aw_fifo, w)
    BY <2>0, <2>1, <1>s
  <2>3. aw_pop(i) <=> AwSent(i) \/ write_timeout_accept(i)
    BY <1>3 DEF aw_pop
  <2>4. AwSent(i) => ~write_timeout_pending(i)
    BY DEF AwSent
  <2>5. \/ ~AwSent(i) /\ write_timeout_accept(i) /\ WriteLoad("Drop")
        \/ AwSent(i) /\ WriteLoad("Stream")
        \/ ~AwSent(i) /\ ~write_timeout_accept(i) /\ WriteHold
    BY <1>3, <2>4, <1>c, <1>t, WriteArms, WriteProgressArms
  <2>6. CASE ~AwSent(i) /\ write_timeout_accept(i) /\ WriteLoad("Drop")
    <3>1. aw_fifo' = Append0(Tail(aw_fifo), w) /\ write_state' = "Drop" /\ snk_writes' = <<>>
      BY <2>0, <2>1, <2>3, <2>6, <1>p, <1>k DEF WriteLoad
    <3>2. Goal(Head(aw_fifo))
      BY <2>0, <2>2, <3>1, <1>v, <1>l
    <3> QED BY <2>1, <3>2
  <2>7. CASE AwSent(i) /\ WriteLoad("Stream")
    <3>1. aw_fifo' = Append0(Tail(aw_fifo), w) /\ write_state' = "Stream"
      BY <2>0, <2>3, <2>7, <1>p DEF WriteLoad
    <3>2. snk_writes' = Append(<<>>, Head(aw_fifo))
      BY <2>0, <2>1, <2>7, <1>k, <1>l
    <3>3. Serves(snk_writes', <<>>, Head(aw_fifo))
      BY <3>2, <2>0, <1>l DEF Serves
    <3>4. Goal(Head(aw_fifo))
      BY <2>0, <2>2, <3>1, <3>3, <1>v, <1>l
    <3> QED BY <2>1, <3>4
  <2>8. CASE ~AwSent(i) /\ ~write_timeout_accept(i) /\ WriteHold
    <3>1. aw_fifo' = Append0(aw_fifo, w) /\ aw_fifo' # <<>> /\ write_state' = "Send"
      BY <1>3, <2>0, <2>3, <2>8, <1>0, <1>p, Pushed DEF WriteHold, WriteTo
    <3>2. snk_writes' = <<>>
      BY <2>0, <2>1, <2>8, <1>k
    <3>3. Goal(0)
      BY <2>2, <3>1, <3>2
    <3> QED BY <2>1, <3>3
  <2> QED BY <2>5, <2>6, <2>7, <2>8
<1>4. CASE ~isolated /\ write_state = "Stream"
  <2>1. ~AwSent(i) /\ ~aw_pop(i) /\ ~i.abort_done /\ ~SourceB(i) /\ ~SinkB(i) /\ (SourceW(i) <=> SinkW(i))
    BY <1>4, <1>d DEF AwSent, aw_pop, SourceB, SinkB, SourceW, SinkW
  <2>2. Serves(src_writes, aw_fifo, n) /\ Serves(snk_writes, <<>>, n) /\ n > 0
    BY <1>4, <1>inv
  <2>3. aw_fifo' = Append0(aw_fifo, w)
    BY <2>1, <1>p
  <2>4. SinkW(i) => ~write_timeout_pending(i)
    BY DEF SinkW, Streaming
  <2>5. \/ ~SinkW(i) /\ write_timeout_accept(i) /\ WriteTo("Abort", write_last_seen)
        \/ SinkW(i) /\ n = 1 /\ WriteTo("Response", TRUE)
        \/ SinkW(i) /\ n # 1 /\ WriteHold
        \/ ~SinkW(i) /\ ~write_timeout_accept(i) /\ WriteHold
    BY <1>4, <2>4, <1>y, <1>c, <1>t, WriteArms, WriteProgressArms
  <2>6. CASE ~SinkW(i) /\ write_timeout_accept(i) /\ WriteTo("Abort", write_last_seen)
    <3>1. Goal(0)
      BY <1>4, <1>i, <2>6 DEF WriteTo
    <3> QED BY <2>6, <3>1
  <2>7. CASE SinkW(i)
    <3>1. Serves(src_writes', aw_fifo', n - 1)
      BY <1>4, <1>y, <2>1, <2>3, <2>7, <1>0, <1>s, ServesPushed
    <3>2. Serves(snk_writes', <<>>, n - 1)
      BY <1>4, <1>y, <2>1, <2>7, <1>k
    <3>3. \/ n - 1 = 0 /\ write_state' = "Response"
          \/ n - 1 > 0 /\ write_state' = "Stream"
      BY <1>4, <1>y, <2>2, <2>5, <2>7 DEF WriteTo, WriteHold
    <3>4. Goal(n - 1)
      BY <3>1, <3>2, <3>3
    <3> QED BY <1>4, <1>y, <3>4
  <2>8. CASE ~SinkW(i) /\ ~write_timeout_accept(i) /\ WriteHold
    <3>1. Serves(src_writes', Append0(aw_fifo, w), n) /\ snk_writes' = snk_writes /\ write_state' = "Stream"
      BY <1>4, <2>1, <2>2, <2>8, <1>x, <1>k DEF WriteHold, WriteTo
    <3>2. Goal(n)
      BY <2>2, <2>3, <3>1
    <3> QED BY <2>8, <3>2
  <2> QED BY <2>5, <2>6, <2>7, <2>8
<1>5. CASE ~isolated /\ write_state = "Response"
  <2>0. Serves(src_writes, aw_fifo, n) /\ Serves(snk_writes, <<>>, n) /\ n = 0
    BY <1>5, <1>inv
  <2>1. ~AwSent(i) /\ ~aw_pop(i) /\ ~i.abort_done /\ ~SourceW(i) /\ ~SinkW(i)
    BY <1>5, <1>d DEF AwSent, aw_pop, SourceW, SinkW, Streaming
  <2>2. aw_fifo' = Append0(aw_fifo, w)
    BY <2>1, <1>p
  <2>3. CASE write_timeout_accept(i)
    <3>1. write_state' = "Abort" /\ isolated'
      BY <1>5, <2>3, <1>c, <1>i, <1>t, WriteArms DEF WriteTo
    <3>2. Goal(0)
      BY <3>1
    <3> QED BY <2>1, <3>2
  <2>4. CASE ~write_timeout_accept(i)
    <3>1. write_timeout_pending(i) => ~i.bvalid
      <4>1. write_latched => write_timeout_accept(i)
        BY <1>t, OverlapPrompt DEF write_timeout_pending
      <4> QED BY <1>5, <2>4, <4>1 DEF write_timeout_pending, write_timeout_raw, write_timeout_enable
    <3>2. (SourceB(i) <=> SinkB(i)) /\ (SinkB(i) => ~write_timeout_pending(i))
      BY <1>5, <3>1 DEF SourceB, SinkB
    <3>3. src_writes # <<>> /\ Tail(src_writes) = aw_fifo /\ Tail(snk_writes) = <<>>
      BY <2>0 DEF Serves
    <3>4. \/ SinkB(i) /\ WriteTo("Idle", write_last_seen)
          \/ ~SinkB(i) /\ WriteHold
      BY <1>5, <2>4, <3>2, <1>c, <1>t, WriteArms, WriteProgressArms
    <3>5. CASE SinkB(i) /\ WriteTo("Idle", write_last_seen)
      <4>1. src_writes' = Append0(aw_fifo, w) /\ snk_writes' = <<>> /\ write_state' = "Idle"
        BY <2>1, <3>2, <3>3, <3>5, <1>s, <1>k DEF WriteTo
      <4>2. Goal(0)
        BY <2>2, <4>1
      <4> QED BY <2>1, <4>2
    <3>6. CASE ~SinkB(i) /\ WriteHold
      <4>1. Serves(src_writes', Append0(aw_fifo, w), n) /\ snk_writes' = snk_writes /\ write_state' = "Response"
        BY <1>5, <2>0, <2>1, <3>2, <3>6, <1>x, <1>k DEF WriteHold, WriteTo
      <4>2. Goal(n)
        BY <2>0, <2>2, <4>1
      <4> QED BY <2>1, <4>2
    <3> QED BY <3>4, <3>5, <3>6
  <2> QED BY <2>3, <2>4
<1>6. CASE ~isolated /\ write_state = "Drop"
  <2>0. Serves(src_writes, aw_fifo, n) /\ snk_writes = <<>> /\ n > 0
    BY <1>6, <1>inv
  <2>1. /\ ~SourceB(i) /\ ~SinkW(i) /\ ~SinkB(i) /\ ~AwSent(i) /\ ~aw_pop(i) /\ ~i.abort_done
        /\ ~write_timeout_accept(i) /\ ~write_timeout_pending(i)
    <3>1. ~write_latched
      BY <1>6 DEF OverlapInv
    <3>2. ~write_timeout_pending(i)
      BY <1>6, <3>1 DEF write_timeout_pending, write_timeout_raw, write_timeout_enable
    <3> QED BY <1>6, <1>d, <1>t, <3>2 DEF SourceB, SinkW, Streaming, SinkB, AwSent, aw_pop
  <2>2. aw_fifo' = Append0(aw_fifo, w) /\ snk_writes' = <<>>
    BY <2>0, <2>1, <1>p, <1>k
  <2>3. /\ NextData(src_writes) = 1 /\ src_writes[1] = n /\ n \in Nat /\ n - 1 \in Nat
        /\ TakeData(src_writes) \in Seq(0 .. MaxBeats) /\ Serves(TakeData(src_writes), aw_fifo, n - 1)
    BY <2>0, <1>0, HeadData
  <2>4. wlast <=> n = 1
    BY <2>3 DEF wlast
  <2>5. \/ SourceW(i) /\ n = 1 /\ WriteTo("Synthetic", TRUE)
        \/ ~(SourceW(i) /\ n = 1) /\ WriteHold
    BY <1>6, <2>1, <2>4, <1>c, <1>t, WriteArms, WriteProgressArms
  <2>6. CASE ~SourceW(i)
    <3>1. Serves(src_writes', Append0(aw_fifo, w), n)
      BY <2>0, <2>1, <2>6, <1>x
    <3>2. write_state' = "Drop"
      BY <1>6, <2>5, <2>6 DEF WriteHold, WriteTo
    <3>3. Goal(n)
      BY <2>0, <2>2, <3>1, <3>2
    <3> QED BY <2>1, <3>3
  <2>7. CASE SourceW(i)
    <3>1. Serves(src_writes', aw_fifo', n - 1)
      BY <2>1, <2>2, <2>3, <2>7, <1>0, <1>s, ServesPushed
    <3>2. \/ n - 1 = 0 /\ write_state' = "Synthetic"
          \/ n - 1 > 0 /\ write_state' = "Drop"
      BY <1>6, <2>0, <2>3, <2>5, <2>7 DEF WriteTo, WriteHold
    <3>3. Goal(n - 1)
      BY <2>2, <3>1, <3>2
    <3> QED BY <2>1, <3>3
  <2> QED BY <2>6, <2>7
<1>7. CASE ~isolated /\ write_state = "Synthetic"
  <2>0. Serves(src_writes, aw_fifo, n) /\ snk_writes = <<>> /\ n = 0
    BY <1>7, <1>inv
  <2>1. /\ ~SourceW(i) /\ ~SinkW(i) /\ ~SinkB(i) /\ ~AwSent(i) /\ ~aw_pop(i) /\ ~i.abort_done
        /\ ~write_timeout_accept(i) /\ ~write_timeout_pending(i)
    <3>1. ~write_latched
      BY <1>7 DEF OverlapInv
    <3>2. ~write_timeout_pending(i)
      BY <1>7, <3>1 DEF write_timeout_pending, write_timeout_raw, write_timeout_enable
    <3> QED BY <1>7, <2>0, <1>d, <1>t, <3>2 DEF SourceW, SinkW, Streaming, SinkB, AwSent, aw_pop
  <2>2. src_writes # <<>> /\ Tail(src_writes) = aw_fifo
    BY <2>0 DEF Serves
  <2>3. aw_fifo' = Append0(aw_fifo, w) /\ snk_writes' = <<>>
    BY <2>0, <2>1, <1>p, <1>k
  <2>4. \/ SourceB(i) /\ WriteTo("Idle", write_last_seen)
        \/ ~SourceB(i) /\ WriteHold
    BY <1>7, <2>1, <1>c, <1>t, WriteArms, WriteProgressArms
  <2>5. CASE SourceB(i) /\ WriteTo("Idle", write_last_seen)
    <3>1. src_writes' = Append0(aw_fifo, w) /\ write_state' = "Idle"
      BY <2>1, <2>2, <2>5, <1>s DEF WriteTo
    <3>2. Goal(0)
      BY <2>3, <3>1
    <3> QED BY <2>1, <3>2
  <2>6. CASE ~SourceB(i) /\ WriteHold
    <3>1. Serves(src_writes', Append0(aw_fifo, w), n) /\ write_state' = "Synthetic"
      BY <1>7, <2>0, <2>1, <2>6, <1>x DEF WriteHold, WriteTo
    <3>2. Goal(n)
      BY <2>0, <2>3, <3>1
    <3> QED BY <2>1, <3>2
  <2> QED BY <2>4, <2>5, <2>6
<1>8. ~isolated => write_state # "Abort"
  BY <1>inv
<1> QED BY <1>0, <1>1, <1>2, <1>3, <1>4, <1>5, <1>6, <1>7, <1>8 DEF WriteStates

\* NoStrayWriteData, for every timeout, burst length, depth and traffic: a read that
\* times out beside a write isolates the target and makes the bridge drop what it
\* carries of both, and the write sends no data beat that its burst is not due.
THEOREM WriteDataIsOwn == Spec => []NoStrayWriteData
<1> DEFINE Inv == TypeOK /\ OfferInv /\ OverlapInv /\ NoStrayWriteData
<1>1. Init => Inv
  <2> SUFFICES ASSUME Init PROVE Inv
    OBVIOUS
  <2>1. TypeOK /\ OfferInv
    BY GuardTypeInit
  <2>2. OverlapInv /\ NoStrayWriteData
    BY DEF Init, OverlapInv, NoStrayWriteData
  <2> QED BY <2>1, <2>2
<1>2. Inv /\ [Next]_vars => Inv'
  <2> SUFFICES ASSUME Inv, [Next]_vars PROVE Inv'
    OBVIOUS
  <2>1. TypeOK' /\ OfferInv'
    BY GuardTypeStep
  <2>2. OverlapInv' /\ NoStrayWriteData'
    <3>1. ASSUME NEW i \in Inputs, NEW r \in {0} \cup Beats, NEW w \in {0} \cup Beats, Cycle(i, r, w)
          PROVE  OverlapInv' /\ NoStrayWriteData'
      <4>1. traffic' = traffic /\ mishaps' = mishaps \cup Mishaps(i)
        BY <3>1 DEF Cycle
      <4>2. CASE MailboxMayBeBusy
        BY <4>1, <4>2 DEF OverlapInv, NoStrayWriteData, MailboxMayBeBusy
      <4>3. CASE ~MailboxMayBeBusy
        <5>1. OverlapInv' /\ "write data" \notin Mishaps(i)
          BY <3>1, <4>3, OverlapWrites
        <5> QED BY <4>1, <4>3, <5>1 DEF NoStrayWriteData
      <4> QED BY <4>2, <4>3
    <3>2. CASE Flush
      <4>1. NoStrayWriteData'
        BY <3>2 DEF Flush, NoStrayWriteData, MailboxMayBeBusy
      <4>2. OverlapInv'
        BY <3>2 DEF Flush, OverlapInv, MailboxMayBeBusy
      <4> QED BY <4>1, <4>2
    <3>3. CASE UNCHANGED vars
      <4> USE <3>3 DEF vars, readVars, writeVars, reportVars, envVars
      <4>1. NoStrayWriteData'
        BY Zenon DEF NoStrayWriteData, MailboxMayBeBusy
      <4>2. OverlapInv'
        BY Zenon DEF OverlapInv, MailboxMayBeBusy, Serves, Remaining
      <4> QED BY <4>1, <4>2
    <3> QED BY <3>1, <3>2, <3>3 DEF Next
  <2> QED BY <2>1, <2>2
<1> QED BY <1>1, <1>2, PTL DEF Spec

-----------------------------------------------------------------------------
(* The whole invariant.                                                    *)

LEMMA CycleStep ==
  ASSUME GuardInv, NEW i \in Inputs, NEW r \in {0} \cup Beats, NEW w \in {0} \cup Beats,
         Cycle(i, r, w)
  PROVE  GuardInv'
<1>0. TypeOK /\ OfferInv /\ RestInv /\ PromptInv /\ EveryBurstExact
  BY DEF GuardInv
<1>1. TypeOK' /\ OfferInv' /\ RestInv' /\ PromptInv'
  BY <1>0, CycleTypes, RestStep
<1>2. traffic' = traffic /\ mishaps' = mishaps \cup Mishaps(i)
  BY DEF Cycle
<1>3. ReadInv'
  <2>1. ASSUME traffic[2] = 0, ~MailboxMayBeBusy PROVE ReadInv'
    BY <2>1, ReadAloneStep
  <2>2. ASSUME ~(traffic[2] = 0 /\ ~MailboxMayBeBusy) PROVE ReadInv'
    BY <1>2, <2>2 DEF ReadInv, MailboxMayBeBusy
  <2> QED BY <2>1, <2>2
<1>4. WriteInv'
  <2>1. ASSUME traffic[1] = 0, ~MailboxMayBeBusy PROVE WriteInv'
    BY <2>1, WriteAloneStep
  <2>2. ASSUME ~(traffic[1] = 0 /\ ~MailboxMayBeBusy) PROVE WriteInv'
    BY <1>2, <2>2 DEF WriteInv, MailboxMayBeBusy
  <2> QED BY <2>1, <2>2
<1>5. EveryBurstExact'
  <2> SUFFICES ASSUME OneSided, ~MailboxMayBeBusy PROVE mishaps' = {}
    BY <1>2 DEF EveryBurstExact, OneSided, MailboxMayBeBusy
  <2>1. mishaps = {}
    BY <1>0 DEF EveryBurstExact
  <2>2. Mishaps(i) = {}
    BY ReadAloneStep, WriteAloneStep DEF OneSided
  <2> QED BY <1>2, <2>1, <2>2
<1> QED BY <1>1, <1>3, <1>4, <1>5 DEF GuardInv

LEMMA FlushStep == GuardInv /\ Flush => GuardInv'
<1> SUFFICES ASSUME GuardInv, Flush PROVE GuardInv'
  OBVIOUS
<1>1. TypeOK /\ OfferInv /\ RestInv /\ PromptInv /\ EveryBurstExact
  BY DEF GuardInv
<1>2. TypeOK' /\ OfferInv'
  BY <1>1, GuardTypeStep DEF Next
<1>3. RestInv' /\ PromptInv'
  BY <1>1 DEF Flush, RestInv, PromptInv, MailboxMayBeBusy
<1>4. ReadInv' /\ WriteInv'
  BY DEF Flush, ReadInv, WriteInv
<1>5. EveryBurstExact'
  BY <1>1 DEF Flush, EveryBurstExact, OneSided, MailboxMayBeBusy
<1> QED BY <1>2, <1>3, <1>4, <1>5 DEF GuardInv

LEMMA GuardStutter == GuardInv /\ UNCHANGED vars => GuardInv'
<1> SUFFICES ASSUME GuardInv, UNCHANGED vars PROVE GuardInv'
  OBVIOUS
<1> USE DEF GuardInv, vars, readVars, writeVars, reportVars, envVars
<1>1. TypeOK' /\ OfferInv'
  BY GuardTypeStep
<1>2. RestInv' /\ PromptInv' /\ EveryBurstExact'
  BY Zenon DEF RestInv, PromptInv, EveryBurstExact, OneSided, MailboxMayBeBusy
<1>3. ReadInv'
  BY Zenon DEF ReadInv, MailboxMayBeBusy, Serves
<1>4. WriteInv'
  BY Zenon DEF WriteInv, MailboxMayBeBusy, Serves, Remaining
<1> QED BY <1>1, <1>2, <1>3, <1>4

\* The inductive invariant holds: where the guard's machines stand agrees with what
\* the source was promised and what the target still owes, as long as one direction
\* is used and reports are taken at once.
THEOREM GuardInvariant == Spec => []GuardInv
<1>1. Init => GuardInv
  <2> SUFFICES ASSUME Init PROVE GuardInv
    OBVIOUS
  <2>1. TypeOK /\ OfferInv
    BY GuardTypeInit
  <2>2. RestInv /\ PromptInv
    BY DEF Init, RestInv, PromptInv
  <2>3. ReadInv /\ WriteInv
    BY DEF Init, ReadInv, WriteInv
  <2>4. EveryBurstExact
    BY DEF Init, EveryBurstExact
  <2> QED BY <2>1, <2>2, <2>3, <2>4 DEF GuardInv
<1>2. GuardInv /\ [Next]_vars => GuardInv'
  BY CycleStep, FlushStep, GuardStutter DEF Next
<1> QED BY <1>1, <1>2, PTL DEF Spec

\* EveryBurstExact, for every timeout, burst length, depth and number of bursts of one
\* direction, while the fault mailbox takes each report at once: a target that sends no
\* beat it was not asked for may stall at any beat, answer late or never, forget to mark
\* the last beat, be isolated and flushed, and the source still gets exactly the beats
\* and the one response it is owed (axi4_target_guard.sv:228-240, 300-320, 374-420).
THEOREM BurstsStayExact == Spec => []EveryBurstExact
<1>1. GuardInv => EveryBurstExact
  BY DEF GuardInv
<1> QED BY <1>1, GuardInvariant, PTL
=============================================================================
