---------------------------- MODULE TargetGuard ----------------------------
(***************************************************************************)
(* The guard in front of every memory target                               *)
(* (rtl/mini/top/axi4_target_guard.sv), between the crossbar ("source")    *)
(* and the target or its clock-crossing bridge ("sink").  One step is one  *)
(* clk_hp edge: the input record i holds what the neighbours drive in that *)
(* cycle, and the operators below are the guard's combinational outputs.   *)
(*                                                                         *)
(* A burst is abstracted to its number of beats, which doubles as its ID   *)
(* and address.  The neighbours keep what they are owed: src_reads and     *)
(* src_writes hold, oldest first, the beats left of every burst the source *)
(* has handed over; snk_reads and snk_writes those the sink has accepted.  *)
(* A write entry of 0 awaits its response.  mishaps records handshakes     *)
(* that a neighbour's books do not allow.                                  *)
(*                                                                         *)
(* Targets send as many beats as they were asked for and mark none before  *)
(* the last; they may forget to mark that one, which the guard repairs.    *)
(***************************************************************************)
EXTENDS Naturals, Sequences

CONSTANTS
  Timeout,           \* TargetTimeout, in cycles; 0 disables it
  MaxBeats,          \* beats of a burst, at most
  Depth,             \* ReadDepth and WriteDepth
  Traffic            \* <<reads, writes, busy>>: the bursts the source issues
                     \* and whether the fault mailbox may be busy

ASSUME GuardAssumption ==
  /\ Timeout \in Nat
  /\ {MaxBeats, Depth} \subseteq Nat \ {0}
  /\ Traffic \subseteq Nat \X Nat \X BOOLEAN

VARIABLES
  ar_fifo, aw_fifo,
  read_state, read_id, read_remaining, read_timeout, read_latched,
  write_state, write_id, write_timeout, write_latched, write_last_seen,
  isolated, hold, sel_write_q,
  src_reads, src_writes, snk_reads, snk_writes,
  offered,           \* valid signals a neighbour must hold: "r", "b", "w"
  to_read, to_write, \* bursts the source has yet to issue
  mishaps,
  traffic            \* the member of Traffic of this behaviour

readVars == <<ar_fifo, read_state, read_id, read_remaining, read_timeout,
              read_latched>>
writeVars == <<aw_fifo, write_state, write_id, write_timeout, write_latched,
               write_last_seen>>
reportVars == <<isolated, hold, sel_write_q>>
envVars == <<src_reads, src_writes, snk_reads, snk_writes, offered,
             to_read, to_write, mishaps, traffic>>
vars == <<readVars, writeVars, reportVars, envVars>>

Beats == 1 .. MaxBeats
ReadStates == {"Idle", "Send", "Forward", "Abort", "Synthetic"}
WriteStates == {"Idle", "Send", "Stream", "Response", "Abort", "Drop",
                "Synthetic"}

OneSided == traffic[1] = 0 \/ traffic[2] = 0
MailboxMayBeBusy == traffic[3]

Init ==
  /\ ar_fifo = <<>> /\ aw_fifo = <<>>
  /\ read_state = "Idle" /\ read_id = 0 /\ read_remaining = 0
  /\ read_timeout = 0 /\ read_latched = FALSE
  /\ write_state = "Idle" /\ write_id = 0 /\ write_timeout = 0
  /\ write_latched = FALSE /\ write_last_seen = FALSE
  /\ isolated = FALSE /\ hold = FALSE /\ sel_write_q = FALSE
  /\ src_reads = <<>> /\ src_writes = <<>>
  /\ snk_reads = <<>> /\ snk_writes = <<>>
  /\ traffic \in Traffic
  /\ offered = {} /\ to_read = traffic[1] /\ to_write = traffic[2]
  /\ mishaps = {}

----------------------------------------------------------------------------
(* The neighbours' books.                                                  *)

\* The entry whose data beat comes next, 0 when every entry has its data.
NextData(books) ==
  LET open == {k \in 1 .. Len(books) : books[k] > 0}
  IN  IF open = {} THEN 0 ELSE CHOOSE k \in open : \A j \in open : k <= j

TakeBeat(books) ==
  CASE books = <<>> -> books
    [] books # <<>> /\ Head(books) <= 1 -> Tail(books)
    [] OTHER -> [books EXCEPT ![1] = @ - 1]

TakeData(books) ==
  IF NextData(books) = 0 THEN books
  ELSE [books EXCEPT ![NextData(books)] = @ - 1]

\* What the neighbours can drive: a valid stays up until it is accepted.
Offer(name, owed) ==
  IF name \in offered THEN {TRUE} ELSE IF owed THEN BOOLEAN ELSE {FALSE}
When(relevant) == IF relevant THEN BOOLEAN ELSE {FALSE}

Inputs ==
  [arready : When(read_state = "Send" /\ Len(snk_reads) < Depth),
   rvalid  : Offer("r", snk_reads # <<>>),
   rlast   : When(snk_reads # <<>> /\ Head(snk_reads) = 1),
   rready  : When(src_reads # <<>> \/ read_state = "Synthetic"),
   awready : When(write_state = "Send" /\ Len(snk_writes) < Depth),
   wvalid  : Offer("w", NextData(src_writes) # 0),
   wready  : When(write_state = "Stream"),
   bvalid  : Offer("b", snk_writes # <<>> /\ Head(snk_writes) = 0),
   bready  : When(src_writes # <<>> \/ write_state = "Synthetic"),
   report_ready : IF MailboxMayBeBusy THEN BOOLEAN ELSE {TRUE},
   abort_done   : When("Abort" \in {read_state, write_state})]

----------------------------------------------------------------------------
(* Timeouts and their report.                                              *)

read_timeout_enable(i) ==
  /\ Timeout # 0
  /\ \/ read_state = "Send" /\ ~i.arready
     \/ read_state = "Forward" /\ i.rready /\ ~i.rvalid
read_timeout_raw(i) ==
  read_timeout_enable(i) /\ read_timeout = Timeout - 1
read_timeout_pending(i) == read_latched \/ read_timeout_raw(i)

\* Variant: a missing response is not timed.
write_timeout_enable_NoResponse(i) ==
  /\ Timeout # 0
  /\ \/ write_state = "Send" /\ ~i.awready
     \/ write_state = "Stream" /\ i.wvalid /\ ~i.wready

write_timeout_enable(i) ==
  /\ Timeout # 0
  /\ \/ write_state = "Send" /\ ~i.awready
     \/ write_state = "Stream" /\ i.wvalid /\ ~i.wready
     \/ write_state = "Response" /\ i.bready /\ ~i.bvalid
write_timeout_raw(i) ==
  write_timeout_enable(i) /\ write_timeout = Timeout - 1
write_timeout_pending(i) == write_latched \/ write_timeout_raw(i)

timeout_sel_write(i) ==
  IF hold THEN sel_write_q
  ELSE ~read_timeout_pending(i) /\ write_timeout_pending(i)
timeout_valid(i) ==
  hold \/ read_timeout_pending(i) \/ write_timeout_pending(i)
timeout_accept(i) == timeout_valid(i) /\ i.report_ready
read_timeout_accept(i) == timeout_accept(i) /\ ~timeout_sel_write(i)
write_timeout_accept(i) == timeout_accept(i) /\ timeout_sel_write(i)
timeout_block(i) == timeout_valid(i) /\ ~i.report_ready

----------------------------------------------------------------------------
(* Handshakes.                                                             *)

ArSent(i) ==
  read_state = "Send" /\ ~isolated /\ ~read_timeout_pending(i) /\ i.arready
ar_pop(i) ==
  \/ read_state = "Send" /\ (ArSent(i) \/ read_timeout_accept(i) \/ isolated)
  \/ read_state = "Idle" /\ isolated /\ ar_fifo # <<>>
SourceR(i) ==
  /\ read_state = "Synthetic" \/ (read_state = "Forward" /\ i.rvalid)
  /\ i.rready
read_missing_last(i) ==
  read_state = "Forward" /\ i.rvalid /\ read_remaining = 1 /\ ~i.rlast
SourceRlast(i) == IF read_state = "Synthetic" THEN read_remaining = 1
                  ELSE i.rlast \/ read_missing_last(i)
SinkR(i) ==
  /\ i.rvalid
  /\ IF read_state = "Forward" /\ ~read_timeout_pending(i) THEN i.rready
     ELSE read_state \in {"Abort", "Synthetic"}

AwSent(i) ==
  write_state = "Send" /\ ~isolated /\ ~write_timeout_pending(i) /\ i.awready
aw_pop(i) ==
  \/ write_state = "Send" /\ (AwSent(i) \/ write_timeout_accept(i) \/ isolated)
  \/ write_state = "Idle" /\ isolated /\ aw_fifo # <<>>
Streaming(i) == write_state = "Stream" /\ ~write_timeout_pending(i)
SinkW(i) == Streaming(i) /\ i.wvalid /\ i.wready
SourceW(i) == i.wvalid /\ (SinkW(i) \/ write_state = "Drop")
wlast == NextData(src_writes) # 0 /\ src_writes[NextData(src_writes)] = 1
SourceB(i) ==
  /\ write_state = "Synthetic" \/ (write_state = "Response" /\ i.bvalid)
  /\ i.bready
SinkB(i) ==
  /\ i.bvalid
  /\ IF write_state = "Response" /\ ~write_timeout_pending(i) THEN i.bready
     ELSE write_state \in {"Abort", "Synthetic"}

----------------------------------------------------------------------------
(* Next state.  A register keeps its value while a report is blocked.      *)

\* The head of an address FIFO; an empty FIFO shows its last word.
FifoHead(fifo) == IF fifo = <<>> THEN 1 ELSE Head(fifo)
Pop(fifo, pop) == IF pop /\ fifo # <<>> THEN Tail(fifo) ELSE fifo

ReadTo(state, id, remaining) ==
  /\ read_state' = state
  /\ read_id' = id
  /\ read_remaining' = remaining
ReadHold == ReadTo(read_state, read_id, read_remaining)
ReadLoad(state) == ReadTo(state, FifoHead(ar_fifo), FifoHead(ar_fifo))

ReadProgress(i) ==
  CASE read_state = "Send" /\ ArSent(i) -> ReadLoad("Forward")
    [] read_state = "Forward" /\ SinkR(i) ->
         ReadTo(IF i.rlast \/ read_remaining = 1 THEN "Idle" ELSE "Forward",
                read_id,
                IF read_remaining = 0 THEN 0 ELSE read_remaining - 1)
    [] read_state = "Abort" /\ i.abort_done ->
         ReadTo("Synthetic", read_id, read_remaining)
    [] read_state = "Synthetic" /\ SourceR(i) ->
         ReadTo(IF read_remaining = 1 THEN "Idle" ELSE "Synthetic", read_id,
                IF read_remaining = 0 THEN 0 ELSE read_remaining - 1)
    [] OTHER -> ReadHold

ReadMachine(i) ==
  CASE timeout_block(i) -> ReadHold /\ UNCHANGED read_timeout
    [] ~timeout_block(i) /\ read_state = "Idle" ->
         /\ read_timeout' = 0
         /\ CASE ar_fifo = <<>> -> ReadHold
              [] ar_fifo # <<>> /\ isolated -> ReadLoad("Synthetic")
              [] OTHER -> ReadTo("Send", read_id, read_remaining)
    [] ~timeout_block(i) /\ read_state = "Send" /\ isolated ->
         ReadLoad("Synthetic") /\ UNCHANGED read_timeout
    [] ~timeout_block(i) /\ read_state = "Forward" /\ isolated ->
         ReadTo("Abort", read_id, read_remaining) /\ UNCHANGED read_timeout
    [] OTHER ->
         CASE read_timeout_accept(i) ->
                /\ read_timeout' = 0
                /\ IF read_state = "Send" THEN ReadLoad("Synthetic")
                   ELSE ReadTo("Abort", read_id, read_remaining)
           [] ~read_timeout_accept(i) /\ read_timeout_pending(i) ->
                ReadHold /\ UNCHANGED read_timeout
           [] OTHER ->
                /\ ReadProgress(i)
                /\ read_timeout' =
                     CASE ArSent(i) \/ (read_state = "Forward" /\ SinkR(i)) -> 0
                       [] read_timeout_enable(i) -> read_timeout + 1
                       [] OTHER -> read_timeout

WriteTo(state, last_seen) ==
  /\ write_state' = state
  /\ write_last_seen' = last_seen
  /\ UNCHANGED write_id
WriteHold == WriteTo(write_state, write_last_seen)
WriteLoad(state) ==
  /\ write_state' = state
  /\ write_id' = FifoHead(aw_fifo)
  /\ write_last_seen' = (write_last_seen /\ write_state # "Idle")

\* Where a write goes once the abort is done: data the source still holds is
\* taken and dropped before the response.  Variant: it never is.
AfterAbort_NoDrop == "Synthetic"
AfterAbort == IF write_last_seen THEN "Synthetic" ELSE "Drop"

\* Writes in flight that the isolation of the target, by a timeout of either
\* direction, sends to the abort.  Variant: one still streaming goes on.
IsolationAborts_NotStream == {"Response"}
IsolationAborts == {"Stream", "Response"}

WriteProgress(i) ==
  CASE write_state = "Send" /\ AwSent(i) -> WriteLoad("Stream")
    [] write_state = "Stream" /\ SinkW(i) /\ wlast -> WriteTo("Response", TRUE)
    [] write_state = "Response" /\ SinkB(i) -> WriteTo("Idle", write_last_seen)
    [] write_state = "Abort" /\ i.abort_done ->
         WriteTo(AfterAbort, write_last_seen)
    [] write_state = "Drop" /\ SourceW(i) /\ wlast -> WriteTo("Synthetic", TRUE)
    [] write_state = "Synthetic" /\ SourceB(i) -> WriteTo("Idle", write_last_seen)
    [] OTHER -> WriteHold

WriteMachine(i) ==
  CASE timeout_block(i) -> WriteHold /\ UNCHANGED write_timeout
    [] ~timeout_block(i) /\ write_state = "Idle" ->
         /\ write_timeout' = 0
         /\ CASE aw_fifo = <<>> -> WriteTo("Idle", FALSE)
              [] aw_fifo # <<>> /\ isolated -> WriteLoad("Drop")
              [] OTHER -> WriteTo("Send", FALSE)
    [] ~timeout_block(i) /\ write_state = "Send" /\ isolated ->
         WriteLoad("Drop") /\ UNCHANGED write_timeout
    [] ~timeout_block(i) /\ write_state \in IsolationAborts /\ isolated ->
         WriteTo("Abort", write_last_seen) /\ UNCHANGED write_timeout
    [] OTHER ->
         CASE write_timeout_accept(i) ->
                /\ write_timeout' = 0
                /\ IF write_state = "Send" THEN WriteLoad("Drop")
                   ELSE WriteTo("Abort", write_last_seen)
           [] ~write_timeout_accept(i) /\ write_timeout_pending(i) ->
                WriteHold /\ UNCHANGED write_timeout
           [] OTHER ->
                /\ WriteProgress(i)
                /\ write_timeout' =
                     CASE \/ AwSent(i) \/ SinkW(i)
                          \/ write_state = "Response" /\ SinkB(i) -> 0
                       [] write_timeout_enable(i) -> write_timeout + 1
                       [] OTHER -> write_timeout

Report(i) ==
  /\ isolated' =
       \/ isolated
       \/ read_timeout_accept(i) /\ read_state = "Forward"
       \/ write_timeout_accept(i) /\ write_state \in {"Stream", "Response"}
  /\ read_latched' = (~read_timeout_accept(i) /\ read_timeout_pending(i))
  /\ write_latched' = (~write_timeout_accept(i) /\ write_timeout_pending(i))
  /\ hold' = IF hold THEN ~timeout_accept(i) ELSE timeout_block(i)
  /\ sel_write_q' = IF ~hold /\ timeout_block(i) THEN timeout_sel_write(i)
                    ELSE sel_write_q

----------------------------------------------------------------------------
(* One cycle.  r and w are the bursts the source hands over in it, if any. *)

Issue(fifo, left, b) ==
  b # 0 => left > 0 /\ Len(fifo) < Depth

Append0(s, b) == IF b = 0 THEN s ELSE Append(s, b)

\* After an abort the bridge behind the guard has dropped what it carried.
Books(i, r, w) ==
  LET flushed == i.abort_done
  IN
  /\ to_read' = IF r = 0 THEN to_read ELSE to_read - 1
  /\ to_write' = IF w = 0 THEN to_write ELSE to_write - 1
  /\ src_reads' = Append0(IF SourceR(i) THEN TakeBeat(src_reads)
                          ELSE src_reads, r)
  /\ src_writes' =
       LET data == IF SourceW(i) THEN TakeData(src_writes) ELSE src_writes
       IN  Append0(IF SourceB(i) /\ data # <<>> THEN Tail(data) ELSE data, w)
  /\ snk_reads' =
       LET beat == IF SinkR(i) THEN TakeBeat(snk_reads) ELSE snk_reads
       IN  CASE flushed -> <<>>
             [] ~flushed /\ ArSent(i) -> Append(beat, FifoHead(ar_fifo))
             [] OTHER -> beat
  /\ snk_writes' =
       LET data == IF SinkW(i) THEN TakeData(snk_writes) ELSE snk_writes
           resp == IF SinkB(i) THEN Tail(data) ELSE data
       IN  CASE flushed -> <<>>
             [] ~flushed /\ AwSent(i) -> Append(resp, FifoHead(aw_fifo))
             [] OTHER -> resp
  /\ offered' = {n \in {"r", "b", "w"} :
                   CASE n = "r" -> i.rvalid /\ ~SinkR(i) /\ ~flushed
                     [] n = "b" -> i.bvalid /\ ~SinkB(i) /\ ~flushed
                     [] n = "w" -> i.wvalid /\ ~SourceW(i)}

\* Handshakes the neighbours did not bargain for.
Mishaps(i) ==
  {m \in {"read beat", "write response", "write data", "phantom address"} :
     CASE m = "read beat" ->
            SourceR(i) /\ (src_reads = <<>> \/ SourceRlast(i) # (Head(src_reads) = 1))
       [] m = "write response" ->
            SourceB(i) /\ (src_writes = <<>> \/ Head(src_writes) # 0)
       [] m = "write data" ->
            SinkW(i) /\ (NextData(snk_writes) = 0
                          \/ wlast # (snk_writes[NextData(snk_writes)] = 1))
       [] m = "phantom address" ->
            (ArSent(i) /\ ar_fifo = <<>>) \/ (AwSent(i) /\ aw_fifo = <<>>)}

Cycle(i, r, w) ==
  /\ Issue(ar_fifo, to_read, r) /\ Issue(aw_fifo, to_write, w)
  /\ ReadMachine(i)
  /\ WriteMachine(i)
  /\ Report(i)
  /\ ar_fifo' = Append0(Pop(ar_fifo, ar_pop(i)), r)
  /\ aw_fifo' = Append0(Pop(aw_fifo, aw_pop(i)), w)
  /\ Books(i, r, w)
  /\ mishaps' = mishaps \cup Mishaps(i)
  /\ UNCHANGED traffic

\* clear_i: the lifecycle flush empties guard, crossbar and bridges together.
Flush ==
  /\ read_state' = "Idle" /\ write_state' = "Idle"
  /\ ar_fifo' = <<>> /\ aw_fifo' = <<>>
  /\ read_latched' = FALSE /\ write_latched' = FALSE /\ hold' = FALSE
  /\ src_reads' = <<>> /\ src_writes' = <<>>
  /\ snk_reads' = <<>> /\ snk_writes' = <<>> /\ offered' = {}
  /\ UNCHANGED <<read_id, read_remaining, read_timeout, write_id,
                 write_timeout, write_last_seen, isolated, sel_write_q,
                 to_read, to_write, mishaps, traffic>>

Next ==
  \/ \E i \in Inputs, r, w \in {0} \cup Beats : Cycle(i, r, w)
  \/ Flush

\* The source takes responses and supplies data, a report is accepted and an
\* abort is acknowledged, over and over; nothing is asked of the target, which
\* may never accept or answer anything again.
Obliging(i) ==
  /\ src_reads # <<>> => i.rready
  /\ src_writes # <<>> => i.bready
  /\ NextData(src_writes) # 0 => i.wvalid
  /\ i.report_ready
  /\ "Abort" \in {read_state, write_state} => i.abort_done

Silent(i) ==
  /\ ~i.arready /\ ~i.awready /\ ~i.wready
  /\ i.rvalid => "r" \in offered
  /\ i.bvalid => "b" \in offered

Fairness ==
  WF_vars(\E i \in Inputs, r, w \in {0} \cup Beats :
            Obliging(i) /\ Silent(i) /\ Cycle(i, r, w))

Spec == Init /\ [][Next]_vars /\ Fairness

----------------------------------------------------------------------------
\* The two machines, the address FIFOs and the timeout counters of the guard stay
\* in range, and so do the books.
TypeOK ==
  /\ ar_fifo \in Seq(Beats) /\ aw_fifo \in Seq(Beats)
  /\ Len(ar_fifo) <= Depth /\ Len(aw_fifo) <= Depth
  /\ read_state \in ReadStates /\ write_state \in WriteStates
  /\ read_id \in 0 .. MaxBeats /\ read_remaining \in 0 .. MaxBeats /\ write_id \in 0 .. MaxBeats
  /\ read_timeout \in Nat /\ (read_timeout = 0 \/ read_timeout < Timeout)
  /\ write_timeout \in Nat /\ (write_timeout = 0 \/ write_timeout < Timeout)
  /\ read_latched \in BOOLEAN /\ write_latched \in BOOLEAN /\ write_last_seen \in BOOLEAN
  /\ isolated \in BOOLEAN /\ hold \in BOOLEAN /\ sel_write_q \in BOOLEAN
  /\ src_reads \in Seq(Beats) /\ snk_reads \in Seq(Beats)
  /\ src_writes \in Seq(0 .. MaxBeats) /\ snk_writes \in Seq(0 .. MaxBeats)
  /\ offered \subseteq {"r", "b", "w"} /\ traffic \in Traffic
  /\ to_read \in Nat /\ to_write \in Nat
  /\ mishaps \subseteq {"read beat", "write response", "write data", "phantom address"}

\* While reads and writes do not overlap and reports are taken at once, every
\* burst the source hands over gets exactly its beats, the last one marked also
\* when the target forgot to, and every write exactly one response after its
\* data; the target gets no data without an address.
EveryBurstExact == OneSided /\ ~MailboxMayBeBusy => mishaps = {}

\* Also while reads and writes overlap, as long as reports are taken at once:
\* when the abort of one direction makes the bridge drop what it carries in
\* both, the other direction's write has stopped sending, and no data beat
\* reaches the target without a burst of its own that is due exactly that beat.
NoStrayWriteData == ~MailboxMayBeBusy => "write data" \notin mishaps

\* What a report names: the direction and the burst at its head.
ReportPayload ==
  <<sel_write_q,
    CASE sel_write_q /\ write_state = "Send" -> FifoHead(aw_fifo)
      [] sel_write_q /\ write_state # "Send" -> write_id
      [] ~sel_write_q /\ read_state = "Send" -> FifoHead(ar_fifo)
      [] OTHER -> read_id>>

\* A report the fault mailbox has not taken yet keeps naming the same burst, as
\* long as reads and writes do not overlap.
ReportHeldStable ==
  [][OneSided /\ hold /\ hold' => ReportPayload' = ReportPayload]_vars

\* Every burst is completed whatever the target does, as long as reads and
\* writes do not overlap.
EveryBurstCompletes ==
  OneSided => <>[](src_reads = <<>> /\ src_writes = <<>>)
=============================================================================
