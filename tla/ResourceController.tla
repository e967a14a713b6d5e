------------------------- MODULE ResourceController -------------------------
(***************************************************************************)
(* One resource slice of the root-managed ownership registers              *)
(* (rtl/mini/top/resource_controller.sv).  The ten slices are identical    *)
(* and independent.  block_ack and idle are inputs of the slice; they are  *)
(* parameters of the write operators, which model the PCLK edge on which   *)
(* s_request samples an APB write.                                         *)
(***************************************************************************)
EXTENDS Naturals

CONSTANT HandoffMax        \* all-ones value of HANDOFF_COUNT (65535)

ASSUME HandoffMaxAssumption == HandoffMax \in Nat

VARIABLES
  owner,          \* s_owner_q: 0 is LP, 1 is HP
  owner_lock,     \* s_owner_lock_q
  quiesce,        \* s_quiesce_q
  reset,          \* s_reset_q
  fault,          \* s_fault_q: a rejected hand-off
  handoff_count   \* s_handoff_count_q

rcVars == <<owner, owner_lock, quiesce, reset, fault, handoff_count>>

OwnerLp == 0
OwnerHp == 1
OwnerCodes == 0 .. 3       \* the two-bit field of the write data

saturating_increment(v) == IF v = HandoffMax THEN v ELSE v + 1

RcInit ==
  /\ owner = OwnerLp
  /\ owner_lock = FALSE
  /\ quiesce = FALSE
  /\ reset = FALSE
  /\ fault = FALSE
  /\ handoff_count = 0

\* resource_block_i of the data plane: quiesce and reset both block.
resource_block == quiesce \/ reset

\* s_write_error of an OWNER write with well-formed data.
OwnerWriteError(code, block_ack, idle) ==
  \/ code > OwnerHp
  \/ owner_lock
  \/ ~quiesce
  \/ ~block_ack
  \/ ~idle

OwnerWriteAccepted(code, lock, block_ack, idle) ==
  /\ ~OwnerWriteError(code, block_ack, idle)
  /\ handoff_count' = IF owner # code THEN saturating_increment(handoff_count)
                                      ELSE handoff_count
  /\ owner' = code
  /\ owner_lock' = lock
  /\ UNCHANGED <<quiesce, reset, fault>>

OwnerWriteRejected(code, block_ack, idle) ==
  /\ OwnerWriteError(code, block_ack, idle)
  /\ fault' = TRUE
  /\ UNCHANGED <<owner, owner_lock, quiesce, reset, handoff_count>>

OwnerWrite(code, lock, block_ack, idle) ==
  \/ OwnerWriteAccepted(code, lock, block_ack, idle)
  \/ OwnerWriteRejected(code, block_ack, idle)

ControlWrite(q, r) ==
  /\ quiesce' = q
  /\ reset' = r
  /\ UNCHANGED <<owner, owner_lock, fault, handoff_count>>

FaultClear ==
  /\ fault' = FALSE
  /\ UNCHANGED <<owner, owner_lock, quiesce, reset, handoff_count>>

\* A slice under any sequence of register writes and any answers of its
\* engine and data path.
RcNext ==
  \/ \E code \in OwnerCodes, lock, block_ack, idle \in BOOLEAN :
       OwnerWrite(code, lock, block_ack, idle)
  \/ \E q, r \in BOOLEAN : ControlWrite(q, r)
  \/ FaultClear

RcSpec == RcInit /\ [][RcNext]_rcVars

\* The ownership registers; the handoff count never leaves its width.
RcTypeOK ==
  /\ owner \in {OwnerLp, OwnerHp}
  /\ owner_lock \in BOOLEAN
  /\ quiesce \in BOOLEAN
  /\ reset \in BOOLEAN
  /\ fault \in BOOLEAN
  /\ handoff_count \in 0 .. HandoffMax

\* "... owner lock is sticky" (docs/lp-hp-architecture.md:185): no sequence of
\* writes moves a locked owner or takes its lock away.
LockIsSticky ==
  [][owner_lock => owner_lock' /\ owner' = owner]_rcVars

\* HANDOFF_COUNT counts owner changes and nothing else: until it saturates its
\* parity is the owner, whatever writes were accepted, repeated or rejected.
CountMatchesOwner ==
  handoff_count < HandoffMax => owner = handoff_count % 2
=============================================================================
