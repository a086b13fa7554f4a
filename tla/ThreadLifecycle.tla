---------------------------- MODULE ThreadLifecycle ----------------------------
(***************************************************************************)
(* The life of a thread as docs/03-consensus-state-machines.md and         *)
(* docs/03-thread-state-machines.md draw it: what a reader of the board    *)
(* may rely on, with nothing of how a decision is reached.                 *)
(***************************************************************************)
EXTENDS Naturals

CONSTANTS Proposal, None

VARIABLES
  course,   \* "direct": the owner's word decides; "awaited": the thread awaits its
            \* decision first; "brainstorm": it is never decided
  phase,    \* the state shown on the thread
  adopted,  \* the proposal the thread adopted
  records   \* how many agreements the thread left in the record

lifecycleVars == <<course, phase, adopted, records>>

Init ==
  /\ course \in {"direct", "awaited", "brainstorm"}
  /\ phase = "discussing"
  /\ adopted = None
  /\ records = 0

Open == phase \in {"discussing", "awaiting_decision"}

\* The decision is opened.
Await ==
  /\ phase = "discussing"
  /\ course = "awaited"
  /\ phase' = "awaiting_decision"
  /\ UNCHANGED <<course, adopted, records>>

SendBack ==
  /\ phase = "awaiting_decision"
  /\ phase' = "discussing"
  /\ UNCHANGED <<course, adopted, records>>

Adopt(p) ==
  /\ \/ course = "direct" /\ phase = "discussing"
     \/ course = "awaited" /\ phase = "awaiting_decision"
  /\ phase' = "decided"
  /\ adopted' = p
  /\ records' = records + 1
  /\ UNCHANGED course

\* A rejection is recorded as an agreement or not, as its author wishes.  A
\* brainstorm is never rejected (03-consensus-state-machines.md).
Reject ==
  /\ Open
  /\ course # "brainstorm"
  /\ phase' = "rejected"
  /\ records' \in {records, records + 1}
  /\ UNCHANGED <<course, adopted>>

\* A brainstorm is completed without a decision.
Complete ==
  /\ phase = IF course = "brainstorm" THEN "discussing" ELSE "decided"
  /\ phase' = "completed"
  /\ UNCHANGED <<course, adopted, records>>

Next ==
  \/ Await
  \/ SendBack
  \/ \E p \in Proposal : Adopt(p)
  \/ Reject
  \/ Complete

Spec == Init /\ [][Next]_lifecycleVars
=============================================================================
