------------------------------ MODULE FeedLedger ------------------------------
(***************************************************************************)
(* What ingestion promises to the readers of the ledger: batches arrive    *)
(* whole, each once, and bring exactly the accepted transactions the       *)
(* ledger does not have yet; nothing is ever edited or taken away.  The    *)
(* concurrent, event by event FeedIngestion is shown to implement it.      *)
(***************************************************************************)
CONSTANTS
  Batches,       \* what a batch can be; a record with fields ref and run
  Rows,          \* what a transaction can be; a record with fields key and run
  Accepted(_)    \* the transaction references a batch has accepted

VARIABLES batches, transactions

RefsOf(S) == {b.ref : b \in S}
KeysOf(T) == {t.key : t \in T}
AcceptedBy(S) == UNION {Accepted(b) : b \in S}

OnePerRef(S) == \A b, c \in S : b.ref = c.ref => b = c
OnePerKey(T) == \A t, u \in T : t.key = u.key => t = u

Init == batches = {} /\ transactions = {}

\* The batches S and the transactions T may be delivered together: both new,
\* of one run, and T covers what S has accepted and the ledger lacks.
Deliverable(S, T) ==
  /\ S \subseteq Batches /\ T \subseteq Rows
  /\ OnePerRef(S) /\ RefsOf(S) \cap RefsOf(batches) = {}
  /\ OnePerKey(T) /\ KeysOf(T) = AcceptedBy(S) \ KeysOf(transactions)
  /\ \A b \in S, t \in T : b.run = t.run

\* A delivery (stated of the primed variables so that no set of possible
\* deliveries has to be named).
Next ==
  /\ batches \subseteq batches' /\ transactions \subseteq transactions'
  /\ Deliverable(batches' \ batches, transactions' \ transactions)

Spec == Init /\ [][Next]_<<batches, transactions>>
=============================================================================
