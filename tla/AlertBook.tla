------------------------------ MODULE AlertBook ------------------------------
(***************************************************************************)
(* What publication promises to the readers of table alerts: a growing     *)
(* book of alerts, never edited nor withdrawn (migration 004), with one    *)
(* active alert for a deduplication key, to which each publication adds    *)
(* the alerts of one simulation run all at once.  AlertPublication, with   *)
(* its concurrent publishers, is shown to implement it.                    *)
(***************************************************************************)
CONSTANTS
  Alerts,     \* what an alert can be; a record with a field key
  RunOf(_)    \* the run a deduplication key is scoped to

VARIABLE book

KeysOf(S) == {a.key : a \in S}

OnePerKey(S) == \A a, b \in S : a.key = b.key => a = b

Init == book = {}

\* S may be published: one alert per key, no key of the book, a single run.
Publishable(S) ==
  /\ S \subseteq Alerts
  /\ OnePerKey(S)
  /\ KeysOf(S) \cap KeysOf(book) = {}
  /\ \A a, b \in S : RunOf(a.key) = RunOf(b.key)

\* A publication adds to the book (stated of book' so that no set of
\* possible publications has to be named).
Next ==
  /\ book \subseteq book'
  /\ Publishable(book' \ book)

Spec == Init /\ [][Next]_book
=============================================================================
