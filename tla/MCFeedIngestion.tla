---------------------------- MODULE MCFeedIngestion ----------------------------
(***************************************************************************)
(* Instances of FeedIngestion for TLC: a run loaded from a dataset and a   *)
(* run created from the same seed, with two generated batches, the first   *)
(* of which a fault corrupts; and feeds that bring the same two            *)
(* transactions in opposite orders, duplicated, rejected or unreadable.    *)
(***************************************************************************)
EXTENDS FeedIngestion, TLC

CONSTANTS run1, run2,           \* runs
          seed, feed1, feed2,   \* where batches come from
          malformed,            \* a fault
          k1, k2,               \* transactions
          e1, e2, e3            \* events

MCSeedOf == [run \in Runs |-> seed]

Ev(ref, key, form) == [ref |-> ref, key |-> key, form |-> form]

\* One provider's transaction with its balance, and another provider's
\* transaction; the fault corrupts the first.
MCGenerated ==
  seed :> [enabled \in SUBSET Faults |->
    <<[index |-> 1, events |->
         <<Ev(e1, k1, IF malformed \in enabled THEN "rejected" ELSE "valid"),
           Ev(e2, None, "valid")>>],
      [index |-> 2, events |-> <<Ev(e1, k2, "valid")>>]>>]

FeedRef(feed) == [source |-> feed, index |-> 0, suffix |-> None]
Ingest(run, feed, events) ==
  [kind |-> "ingest", run |-> run, delivery |-> [ref |-> FeedRef(feed), events |-> events]]
Create(run) == [kind |-> "create", run |-> run, delivery |-> None]
Reset(run) == [kind |-> "reset", run |-> run, delivery |-> None]

\* The transactions of the runs against the generated order, one of them twice.
Backwards == <<Ev(e1, k2, "valid"), Ev(e2, k1, "valid"), Ev(e1, k2, "valid")>>
\* In that order, with an event that is rejected.
Forwards == <<Ev(e1, k1, "valid"), Ev(e2, k2, "rejected"), Ev(e3, k2, "valid")>>
\* Nothing but a rejected event, sent twice.
Useless == <<Ev(e1, k1, "rejected"), Ev(e1, k1, "rejected")>>
\* A batch that an exception cuts off.
Unreadable == <<Ev(e1, k1, "valid"), Ev(e2, k2, "raises")>>

\* Creation and resets of two runs of one seed, one of them created while the
\* others are under way, and feeds for the run that exists and for the other.
IngestMenu ==
  {Create(run2), Reset(run1), Reset(run2),
   Ingest(run1, feed1, Backwards), Ingest(run1, feed2, Forwards),
   Ingest(run1, feed2, Unreadable), Ingest(run2, feed2, Useless)}

\* Runs only.
RunMenu == {Create(run2), Reset(run1), Reset(run2)}
Symm == Permutations(Requests)
=============================================================================
