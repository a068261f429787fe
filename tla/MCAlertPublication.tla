-------------------------- MODULE MCAlertPublication --------------------------
(***************************************************************************)
(* Instances of AlertPublication for TLC: two outlets, each with shared    *)
(* cash and an account of the same provider, the first under two detectors *)
(* and the second under one of them, and ledgers on which the engines      *)
(* change their minds.  A run holds rows of several outlets when it was    *)
(* loaded from a dataset (scripts/load_moderate_dataset.py).               *)
(***************************************************************************)
EXTENDS AlertPublication, Sequences, TLC

CONSTANTS run1, run2, outlet1, outlet2,
          cash1, bkash1, cash2, bkash2,   \* reserves
          velocity1, amounts1, velocity2, \* detectors on the bkash accounts
          cash, velocity, amounts         \* what the replay looks them up by

MCPosition ==
  cash1 :> 1 @@ bkash1 :> 2 @@ cash2 :> 3 @@ bkash2 :> 4
    @@ velocity1 :> 5 @@ amounts1 :> 6 @@ velocity2 :> 7
MCOutletOf ==
  [s \in {cash1, bkash1, cash2, bkash2, velocity1, amounts1, velocity2} |->
     IF s \in {cash2, bkash2, velocity2} THEN outlet2 ELSE outlet1]
MCLookupOf ==
  [s \in {cash1, bkash1, cash2, bkash2, velocity1, amounts1, velocity2} |->
     CASE s \in {cash1, cash2} -> cash
       [] s \in {velocity1, velocity2} -> velocity
       [] s = amounts1 -> amounts
       [] OTHER -> s]

\* A late batch may leave the newest timestamp where it was.
MCWindowEnd == SubSeq(
  <<(outlet1 :> 1 @@ outlet2 :> 1), (outlet1 :> 2 @@ outlet2 :> 1)>>, 1, MaxLedger)

\* bkash1 runs short throughout, velocity2 fires throughout; what else there is
\* changes as the ledger grows.  The accounts of outlet2 do not change: their rows
\* come with the dataset the run was loaded from, and only cash snapshots reach
\* an outlet other than the default one afterwards.
MCVerdict == SubSeq(
  <<(cash1 :> "quiet" @@ bkash1 :> "alert" @@ cash2 :> "quiet" @@ bkash2 :> "quiet"
       @@ velocity1 :> "quiet" @@ amounts1 :> "suppressed" @@ velocity2 :> "alert"),
    (cash1 :> "alert" @@ bkash1 :> "alert" @@ cash2 :> "quiet" @@ bkash2 :> "quiet"
       @@ velocity1 :> "quiet" @@ amounts1 :> "alert" @@ velocity2 :> "alert")>>, 1, MaxLedger)

\* A ledger that is read once and does not change.
FrozenVerdict == SubSeq(
  <<(cash1 :> "quiet" @@ bkash1 :> "alert" @@ cash2 :> "quiet" @@ bkash2 :> "alert"
       @@ velocity1 :> "alert" @@ amounts1 :> "suppressed" @@ velocity2 :> "quiet")>>,
  1, MaxLedger)

CallFor(kind, run, outlet) == [kind |-> kind, run |-> run, outlet |-> outlet]

\* Publications of two runs, and the dashboard's analytics calls for one.
FrozenMenu ==
  {CallFor("publish", run1, outlet1), CallFor("publish", run2, outlet1),
   CallFor("liquidity", run1, outlet1), CallFor("anomaly", run1, outlet1)}

\* Publications for both outlets of a run that goes on growing, and an
\* analytics call that may complete the first cycle of one engine alone.
GrowingMenu ==
  {CallFor("publish", run1, outlet1), CallFor("publish", run1, outlet2),
   CallFor("anomaly", run1, outlet1)}

\* One run and one outlet.
PublishMenu == {CallFor("publish", run1, outlet1)}

Symm == Permutations(Requests)
=============================================================================
