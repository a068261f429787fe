---------------------------- MODULE MCDashboard ----------------------------
(***************************************************************************)
(* The dashboard of an outlet with two providers, a long run, a short one  *)
(* started while the long one is fed.                                      *)
(***************************************************************************)
EXTENDS Dashboard

CONSTANTS long, short,     \* members of Runs
          bkash, nagad,    \* providers
          worker, other    \* members of Callers

MCOrder == <<bkash, nagad>>

Of(reserve, at, balance) == [reserve |-> reserve, at |-> at, balance |-> balance]
FeedLess(provider, rejected, feedRows) ==
  [provider |-> provider, accepted |-> Cardinality(feedRows), rejected |-> rejected,
   rows |-> feedRows]
Feed(provider, feedRows) == FeedLess(provider, 0, feedRows)
Call(kind, run, by, feeds) == [kind |-> kind, run |-> run, by |-> by, batches |-> feeds]

\* The cash travels in batches of bkash.
MCCalls ==
  {Call("create", long, worker,
        <<Feed(bkash, {Of(Cash, 0, 900)}),
          Feed(bkash, {Of(bkash, 0, 50), Of(bkash, 300, 40), Of(bkash, 300, None)}),
          Feed(nagad, {Of(nagad, 0, 30)})>>),
   \* Nothing of nagad, a bkash feed that contradicts itself, and cash after it.
   Call("create", short, worker,
        <<Feed(bkash, {Of(bkash, 20, 70), Of(bkash, 30, 60), Of(bkash, 30, 65)}),
          Feed(bkash, {Of(Cash, 40, 800)})>>),
   \* A delivery that contradicts the feed of bkash and repeats that of nagad.
   Call("add", long, worker,
        <<Feed(bkash, {Of(bkash, 300, 45)}),
          FeedLess(nagad, 1, {Of(nagad, 0, 30)})>>),
   Call("liquidity", long, worker, <<>>), Call("liquidity", short, worker, <<>>),
   Call("liquidity", short, other, <<>>)}
=============================================================================
