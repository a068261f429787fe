-------------------------- MODULE MCAccountAnalysis --------------------------
(***************************************************************************)
(* Instances of AccountAnalysis for TLC.  The rules keep their windows and *)
(* tolerances; how many transactions a pattern takes is scaled down to the *)
(* few trades of the instance.                                             *)
(***************************************************************************)
EXTENDS AccountAnalysis

MCClusterRule == [window |-> 15, tolerance |-> 2, minimum |-> 2]
MCVelocityRule == [window |-> 10, deviations |-> 1, windows |-> 1, minimum |-> 2]
MCBalanceRule == [amount |-> 100, permille |-> 5]
MCBehavioralRule == [window |-> 60, history |-> 1]

\* Two amounts within the tolerance of each other, minutes apart, and one beyond
\* both, hours later.
MCTrades ==
  {[kind |-> "cash_out", amount |-> 500, after |-> 7],
   [kind |-> "cash_out", amount |-> 510, after |-> 10],
   [kind |-> "cash_in", amount |-> 800, after |-> 170]}
=============================================================================
