---------------------------- MODULE MCDeployment ----------------------------
(***************************************************************************)
(* Instances of Deployment for TLC: the migrate container, and an operator *)
(* who migrates and seeds by hand.                                         *)
(***************************************************************************)
EXTENDS Deployment, TLC

CONSTANTS migrate, byHand,  \* commands
          outlet1, user1

MCScript ==
  [c \in Commands |->
     IF c = byHand THEN <<"apply", "status", "seed">> ELSE FullScript]

MCOutletOf == [c \in Commands |-> outlet1]

MCMaxStarts == [c \in Commands |-> IF c = byHand THEN 1 ELSE 2]
MCMaxCalls == [u \in Users |-> 1]

MCNeededBy == "seed" :> 1 @@ "corpus" :> LastVersion @@ "bootstrap" :> LastVersion
=============================================================================
