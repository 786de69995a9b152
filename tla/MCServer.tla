------------------------------- MODULE MCServer --------------------------------
(* Values for the constants of Server, for model checking.                 *)
EXTENDS Server, TLC

CONSTANTS c1, c2, c3, alice, bob

(* What the clients are called.                                            *)
TwoNames == c1 :> alice @@ c2 :> bob
OneName == c1 :> alice @@ c2 :> alice
ThreeAlike == OneName @@ c3 :> alice

(* How much each of them sends.                                            *)
TwoEach == c1 :> 2 @@ c2 :> 2
TwoOneNone == c1 :> 2 @@ c2 :> 1 @@ c3 :> 0

(* The workers only differ by name.                                        *)
WorkerSymmetry == Permutations(Workers)

=============================================================================
