------------------------------ MODULE MCHashMap -------------------------------
(* Values for the constants of HashMap, for model checking.                *)
EXTENDS HashMap, TLC

CONSTANTS k1, k2, k3, k4, e1, e2, e3

(* In a table of 4 that doubles, these names fill a table to its half,     *)
(* fill the chain of one in a table of 8, and again in one of 16 while its *)
(* names are being moved.                                                  *)
Colliding == k1 :> 23 @@ k2 :> 7 @@ k3 :> 8 @@ k4 :> 16
(* The second name may be registered with either of two elements.          *)
TwoForOne == k1 :> {e1} @@ k2 :> {e2, e3} @@ k3 :> {e1} @@ k4 :> {e1}

TwoAlike == k1 :> 3 @@ k2 :> 7
OneEach == k1 :> {e1} @@ k2 :> {e1}

=============================================================================
