----------------------------- MODULE MCThreadPool -----------------------------
(* Instances of ThreadPool for TLC.                                        *)
EXTENDS ThreadPool, TLC

(* Workers only differ by name.                                            *)
WorkerSymmetry == Permutations(Workers)

=============================================================================
