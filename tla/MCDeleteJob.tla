---------------------------- MODULE MCDeleteJob ----------------------------
(* Small instances of DeleteJob.                                            *)
EXTENDS DeleteJob, TLC

CONSTANTS c1, c2, j1, j2, r1, r2

MCComment == {c1, c2}
MCJob     == {j1, j2}
MCOneJob  == {j1}
MCRequest == {r1}
JobSymmetry == Permutations(MCComment) \cup Permutations(MCJob) \cup Permutations(MCRequest)
=============================================================================
