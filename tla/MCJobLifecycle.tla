--------------------------- MODULE MCJobLifecycle ---------------------------
(* Small instances of JobLifecycle.                                         *)
EXTENDS JobLifecycle, TLC

CONSTANTS j1, j2, r1, r2, t1, t2

MCJob     == {j1, j2}
MCOneJob  == {j1}
MCRequest == {r1, r2}
MCTask    == {t1, t2}
LifecycleSymmetry ==
    Permutations(MCJob) \cup Permutations(MCRequest) \cup Permutations(MCTask)
DeleteAndDiscover == {"delete", "discover"}
DeleteAndCollect == {"delete", "collect"}
=============================================================================
