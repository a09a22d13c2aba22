----------------------------- MODULE MCStores -----------------------------
(* The three small stores beside the comments: the backup directory, the    *)
(* targets file and the session. They share no state; a behaviour of this    *)
(* instance is a behaviour of one of them while the two others rest.         *)
EXTENDS BackupFiles, TargetsFile, SessionAuth, TLC

CONSTANTS x1, x2, x3, rowA, rowB, s1, p1, p2, k1, k2, cA, cB, cBad

MCExport == {x1, x2, x3}
MCRow    == {rowA, rowB}
MCKnown  == {rowA}
MCStamp  == {s1}
MCPost   == {p1, p2}
MCCaller == {k1, k2}
MCCookie == {cA, cB, cBad}
MCUnsendable == {cBad}

StoresSymmetry == Permutations(MCExport) \cup Permutations(MCCaller)

VARIABLE focus

Init ==
    /\ BackupInit /\ TargetsInit /\ SessionInit
    /\ focus \in {"backups", "targets", "session"}

Next ==
    /\ UNCHANGED focus
    /\ \/ focus = "backups" /\ BackupNext /\ UNCHANGED <<targetVars, sessionVars>>
       \/ focus = "targets" /\ TargetsNext /\ UNCHANGED <<backupVars, sessionVars>>
       \/ focus = "session" /\ SessionNext /\ UNCHANGED <<backupVars, targetVars>>

Spec == Init /\ [][Next]_<<backupVars, targetVars, sessionVars, focus>>
=============================================================================
