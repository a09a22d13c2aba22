--------------------------- MODULE MCDeleteVerify ---------------------------
(* Small instances of DeleteVerify: two comments in each of two posts.      *)
EXTENDS DeleteVerify, TLC

CONSTANTS e1, e2, c1, c2, c3, c4
MCEntry == {e1, e2}
MCComment == {c1, c2, c3, c4}
MCEntryOf == c1 :> e1 @@ c2 :> e1 @@ c3 :> e2 @@ c4 :> e2
=============================================================================
