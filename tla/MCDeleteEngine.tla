--------------------------- MODULE MCDeleteEngine ---------------------------
(* A small instance of DeleteEngine: c2 is a reply to c1.                   *)
EXTENDS DeleteEngine, TLC

CONSTANTS c1, c2, c3, w1, w2

MCComment == {c1, c2, c3}
MCWorker  == {w1, w2}
MCReplies == c1 :> {c2} @@ c2 :> {} @@ c3 :> {}
=============================================================================
