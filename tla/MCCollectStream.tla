-------------------------- MODULE MCCollectStream --------------------------
(* Small instances of CollectStream: a page follows the job, another all jobs. *)
EXTENDS CollectStream

CONSTANTS e1, e2, page, board

MCPost       == {e1, e2}
MCClient     == {page, board}
MCEverything == {board}
=============================================================================
