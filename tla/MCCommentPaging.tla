--------------------------- MODULE MCCommentPaging ---------------------------
(* Small instances of CommentPaging. The ids of the comments grow with their *)
(* times, so that no two instances differ by a renaming of comments only.    *)
EXTENDS CommentPaging

MCComment4 == 1..4
MCTimes3 == 0..2
=============================================================================
