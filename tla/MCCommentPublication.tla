------------------------- MODULE MCCommentPublication -------------------------
(* CommentPublication for TLC: two requests for one comment.                *)
EXTENDS CommentPublication

CONSTANTS q1, q2

MCRequests == {q1, q2}
MCKinds == {"user", "ai"}
=============================================================================
