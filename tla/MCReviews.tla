------------------------------ MODULE MCReviews -----------------------------
(* One job, which had its healing enabled today; two reviews of it.          *)
EXTENDS Reviews

CONSTANT a
=============================================================================
