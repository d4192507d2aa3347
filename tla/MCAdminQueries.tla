--------------------------- MODULE MCAdminQueries ---------------------------
(* AdminQueries for TLC: the calls are interchangeable, and so are users.  *)
EXTENDS AdminQueries, TLC

MCSymmetry == Permutations(Calls) \cup Permutations(Users)
=============================================================================
