----------------------------- MODULE MCAlwaysOn -----------------------------
(* One definition of one user: its window and its command line at work.    *)
EXTENDS AlwaysOn

CONSTANTS c1, c2, d1
=============================================================================
