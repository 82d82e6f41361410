------------------------- MODULE MCConditionalRules -------------------------
(* Two connections that edit two rules over one destination.               *)
EXTENDS ConditionalRules

CONSTANTS r1, r2, d1, c1, c2, loop, nobody
=============================================================================
