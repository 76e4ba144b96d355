---------------------------- MODULE MCConsentLog ----------------------------
(***************************************************************************)
(* One consent that two requests and the housekeeper work on at once, over *)
(* a few ticks of the clock, or two consents of a data holder of which the *)
(* second is followed for one tick only.                                   *)
(***************************************************************************)
EXTENDS ConsentLog, TLC

CONSTANTS a1, a2, hk, d1

MCHandlers == {a1, a2}
MCDhOf == [c \in Consents |-> d1]
MCThreeTicks == [c \in Consents |-> 3]
MCFirstLonger == [c \in Consents |-> IF c = 1 THEN 2 ELSE 1]

Symmetry == Permutations(MCHandlers)
=============================================================================
