--------------------------- MODULE MCArrangements ---------------------------
(***************************************************************************)
(* Two consent requests, which may share a state, and two consents at the  *)
(* data holder: one request followed twice, two requests, or a request     *)
(* and the amendment of its arrangement.                                   *)
(***************************************************************************)
EXTENDS Arrangements

CONSTANTS s1, s2, a1, a2

MCStates == {s1, s2}
\* which of two states comes first makes no difference
MCStatesFor == [r \in {1, 2} |-> IF r = 1 THEN {s1} ELSE {s1, s2}]

MCHandlers == {a1, a2}
=============================================================================
