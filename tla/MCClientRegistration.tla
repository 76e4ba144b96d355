------------------------ MODULE MCClientRegistration ------------------------
(***************************************************************************)
(* The housekeeper and requests of the backend, each in its own process.   *)
(***************************************************************************)
EXTENDS ClientRegistration

CONSTANTS a1, hk, gateway, keeper

MCProcessOf ==
  [e \in Evaluations |-> IF e = Housekeeper THEN keeper ELSE gateway]
=============================================================================
