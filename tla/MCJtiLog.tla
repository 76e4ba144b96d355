----------------------------- MODULE MCJtiLog -------------------------------
(***************************************************************************)
(* Four requests, two assertions: every way of sharing an assertion among  *)
(* up to four requests, in every interleaving of inserts and searches.     *)
(***************************************************************************)
EXTENDS JtiLog, TLC

CONSTANTS r1, r2, r3, r4, c1, c2

MCRequests == {r1, r2, r3, r4}
MCClaims == {c1, c2}
=============================================================================
