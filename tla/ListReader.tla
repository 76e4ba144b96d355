----------------------------- MODULE ListReader -----------------------------
(***************************************************************************)
(* What whoever reads a list through its pages is promised, whatever is    *)
(* lost, repeated, refreshed and healed on the way: the records come in    *)
(* the order of the list, or in the opposite one, none is left out and     *)
(* none comes twice, so that a reader who gives up has got the first ones; *)
(* and whoever is told that this was the last page has got all.            *)
(***************************************************************************)
EXTENDS Integers

VARIABLES
  size,    \* the records are 1 .. size, in the order of the list
  phase,   \* what the reader is doing
  rest,    \* the records it is still to get
  got      \* how often it has got each record

Phases == {"idle", "forwards", "backwards", "done", "given up"}
Reading == phase \in {"forwards", "backwards"}
Records == 1 .. size
Nothing == [r \in Records |-> 0]

Init ==
  /\ size \in Nat
  /\ phase = "idle"
  /\ rest = {} /\ got = Nothing

(* It sets out for some of the records.                                    *)
Begin ==
  /\ phase = "idle"
  /\ phase' \in {"forwards", "backwards"}
  /\ rest' \in SUBSET Records
  /\ UNCHANGED <<size, got>>

Before(r, s) == IF phase = "forwards" THEN r < s ELSE s < r

(* It gets the next ones, as many as there are on the page, even none.     *)
Take(page) ==
  /\ Reading
  /\ \A r \in page, s \in rest \ page : Before(r, s)
  /\ rest' = rest \ page
  /\ got' = [r \in Records |-> got[r] + (IF r \in page THEN 1 ELSE 0)]
  /\ \/ phase' = phase
     \/ phase' = "done" /\ rest' = {}
  /\ UNCHANGED size

GiveUp ==
  /\ Reading
  /\ phase' = "given up"
  /\ UNCHANGED <<size, rest, got>>

Close ==
  /\ phase \in {"done", "given up"}
  /\ phase' = "idle"
  /\ rest' = {} /\ got' = Nothing
  /\ UNCHANGED size

Next == Begin \/ (\E page \in SUBSET rest : Take(page)) \/ GiveUp \/ Close

Spec == Init /\ [][Next]_<<size, phase, rest, got>>
=============================================================================
