----------------------------- MODULE Pagination -----------------------------
(***************************************************************************)
(* PaginationMiddleware.Paginate: one page of a list, and the links that   *)
(* lead from it to the others.                                             *)
(*                                                                         *)
(* A query has a page and a page size, each 0 if it is absent or not a     *)
(* positive integer (matchedData leaves such a parameter out), and the     *)
(* value of the one other parameter that the properties tell apart.        *)
(***************************************************************************)
EXTENDS Integers, Sequences

CONSTANT DefaultPageSize   \* 25

ASSUME PageSizeAssumption == DefaultPageSize \in Nat \ {0}

PageNumber(q) == IF q.page = 0 THEN 1 ELSE q.page
PageSize(q) == IF q.size = 0 THEN DefaultPageSize ELSE q.size

LowerLimit(q) == (PageNumber(q) - 1) * PageSize(q)
UpperLimit(q) == PageNumber(q) * PageSize(q)

(* A mistake the runs must notice: a part of a page does not count         *)
FullPagesOnly(q, n) == n \div PageSize(q)

(* Another: a page begins with the last record of the one before it        *)
FromLast(q, n) == {i \in 1 .. n : LowerLimit(q) <= i /\ i <= UpperLimit(q)}

(* The positions, from 1, of the records of the page                       *)
Positions(q, n) == {i \in 1 .. n : LowerLimit(q) < i /\ i <= UpperLimit(q)}

TotalPages(q, n) == (n + PageSize(q) - 1) \div PageSize(q)
LastPage(q, n) == IF TotalPages(q, n) = 0 THEN 1 ELSE TotalPages(q, n)

(* metaUrl: the other parameters stay, both parameters of the page are     *)
(* written out                                                             *)
MetaUrl(q, page) == [q EXCEPT !.page = page, !.size = PageSize(q)]

(* The pages that the links of a page lead to                              *)
LinkedPage(q, n) ==
  [first |-> 1, self |-> PageNumber(q), last |-> LastPage(q, n),
   prev |-> PageNumber(q) - 1, next |-> PageNumber(q) + 1]
LinkNames(q, n) ==
  {"first", "self", "last"}
  \cup (IF PageNumber(q) > 1 THEN {"prev"} ELSE {})
  \cup (IF PageNumber(q) < LastPage(q, n) THEN {"next"} ELSE {})

Links(q, n) == [name \in LinkNames(q, n) |-> MetaUrl(q, LinkedPage(q, n)[name])]

(* MetaWrap: what is not a list has only the link to itself                *)
SelfLink(q) == [self |-> [q EXCEPT !.page = 0, !.size = 0]]
=============================================================================
