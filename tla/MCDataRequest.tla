--------------------------- MODULE MCDataRequest ---------------------------
(***************************************************************************)
(* Lists shorter and longer than a page, and of exactly two pages.         *)
(***************************************************************************)
EXTENDS DataRequest

MCLengths == {0, 3, 4}
MCSince == {1, 3, 4}
AllScopes == {GatewayRoutes[i].scope : i \in DOMAIN GatewayRoutes}
MCScopeChoices == {AllScopes, {Basic, "openid"}}

Query(page, size, filter) == [page |-> page, size |-> size, filter |-> filter]
Opening(index, account, query, xv, xMinV, direction) ==
  [index |-> index, account |-> account, query |-> query, xv |-> xv,
   xMinV |-> xMinV, direction |-> direction]

PaginatedRoutes == {i \in DOMAIN GatewayRoutes :
                      DhRoutes[DhTakes[i]].kind \in {"list", "transactions"}}
OtherRoutes == DOMAIN GatewayRoutes \ PaginatedRoutes
TransactionsRoute == {i \in DOMAIN GatewayRoutes :
                        DhRoutes[DhTakes[i]].kind = "transactions"}

(* One list and the transactions are walked through in every way           *)
Walks ==
  {Opening(i, "consented", Query(page, size, filter), "none", "none", direction) :
     i \in TransactionsRoute, page \in {0, 2}, size \in {0, 1},
     filter \in {"none", "since", "offset"},
     direction \in {"forward", "backward", "toEnd"}}
  \cup
  {Opening(12, "consented", Query(page, size, "none"), "none", "none", direction) :
     page \in {0, 2, 5}, size \in {0, 1, 3},
     direction \in {"forward", "backward", "toEnd"}}

(* Every route once, the accounts with which it does not answer, and every *)
(* version                                                                 *)
Visit(i, account, xv, xMinV) ==
  Opening(i, account, Query(0, 0, "none"), xv, xMinV, "none")
Visits ==
  {Visit(i, "consented", "none", "none") : i \in DOMAIN GatewayRoutes}
  \cup
  {Visit(v[1], v[2], "none", "none") :
     v \in {w \in (DOMAIN GatewayRoutes) \X {"unconsented", "unknown"} :
             DhRoutes[DhTakes[w[1]]].account[w[2]] # "served"}}
  \cup
  {Visit(i, "consented", xv, xMinV) :
     i \in {1, 8, 18}, xv \in {"1", "2"}, xMinV \in {"none", "1", "2"}}

MCOpenings == Walks \cup Visits
=============================================================================
