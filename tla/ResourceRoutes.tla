--------------------------- MODULE ResourceRoutes ---------------------------
(***************************************************************************)
(* The routes for consumer data: those the gateway offers to the backend,  *)
(* under /cdr/consents/:consentId, and those of the data holder to which   *)
(* it forwards.  Express tries the routes in the order in which they are   *)
(* declared and takes the first that matches, so that a parameter may      *)
(* swallow the literal of a route declared after it.                       *)
(***************************************************************************)
EXTENDS Integers, Sequences

Param == ":"   \* a parameter of a path

Accounts == <<"accounts">>
Account == <<"accounts", Param>>
ScheduledPayments == <<"payments", "scheduled">>
Customer == <<"customer">>
Basic == "bank:accounts.basic:read"
RegularPayments == "bank:regular_payments:read"

(* scope: the one the gateway's route names (it is not used there)         *)
Offer(method, path, forward, scope) ==
  [method |-> method, path |-> path, forward |-> forward, scope |-> scope]
Same(method, path, scope) == Offer(method, path, path, scope)

GatewayRoutes == <<
  Same("GET", Accounts, Basic),
  Same("GET", Accounts \o <<"balances">>, Basic),
  Same("POST", Accounts \o <<"balances">>, Basic),
  Same("GET", Accounts \o <<"direct-debits">>, RegularPayments),
  Same("POST", Accounts \o <<"direct-debits">>, RegularPayments),
  Same("GET", Account \o <<"direct-debits">>, RegularPayments),
  Same("GET", Account \o <<"balance">>, Basic),
  Same("GET", Account, "bank:accounts.detail:read"),
  Same("GET", Account \o <<"transactions">>, "bank:transactions:read"),
  Same("GET", Account \o <<"transactions", Param>>, "bank:transactions:read"),
  Same("GET", Account \o ScheduledPayments, RegularPayments),
  Same("GET", ScheduledPayments, RegularPayments),
  Same("POST", ScheduledPayments, RegularPayments),
  Same("GET", <<"payees">>, "bank:payees:read"),
  Same("GET", <<"payees", Param>>, "bank:payees:read"),
  Offer("GET", <<"consumerInfo">>, Customer, "common:customer.basic:read"),
  Offer("GET", <<"consumerInfo", "detail">>, Customer \o <<"detail">>,
        "common:customer.detail:read"),
  Offer("GET", <<"userInfo">>, <<"userinfo">>, "openid") >>

(* What becomes of a request for an account that is not consented or does  *)
(* not exist: it is served, it is refused with a status, or its handler    *)
(* throws what MockDataArray throws on, and nothing is ever answered       *)
Serve(method, path, scope, kind, unconsented, unknown) ==
  [method |-> method, path |-> path, scope |-> scope, kind |-> kind,
   account |-> [consented |-> "served", unconsented |-> unconsented,
                unknown |-> unknown]]
ServeAll(method, path, scope, kind) ==
  Serve(method, path, scope, kind, "served", "served")

AccountRoutes == <<
  ServeAll("GET", Accounts, Basic, "list"),
  ServeAll("GET", Accounts \o <<"balances">>, Basic, "list"),
  Serve("POST", Accounts \o <<"balances">>, Basic, "list", "served", "422"),
  ServeAll("GET", Accounts \o <<"direct-debits">>, RegularPayments, "list"),
  ServeAll("POST", Accounts \o <<"direct-debits">>, RegularPayments, "list"),
  Serve("GET", Account \o <<"direct-debits">>, RegularPayments, "list",
        "hangs", "hangs"),
  Serve("GET", Account \o <<"balance">>, Basic, "object", "403", "404"),
  Serve("GET", Account, "bank:accounts.detail:read", "object", "served", "404") >>

CustomerRoutes == <<
  ServeAll("GET", Customer, "common:customer.basic:read", "object"),
  ServeAll("GET", Customer \o <<"detail">>, "common:customer.detail:read",
           "object") >>

TransactionRoutes == <<
  Serve("GET", Account \o <<"transactions">>, "bank:transactions:read",
        "transactions", "served", "403"),
  Serve("GET", Account \o <<"transactions", Param>>, "bank:transactions:read",
        "object", "served", "403"),
  ServeAll("GET", ScheduledPayments, RegularPayments, "list"),
  ServeAll("POST", ScheduledPayments, RegularPayments, "list"),
  Serve("GET", Account \o ScheduledPayments, RegularPayments, "list",
        "hangs", "hangs"),
  ServeAll("GET", <<"payees">>, "bank:payees:read", "list"),
  Serve("GET", <<"payees", Param>>, "bank:payees:read", "object", "served",
        "hangs"),
  ServeAll("GET", <<"userinfo">>, "openid", "userinfo") >>

DhRoutes == AccountRoutes \o CustomerRoutes \o TransactionRoutes

-----------------------------------------------------------------------------
(* A path that a request may have: the parameters have a value             *)
Concrete(path) == [i \in DOMAIN path |-> IF path[i] = Param THEN "id" ELSE path[i]]

Matches(route, method, path) ==
  /\ route.method = method
  /\ Len(route.path) = Len(path)
  /\ \A i \in DOMAIN path : route.path[i] \in {path[i], Param}

(* A mistake the runs must notice: the last route that matches             *)
LastMatch(routes, method, path) ==
  CHOOSE i \in DOMAIN routes :
    /\ Matches(routes[i], method, path)
    /\ \A j \in DOMAIN routes : j > i => ~Matches(routes[j], method, path)

FirstMatch(routes, method, path) ==
  CHOOSE i \in DOMAIN routes :
    /\ Matches(routes[i], method, path)
    /\ \A j \in 1 .. i - 1 : ~Matches(routes[j], method, path)
=============================================================================
