----------------------------- MODULE DataRequest -----------------------------
(***************************************************************************)
(* Consumer data on its way: the backend asks the gateway for a resource   *)
(* of a consent (ConsumerDataAccessMiddleware, UserInfoProxyMiddleware),   *)
(* the gateway forwards the request with the access token, the mock data   *)
(* holder checks token, scope and version and answers with one page, the   *)
(* gateway rewrites the links, and the backend follows them until it has   *)
(* read the list forwards or backwards.                                    *)
(*                                                                         *)
(* Both are evaluations with healing: first one that obtains an access     *)
(* token if the consent has none, then one whose validator forwards the    *)
(* request.  Every iteration of an evaluation begins with the entity that  *)
(* the evaluation was given, whatever an earlier one has saved.            *)
(*                                                                         *)
(* Other requests of the same consent are left to ConsentLog, and so are   *)
(* the dates; here a token is current or it is not.                        *)
(*                                                                         *)
(* The records of a list are numbered in the order of the list.            *)
(***************************************************************************)
EXTENDS Pagination, ResourceRoutes, FiniteSets

CONSTANTS
  Lengths,        \* how many records the lists have
  Since,          \* the records later than the oldest-time that is asked for
  ScopeChoices,   \* the sets of scopes that may be granted
  Openings,       \* the first requests of a walk: [index, account, query,
                  \* xv, xMinV, direction]
  LastIteration,  \* of the healing (MAXIMUM_HEALING_ITERATIONS)
  MaxFaults       \* bound: faults that an evaluation meets

(* A walk backwards from the end begins with one to it                     *)
Directions == {"none", "forward", "backward", "toEnd", "fromEnd"}
Filters == {"none", "since", "offset", "garbled"}
Versions == {"none", "1", "2"}   \* none is asked for; the one; another one
Requests ==
  [index : DOMAIN GatewayRoutes, account : {"consented", "unconsented", "unknown"},
   query : [page : Nat, size : Nat, filter : Filters],
   xv : Versions, xMinV : Versions, direction : Directions]

ASSUME OpeningsAssumption ==
  /\ Openings \subseteq Requests
  /\ \A req \in Openings : req.direction # "fromEnd"
ASSUME LengthsAssumption == Lengths \subseteq Nat
ASSUME LimitsAssumption == LastIteration \in Nat /\ MaxFaults \in Nat

VARIABLES
  total,     \* how many records the lists have
  window,    \* the transactions of the last 90 days
  granted,   \* consent.scopesJson of the data holder
  active,    \* the data holder has not withdrawn the consent
  row,       \* the gateway's consent in the database
  entity,    \* and as the Responder has loaded or obtained it
  step,      \* where the request is
  request,   \* what the backend asks for
  attempt,   \* [op, iteration, faults] of the evaluation for the request
  answer,    \* [route, records, links] of the data holder
  walk       \* [start, times]: how often the backend read each record

consent == <<total, granted, active>>
tokens == <<row, entity>>
vars == <<consent, window, tokens, step, request, attempt, answer, walk>>

Records == 1 .. total
NoAnswer == [route |-> 0, records |-> {}, links |-> <<>>]
NoAttempt == [op |-> "data", iteration |-> 0, faults |-> 0]
NoRequest == [index |-> 1, account |-> "consented",
              query |-> [page |-> 0, size |-> 0, filter |-> "none"],
              xv |-> "none", xMinV |-> "none", direction |-> "none"]
NeverRead == [r \in Records |-> 0]

-----------------------------------------------------------------------------
(* The gateway: which route takes a request, and what it forwards.         *)

Path(req) == Concrete(GatewayRoutes[req.index].path)
Method(req) == GatewayRoutes[req.index].method

GatewayTakes == [i \in DOMAIN GatewayRoutes |->
  FirstMatch(GatewayRoutes, GatewayRoutes[i].method,
             Concrete(GatewayRoutes[i].path))]
DhTakes == [i \in DOMAIN GatewayRoutes |->
  FirstMatch(DhRoutes, GatewayRoutes[i].method,
             Concrete(GatewayRoutes[i].forward))]

DhRoute(req) == DhRoutes[DhTakes[GatewayTakes[req.index]]]

(* The version the backend asks for, or the route's default                *)
ForwardedVersion(req) == IF req.xv = "none" THEN "1" ELSE req.xv

-----------------------------------------------------------------------------
(* A consent of the gateway: whether its access token is current, what its *)
(* refresh token is to the data holder, and whether it has been revoked.   *)
(* A refresh token is "current"; or it is "used", once the evaluation has  *)
(* obtained an access token with it, and the row has the next one; or it   *)
(* is "lost", when that reply was.                                         *)
RefreshTokens == {"none", "current", "used", "lost"}
ConsentType == [access : BOOLEAN, refresh : RefreshTokens, revoked : BOOLEAN]

Granted == [access |-> TRUE, refresh |-> "current", revoked |-> FALSE]
OnceOff == [Granted EXCEPT !.refresh = "none"]
NoEntity == [access |-> FALSE, refresh |-> "none", revoked |-> FALSE]

HasCurrentAccessToken(c) == ~c.revoked /\ c.access
HasCurrentRefreshToken(c) == ~c.revoked /\ c.refresh # "none"

(* RevokeConsent sets the entity and saves it, with the tokens it has      *)
Revoked(c) == [c EXCEPT !.revoked = TRUE]
Overwritten(c) == [Revoked(c) EXCEPT !.refresh = "lost"]

-----------------------------------------------------------------------------
(* The data holder.                                                        *)

(* It replaces the refresh token in every reply                            *)
Refreshes == active /\ entity.refresh = "current"

(* The token that a request is forwarded with is the one of the row: the   *)
(* entity's, or the one that its refresh has put there                     *)
TokenOk == active /\ row.access
ScopeOk(req) == DhRoute(req).scope \in granted

(* CDSVersionComplianceMiddleware; /userinfo has no versions               *)
VersionOk(req) ==
  \/ DhRoute(req).kind = "userinfo"
  \/ ForwardedVersion(req) = "1" /\ req.xMinV \in {"none", "1"}

Outcome(req) == DhRoute(req).account[req.account]

(* Transactions are those later than oldest-time; those of the window if   *)
(* there is none; all, if it is no valid time                              *)
Listed(req) ==
  IF DhRoute(req).kind # "transactions" THEN Records
  ELSE CASE req.query.filter = "none" -> window
         [] req.query.filter \in {"since", "offset"} -> Since \cap Records
         [] req.query.filter = "garbled" -> Records

Page(list, q) ==
  {r \in list : Cardinality({s \in list : s <= r})
                  \in Positions(q, Cardinality(list))}

Paginated(req) == DhRoute(req).kind \in {"list", "transactions"}

Answer(req) ==
  [route |-> DhTakes[GatewayTakes[req.index]],
   records |-> IF Paginated(req) THEN Page(Listed(req), req.query) ELSE {},
   links |-> IF Paginated(req)
             THEN Links(req.query, Cardinality(Listed(req)))
             ELSE IF DhRoute(req).kind = "object" THEN SelfLink(req.query)
             ELSE <<>>]

-----------------------------------------------------------------------------
(* A mistake the runs must notice: a link that is to ask for the window of *)
(* 90 days asks for everything                                             *)
WindowForgotten(q) == [q EXCEPT !.filter = IF @ = "none" THEN "garbled" ELSE @]

(* decodeURIComponent of the rewritten link: the + of a time zone is no    *)
(* longer escaped, and a space to whoever gets it in a query               *)
Decoded(q) == [q EXCEPT !.filter = IF @ = "offset" THEN "garbled" ELSE @]
Rewritten(links) == [name \in DOMAIN links |-> Decoded(links[name])]

NextLink(direction) ==
  CASE direction = "forward" -> "next"
    [] direction \in {"backward", "fromEnd"} -> "prev"
    [] direction = "toEnd" -> "last"
    [] direction = "none" -> "none"

CanFollow == NextLink(request.direction) \in DOMAIN answer.links

Steps == {"idle", "asked", "evaluate", "forwarded", "served", "failed",
          "answered", "refused", "hung"}

Open(req) ==
  /\ step = "idle"
  /\ request' = req
  /\ walk' = [start |-> req.query, times |-> NeverRead]
  /\ step' = "asked"
  /\ UNCHANGED <<consent, window, tokens, attempt, answer>>

-----------------------------------------------------------------------------
(* The Responder of the gateway loads the consent and looks at its tokens. *)
Authorise ==
  /\ step = "asked"
  /\ HasCurrentAccessToken(row) \/ HasCurrentRefreshToken(row)
  /\ entity' = row
  /\ attempt' = [attempt EXCEPT !.op =
       IF HasCurrentAccessToken(row) THEN "data" ELSE "token"]
  /\ step' = "evaluate"
  /\ UNCHANGED <<consent, window, row, request, answer, walk>>

(* 403 *)
Forbid ==
  /\ step = "asked"
  /\ ~HasCurrentAccessToken(row) /\ ~HasCurrentRefreshToken(row)
  /\ entity' = row
  /\ step' = "refused"
  /\ UNCHANGED <<consent, window, row, request, attempt, answer, walk>>

(* An iteration begins with ConsentCurrentAccessToken of the entity.       *)
WithAccessToken ==
  /\ step = "evaluate" /\ HasCurrentAccessToken(entity)
  /\ step' = "forwarded"
  /\ UNCHANGED <<consent, window, tokens, request, attempt, answer, walk>>

NeedsRefresh ==
  /\ step = "evaluate"
  /\ ~HasCurrentAccessToken(entity) /\ HasCurrentRefreshToken(entity)

(* The new tokens go into the row, and into the entity that the evaluation *)
(* returns: the Responder continues with it if the evaluation was for the  *)
(* tokens only.  The parameters of the evaluation keep the old entity.     *)
Refresh ==
  /\ NeedsRefresh /\ Refreshes
  /\ row' = Granted
  /\ \/ /\ attempt.op = "token"
        /\ entity' = row'
        /\ attempt' = NoAttempt
        /\ UNCHANGED step
     \/ /\ attempt.op = "data"
        /\ entity' = [entity EXCEPT !.refresh = "used"]
        /\ step' = "forwarded"
        /\ UNCHANGED attempt
  /\ UNCHANGED <<consent, window, request, answer, walk>>

(* The token endpoint refuses any other refresh token.  The introspection  *)
(* before it tells the gateway, which then revokes its entity; unless the  *)
(* first iteration still has an earlier result in its cache.               *)
RefreshDenied ==
  /\ NeedsRefresh /\ ~Refreshes
  /\ \/ /\ entity' = Revoked(entity)
        /\ row' = Overwritten(entity)
     \/ /\ attempt.iteration = 0
        /\ UNCHANGED tokens
  /\ step' = "failed"
  /\ UNCHANGED <<consent, window, request, attempt, answer, walk>>

(* No access token: the dependency's own validator fails                   *)
NoToken ==
  /\ step = "evaluate"
  /\ ~HasCurrentAccessToken(entity) /\ ~HasCurrentRefreshToken(entity)
  /\ step' = "failed"
  /\ UNCHANGED <<consent, window, tokens, request, attempt, answer, walk>>

-----------------------------------------------------------------------------
(* Faults on the way to a token.                                           *)

Fault ==
  /\ attempt.faults < MaxFaults
  /\ attempt' = [attempt EXCEPT !.faults = @ + 1]

(* A dependency fails before the token request has reached the data holder *)
EvaluationFails ==
  /\ step = "evaluate"
  /\ Fault
  /\ step' = "failed"
  /\ UNCHANGED <<consent, window, tokens, request, answer, walk>>

(* The reply to the token request is lost, or it cannot be saved; or it is *)
(* saved, and its access token has expired by then                         *)
RefreshLost ==
  /\ NeedsRefresh /\ Refreshes
  /\ Fault
  /\ entity' = [entity EXCEPT !.refresh = "lost"]
  /\ row' \in {[row EXCEPT !.refresh = "lost"], [Granted EXCEPT !.access = FALSE]}
  /\ step' = "failed"
  /\ UNCHANGED <<consent, window, request, answer, walk>>

-----------------------------------------------------------------------------
(* The data holder answers; 401, 403, 404, 406 and 422 are all failures to *)
(* the gateway's HTTP client.                                              *)

Admitted == TokenOk /\ ScopeOk(request) /\ VersionOk(request)

Serves ==
  /\ step = "forwarded" /\ Admitted /\ Outcome(request) = "served"
  /\ answer' = Answer(request)
  /\ step' = "served"
  /\ UNCHANGED <<consent, window, tokens, request, attempt, walk>>

Refuses ==
  /\ step = "forwarded"
  /\ ~Admitted \/ Outcome(request) \in {"403", "404", "422"}
  /\ step' = "failed"
  /\ UNCHANGED <<consent, window, tokens, request, attempt, answer, walk>>

(* The list handler is async and throws: no one answers, no one times out  *)
Hangs ==
  /\ step = "forwarded" /\ Admitted /\ Outcome(request) = "hangs"
  /\ step' = "hung"
  /\ UNCHANGED <<consent, window, tokens, request, attempt, answer, walk>>

(* The connection breaks, or the answer has the interaction id of another  *)
(* request                                                                 *)
AnswerLost ==
  /\ step = "served"
  /\ Fault
  /\ answer' = NoAnswer
  /\ step' = "failed"
  /\ UNCHANGED <<consent, window, tokens, request, walk>>

(* Mistakes the runs must notice: the first attempt is the only one, there *)
(* is one too many, and they are not counted                               *)
HealNever(iteration) == FALSE
HealOnceMore(iteration) == iteration <= LastIteration
SameIteration(iteration) == iteration

NextIteration(iteration) == iteration + 1
MayHeal(iteration) == iteration < LastIteration

(* The next iteration begins with the same entity                          *)
Heal ==
  /\ step = "failed" /\ MayHeal(attempt.iteration)
  /\ attempt' = [attempt EXCEPT !.iteration = NextIteration(@)]
  /\ step' = "evaluate"
  /\ UNCHANGED <<consent, window, tokens, request, answer, walk>>

(* 500 *)
GiveUp ==
  /\ step = "failed" /\ ~MayHeal(attempt.iteration)
  /\ step' = "refused"
  /\ UNCHANGED <<consent, window, tokens, request, attempt, answer, walk>>

Deliver ==
  /\ step = "served"
  /\ walk' = [walk EXCEPT !.times =
       [r \in Records |-> @[r] + (IF r \in answer.records THEN 1 ELSE 0)]]
  /\ answer' = [answer EXCEPT !.links = Rewritten(@)]
  /\ attempt' = NoAttempt
  /\ entity' = NoEntity
  /\ step' = "answered"
  /\ UNCHANGED <<consent, window, row, request>>

-----------------------------------------------------------------------------
(* The backend.                                                            *)

Ask(q, direction) ==
  /\ request' = [request EXCEPT !.query = q, !.direction = direction]
  /\ attempt' = NoAttempt
  /\ answer' = NoAnswer
  /\ entity' = NoEntity
  /\ step' = "asked"
  /\ UNCHANGED <<consent, window, row>>

Follow ==
  /\ step = "answered" /\ request.direction \in {"forward", "backward", "fromEnd"}
  /\ CanFollow
  /\ Ask(answer.links[NextLink(request.direction)], request.direction)
  /\ UNCHANGED walk

(* From the last page on, the walk goes backwards and counts               *)
FollowLast ==
  /\ step = "answered" /\ request.direction = "toEnd" /\ CanFollow
  /\ Ask(answer.links["last"], "fromEnd")
  /\ walk' = [start |-> answer.links["last"], times |-> NeverRead]

(* It has what it wanted, or it has been refused                           *)
Close ==
  /\ step \in {"answered", "refused"}
  /\ step = "answered" => ~CanFollow
  /\ step' = "idle"
  /\ request' = NoRequest
  /\ walk' = [start |-> NoRequest.query, times |-> NeverRead]
  /\ attempt' = NoAttempt
  /\ answer' = NoAnswer
  /\ entity' = NoEntity
  /\ window' = Records
  /\ UNCHANGED <<consent, row>>

-----------------------------------------------------------------------------
(* Time and the consumer.  Between two requests no one looks at the tokens *)
(* or the consent, what happens there may as well happen to the next one;  *)
(* and the next walk begins with all transactions, those that have become  *)
(* too old by then may do so at its beginning.                             *)

UnderWay == step \in {"asked", "evaluate", "forwarded", "served", "failed"}

(* A transaction gets older than 90 days.  The test data have no order of  *)
(* time, it may be any.                                                    *)
Ages(r) ==
  /\ step \notin {"idle", "hung"} /\ request.query.filter = "none"
  /\ Paginated(request) /\ DhRoute(request).kind = "transactions"
  /\ window' = window \ {r}
  /\ UNCHANGED <<consent, tokens, step, request, attempt, answer, walk>>

(* The access token runs out, in the row and in the entity; in the middle  *)
(* of an evaluation that is a fault too                                    *)
TokenExpires ==
  /\ UnderWay
  /\ row.access \/ entity.access
  /\ IF step = "asked" THEN UNCHANGED attempt ELSE Fault
  /\ row' = [row EXCEPT !.access = FALSE]
  /\ entity' = [entity EXCEPT !.access = FALSE]
  /\ UNCHANGED <<consent, window, step, request, answer, walk>>

Withdraw ==
  /\ UnderWay /\ active
  /\ active' = FALSE
  /\ UNCHANGED <<total, window, granted, tokens, step, request, attempt, answer,
                 walk>>

Init ==
  /\ total \in Lengths
  /\ window = Records
  /\ granted \in ScopeChoices
  /\ active = TRUE
  /\ row \in {Granted, OnceOff} /\ entity = NoEntity
  /\ step = "idle"
  /\ request = NoRequest
  /\ attempt = NoAttempt /\ answer = NoAnswer
  /\ walk = [start |-> NoRequest.query, times |-> NeverRead]

Gateway == Authorise \/ Forbid \/ WithAccessToken \/ Refresh \/ RefreshDenied
           \/ NoToken \/ Heal \/ GiveUp \/ Deliver
DataHolder == Serves \/ Refuses \/ Hangs
Backend == (\E req \in Openings : Open(req)) \/ Follow \/ FollowLast \/ Close

Next == \/ Gateway \/ DataHolder \/ Backend
        \/ EvaluationFails \/ RefreshLost \/ AnswerLost
        \/ TokenExpires \/ Withdraw
        \/ \E r \in window : Ages(r)

Spec == Init /\ [][Next]_vars
FairSpec == Spec /\ WF_vars(Gateway) /\ WF_vars(DataHolder)

-----------------------------------------------------------------------------
(* Every variable stays within its type; a backend reads a record at most  *)
(* as often as it asks for a page.                                         *)
TypeOK ==
  /\ total \in Lengths
  /\ window \subseteq Records
  /\ granted \in ScopeChoices
  /\ active \in BOOLEAN
  /\ row \in ConsentType /\ entity \in ConsentType /\ row.refresh # "used"
  /\ step \in Steps
  /\ request.index \in DOMAIN GatewayRoutes
  /\ attempt \in [op : {"token", "data"}, iteration : 0 .. LastIteration,
                 faults : 0 .. MaxFaults]
  /\ answer.route \in 0 .. Len(DhRoutes)
  /\ answer.records \subseteq Records
  /\ walk.times \in [Records -> Nat]

WalkEnds == step = "answered" /\ Paginated(request) /\ ~CanFollow
          /\ request.direction \in {"forward", "backward", "fromEnd"}

(* The list is the same for every page, and for every link                 *)
Steady == DhRoute(request).kind = "list" \/ request.query.filter = "since"

Position(r) == Cardinality({s \in Listed(request) : s <= r})
MustRead(r) ==
  /\ r \in Listed(request)
  /\ request.direction = "forward" => LowerLimit(walk.start) < Position(r)
  /\ request.direction = "backward" => Position(r) <= UpperLimit(walk.start)

(* The end-to-end tests read a list page by page through its links         *)
(* (DepaginateRequest): a walk that has followed "next" to the end has     *)
(* read each record from its first page on exactly once, one that followed *)
(* "prev" each one up to its first page, and one that went to "last" first *)
(* has read everything; whatever was lost and repeated on the way          *)
WalksReadEverything ==
  WalkEnds /\ Steady =>
    \A r \in Records : walk.times[r] = IF MustRead(r) THEN 1 ELSE 0

(* A walk over a list that does not change is a reader of that list; one   *)
(* that goes to "last" first is one from there on.                         *)
Reads ==
  /\ step # "idle" /\ Steady /\ Paginated(request)
  /\ request.direction \in {"forward", "backward", "fromEnd"}
Phase ==
  CASE ~Reads -> "idle"
    [] Reads /\ step = "refused" -> "given up"
    [] Reads /\ WalkEnds -> "done"
    [] OTHER -> IF request.direction = "forward" THEN "forwards" ELSE "backwards"
Unread == {r \in Records : Reads /\ MustRead(r) /\ walk.times[r] = 0}
Got == IF Reads THEN walk.times ELSE NeverRead

Reader == INSTANCE ListReader WITH
  size <- total, phase <- Phase, rest <- Unread, got <- Got

(* At every moment of a walk, and whatever is lost and asked for again,    *)
(* what the backend has got is without a gap what it was to get first, and *)
(* it is only told that there is no other page when nothing is left        *)
ReadsTheList == Reader!Spec

(* Even while transactions drop out of the list between two pages, a walk  *)
(* forwards never gets a transaction twice                                 *)
ReadOnce ==
  request.direction = "forward" /\ walk.start.filter \in {"none", "since"} =>
    \A r \in Records : walk.times[r] <= 1

(* Of the routes that match a path, the one that answers is the one the    *)
(* gateway's declaration meant: the data holder's handler of the resource  *)
(* to forward to, which asks for the scope that the gateway's route names  *)
ReachesItsResource ==
  answer.route # 0 =>
    LET offer == GatewayRoutes[request.index]
        taken == DhRoutes[answer.route]
    IN  /\ taken.path = offer.forward
        /\ taken.method = offer.method
        /\ taken.scope = offer.scope

(* The entity has no access token and cannot get one any more: a once-off  *)
(* consent; a reply that was lost, now or earlier; or a refresh token that *)
(* this evaluation has used, which took one fault, and needed again after  *)
(* a second one                                                            *)
OutOfTokens ==
  /\ ~entity.access
  /\ \/ entity.refresh \in {"none", "lost"}
     \/ entity.refresh = "used" /\ attempt.faults >= 2

(* A request that is refused is refused for a reason: as long as the       *)
(* consent is active and the request is one that the data holder serves,   *)
(* it fails only if every iteration met a fault of its own, or if the      *)
(* tokens have gone, for which a single fault is never enough              *)
(* unless it is the reply to a token request                               *)
HealsTransientFaults ==
  step = "refused" /\ active =>
    \/ ~ScopeOk(request) \/ ~VersionOk(request)
    \/ Outcome(request) # "served"
    \/ attempt.faults > LastIteration
    \/ OutOfTokens

(* The gateway answers every request, with the data or with an error,      *)
(* unless it is one that the data holder never answers                     *)
EveryRequestIsAnswered ==
  (step = "asked" /\ Outcome(request) # "hangs") ~> step \in {"answered", "refused"}
=============================================================================
