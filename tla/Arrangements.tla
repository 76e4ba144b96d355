---------------------------- MODULE Arrangements ----------------------------
(***************************************************************************)
(* How a consent comes to be and how an arrangement of several consents    *)
(* ends: the authorisation request with its healing iterations, the code   *)
(* verifier that the gateway keeps in memory until the code is exchanged,  *)
(* the pushed requests that the data holder keeps in memory, the           *)
(* confirmation, the amendment of an existing arrangement and the report   *)
(* of the data holder that an arrangement has been withdrawn.              *)
(*                                                                         *)
(* An attempt <<r, i>> is the i-th iteration of consent request r.  It     *)
(* stands for what the iteration generates: nonce, code verifier, code     *)
(* challenge and request URI.  The row of request r has the id r.  The id  *)
(* of a new arrangement is the number of the consent at the data holder    *)
(* that it began with, and 0 is an arrangement id that is null.            *)
(***************************************************************************)
EXTENDS Naturals

CONSTANTS
  Requests,      \* consent requests, and the ids of their rows
  States,        \* OAuth states
  StatesFor,     \* those the backend may ask for in each request
  DhConsents,    \* consents at the data holder
  Handlers,      \* confirmations under way at a time
  MaxHealing,    \* MAXIMUM_HEALING_ITERATIONS
  HasPar,        \* the data holder has a pushed_authorization_request_endpoint
  UsePar,        \* UsePushedAuthorizationRequest
  MaxFaults      \* bound: calls, saves and processes that fail

ASSUME RequestsAssumption == /\ Requests \subseteq Nat /\ Requests # {}
                             /\ DhConsents \subseteq Nat \ {0}
ASSUME StatesAssumption == States # {} /\ StatesFor \in [Requests -> SUBSET States]
ASSUME LimitsAssumption == MaxHealing \in Nat \ {0} /\ MaxFaults \in Nat
ASSUME ParAssumption == HasPar \in BOOLEAN /\ UsePar \in BOOLEAN

VARIABLES
  rq,       \* the POST of each consent request
  auth,     \* the LRU cache of code verifiers, by state
  row,      \* the consent table
  parked,   \* storedRequests: pushed requests in the data holder's memory
  dh,       \* consents at the data holder
  conf,     \* the confirmations under way
  rep,      \* the report of a withdrawn arrangement
  failed,   \* consents whose code exchange a failure has interrupted
  faults

vars == <<rq, auth, row, parked, dh, conf, rep, failed, faults>>

Attempts == Requests \X (0 .. MaxHealing)
NoAttempt == <<>>
Lost == <<"lost">>           \* the entry was in the cache of a process that ended
Verifiers == Attempts \cup {NoAttempt, Lost}
Arrangements == DhConsents \cup {0}

Request == [pc : {"new", "push", "log", "answered", "failed"},
            state : States, existing : Arrangements, iter : 0 .. MaxHealing]

(* tokens: the data holder's consent the tokens of the row belong to       *)
Row == [logged : BOOLEAN, nonce : Attempts \cup {NoAttempt},
        state : States, arrangement : Arrangements,
        tokens : DhConsents \cup {0}, revoked : BOOLEAN]

(* presented: the code verifier that came with the code                    *)
DhConsent == [code : {"none", "ready", "consumed"}, req : Requests,
              challenge : Attempts \cup {NoAttempt}, arrangement : Arrangements,
              presented : Verifiers, revoked : BOOLEAN]

Confirmation ==
  {c \in [pc : {"idle", "request", "load", "save"}, d : DhConsents \cup {0},
          work : Row, iter : 0 .. MaxHealing] : c.pc # "idle" => c.d # 0}

(* todo: loaded rows that are still to be revoked, with their copies.      *)
(* seen: rows that this report, or one that failed before it, has found    *)
(* current, and that no confirmation has saved since (a history variable)  *)
Report == [pc : {"none", "revoke", "failed", "answered"}, arrangement : Arrangements,
           todo : SUBSET Requests, copy : [Requests -> Row], seen : SUBSET Requests]

AnyState == CHOOSE s \in States : TRUE
AnyRequest == CHOOSE r \in Requests : TRUE

NoRow == [logged |-> FALSE, nonce |-> NoAttempt, state |-> AnyState,
          arrangement |-> 0, tokens |-> 0, revoked |-> FALSE]

Idle == [pc |-> "idle", d |-> 0, work |-> NoRow, iter |-> 0]

NoCopies == [r \in Requests |-> NoRow]

Init ==
  /\ rq = [r \in Requests |->
             [pc |-> "new", state |-> AnyState, existing |-> 0, iter |-> 0]]
  /\ auth = [s \in States |-> NoAttempt]
  /\ row = NoCopies
  /\ parked = {}
  /\ dh = [d \in DhConsents |->
             [code |-> "none", req |-> AnyRequest, challenge |-> NoAttempt,
              arrangement |-> 0, presented |-> NoAttempt, revoked |-> FALSE]]
  /\ conf = [a \in Handlers |-> Idle]
  /\ rep = [pc |-> "none", arrangement |-> 0, todo |-> {}, copy |-> NoCopies,
            seen |-> {}]
  /\ failed = {}
  /\ faults = 0

Fault == faults < MaxFaults /\ faults' = faults + 1

(* idTokenJson is set with the first tokens *)
Finalised(w) == w.tokens # 0

(* there is no clock here: sharing does not end by itself, see ConsentRow  *)
IsCurrent(w) == Finalised(w) /\ ~w.revoked

-----------------------------------------------------------------------------
(* Mistakes the run must notice.                                           *)

(* a state that has a verifier keeps it *)
StoreVerifierOnce(s, attempt) ==
  auth' = [auth EXCEPT ![s] = IF @ = NoAttempt THEN attempt ELSE @]

(* one healing iteration too many *)
HealOnceMore(iter) == iter <= MaxHealing

(* the arrangement id of the answer is not compared with that of the row   *)
AnyArrangement(w, d) == TRUE

(* the request to amend an arrangement does not name it *)
NewArrangement(r, d) == d

(* a save that fails does not keep the handler from its next row *)
SkipRow(r) ==
  rep' = [rep EXCEPT !.todo = rep.todo \ {r},
                     !.pc = IF rep.todo = {r} THEN "answered" ELSE "revoke"]

(* the verifier is good for one token request *)
DropVerifier(s) == auth' = [auth EXCEPT ![s] = NoAttempt]

-----------------------------------------------------------------------------
(* POST /cdr/consents: GetAuthorizationRequest.                            *)

(* Without an option it knows (ttl is one of later versions), the cache    *)
(* keeps an entry until it is replaced or the process ends.                *)
SetAuthState(s, attempt) == auth' = [auth EXCEPT ![s] = attempt]

(* usePar of getAuthPostGetRequestUrl *)
ViaPar(existing) == HasPar /\ (UsePar \/ existing # 0)

(* An iteration generates its nonce and its verifier and keeps the latter  *)
(* before it calls anybody.                                                *)
Iterate(r, state, existing, iter) ==
  /\ SetAuthState(state, <<r, iter>>)
  /\ rq' = [rq EXCEPT ![r] =
              [pc |-> IF ViaPar(existing) THEN "push" ELSE "log",
               state |-> state, existing |-> existing, iter |-> iter]]

(* The backend chooses the state; it may name an arrangement it knows.     *)
RequestConsent(r) ==
  /\ rq[r].pc = "new"
  /\ \E s \in StatesFor[r], e \in {0} \cup {row[x].arrangement : x \in Requests} :
       Iterate(r, s, e, 0)
  /\ UNCHANGED <<row, parked, dh, conf, rep, failed, faults>>

MayHeal(iter) == iter < MaxHealing

(* Evaluate heals as well: the evaluator starts over with a new attempt    *)
RetryRequest(r) ==
  IF MayHeal(rq[r].iter)
  THEN Iterate(r, rq[r].state, rq[r].existing, rq[r].iter + 1)
  ELSE /\ rq' = [rq EXCEPT ![r].pc = "failed"]
       /\ UNCHANGED auth

(* the data holder's end: a pushed request that is valid is stored         *)
StoreRequest(attempt) == parked' = parked \cup {attempt}

(* FetchRequestUri *)
Push(r) ==
  /\ rq[r].pc = "push"
  /\ \/ /\ StoreRequest(<<r, rq[r].iter>>)
        /\ rq' = [rq EXCEPT ![r].pc = "log"]
        /\ UNCHANGED <<auth, faults>>
     \/ /\ Fault
        /\ RetryRequest(r)
        /\ UNCHANGED parked
  /\ UNCHANGED <<row, dh, conf, rep, failed>>

(* LogAuthRequest; only now the backend is told the URL                    *)
LogAuthRequest(r) ==
  /\ rq[r].pc = "log"
  /\ \/ /\ row' = [row EXCEPT ![r] =
                     [NoRow EXCEPT !.logged = TRUE,
                                   !.nonce = <<r, rq[r].iter>>,
                                   !.state = rq[r].state,
                                   !.arrangement = rq[r].existing]]
        /\ rq' = [rq EXCEPT ![r].pc = "answered"]
        /\ UNCHANGED <<auth, faults>>
     \/ /\ Fault
        /\ RetryRequest(r)
        /\ UNCHANGED row
  /\ UNCHANGED <<parked, dh, conf, rep, failed>>

-----------------------------------------------------------------------------
(* The data holder.                                                        *)

(* requestConsent: the claim of the request object, or a new arrangement   *)
ArrangementOf(r, d) == IF rq[r].existing # 0 THEN rq[r].existing ELSE d

(* The consumer follows the URL of request r and agrees (AuthorizeMiddleware *)
(* and GrantConsent); the redirect brings code and id token.  A URL can be *)
(* followed again; a pushed request must still be stored.                  *)
Authorize(d, r) ==
  LET attempt == <<r, rq[r].iter>> IN
  /\ dh[d].code = "none"
  /\ rq[r].pc = "answered"
  /\ ViaPar(rq[r].existing) => attempt \in parked
  /\ dh' = [dh EXCEPT ![d] = [@ EXCEPT !.code = "ready",
                                       !.req = r,
                                       !.challenge = attempt,
                                       !.arrangement = ArrangementOf(r, d)]]
  /\ UNCHANGED <<rq, auth, row, parked, conf, rep, failed, faults>>

(* the consumer ends the arrangement of d at the data holder               *)
Withdraw(d) ==
  /\ dh[d].code = "consumed"
  /\ ~dh[d].revoked
  /\ dh' = [x \in DhConsents |->
              [dh[x] EXCEPT !.revoked = @ \/ dh[x].arrangement = dh[d].arrangement]]
  /\ UNCHANGED <<rq, auth, row, parked, conf, rep, failed, faults>>

(* the pushed requests are kept in the memory of the process               *)
DhRestart ==
  /\ parked # {}
  /\ Fault
  /\ parked' = {}
  /\ UNCHANGED <<rq, auth, row, dh, conf, rep, failed>>

-----------------------------------------------------------------------------
(* PATCH /cdr/consents/:id: FinaliseConsent.                               *)

(* ValidateAuthorizeResponse, with what FindAuthRequest has loaded         *)
AuthorizeResponseValid(d) ==
  LET w == row[dh[d].req] IN w.nonce = dh[d].challenge /\ ~Finalised(w)

ConfirmStart(a, d) ==
  /\ conf[a].pc = "idle"
  /\ dh[d].code # "none"
  /\ row[dh[d].req].logged
  /\ AuthorizeResponseValid(d)
  /\ conf' = [conf EXCEPT ![a] =
                 [pc |-> "request", d |-> d, work |-> NoRow, iter |-> 0]]
  /\ UNCHANGED <<rq, auth, row, parked, dh, rep, failed, faults>>

(* the healing iterations of FinaliseConsent begin with the token request  *)
RetryConfirm(a) ==
  conf' = [conf EXCEPT ![a] =
             IF MayHeal(@.iter)
             THEN [pc |-> "request", d |-> @.d, work |-> NoRow, iter |-> @.iter + 1]
             ELSE Idle]

(* a verifier is read and stays in the cache                               *)
AfterGetAuthState(s) == UNCHANGED auth

(* getTokenByAuthCode: there must be a verifier; it is not compared with   *)
(* the challenge                                                           *)
CodeAccepted(d, verifier) ==
  /\ verifier \in Attempts
  /\ dh[d].code = "ready"
  /\ ~dh[d].revoked

(* RegenerateTokens *)
Consume(d, verifier) ==
  dh' = [dh EXCEPT ![d] = [@ EXCEPT !.code = "consumed", !.presented = verifier]]

(* Nobody catches what getTokenByAuthCode throws: the repository's data    *)
(* holder never answers, and the confirmation waits for good.  It is taken *)
(* out of conf, so that a bound on Handlers does not make others wait.     *)
NoAnswer(a) == conf' = [conf EXCEPT ![a] = Idle]

(* FetchTokens: the call fails on its way, is refused (as other holders    *)
(* refuse a code, too), has no answer, is answered, or the answer is lost. *)
FetchTokens(a) ==
  LET d == conf[a].d
      s == row[dh[d].req].state
      verifier == auth[s]
  IN
  /\ conf[a].pc = "request"
  /\ AfterGetAuthState(s)
  /\ \/ /\ Fault
        /\ RetryConfirm(a)
        /\ UNCHANGED <<dh, failed>>
     \/ /\ ~CodeAccepted(d, verifier)
        /\ RetryConfirm(a)
        /\ UNCHANGED <<dh, failed, faults>>
     \/ /\ verifier \in Attempts
        /\ ~CodeAccepted(d, verifier)
        /\ NoAnswer(a)
        /\ UNCHANGED <<dh, failed, faults>>
     \/ /\ CodeAccepted(d, verifier)
        /\ Consume(d, verifier)
        /\ conf' = [conf EXCEPT ![a].pc = "load"]
        /\ UNCHANGED <<failed, faults>>
     \/ /\ CodeAccepted(d, verifier)
        /\ Fault
        /\ Consume(d, verifier)
        /\ failed' = failed \cup {d}
        /\ RetryConfirm(a)
  /\ UNCHANGED <<rq, row, parked, rep>>

(* UpdateTokens throws "cdr_arrangement_id mismatch" otherwise             *)
ArrangementMatches(w, d) == w.arrangement \in {0, dh[d].arrangement}

UpdateTokens(w, d) ==
  [w EXCEPT !.tokens = d,
            !.arrangement = IF w.arrangement = 0 THEN dh[d].arrangement
                                                 ELSE w.arrangement]

LoadRow(a) ==
  LET d == conf[a].d
      w == row[dh[d].req]
  IN
  /\ conf[a].pc = "load"
  /\ IF ArrangementMatches(w, d)
     THEN conf' = [conf EXCEPT ![a].pc = "save", ![a].work = UpdateTokens(w, d)]
     ELSE RetryConfirm(a)
  /\ UNCHANGED <<rq, auth, row, parked, dh, rep, failed, faults>>

SaveTokens(a) ==
  LET r == dh[conf[a].d].req IN
  /\ conf[a].pc = "save"
  /\ \/ /\ row' = [row EXCEPT ![r] = conf[a].work]
        /\ rep' = [rep EXCEPT !.seen = @ \ {r}]
        /\ conf' = [conf EXCEPT ![a] = Idle]
        /\ UNCHANGED <<failed, faults>>
     \/ /\ Fault
        /\ failed' = failed \cup {conf[a].d}
        /\ RetryConfirm(a)
        /\ UNCHANGED <<row, rep>>
  /\ UNCHANGED <<rq, auth, parked, dh>>

(* The backend's process ends and starts again: the cache is empty, the    *)
(* requests under way are lost.                                            *)
BackendRestart ==
  /\ Fault
  /\ auth' = [s \in States |-> IF auth[s] \in Attempts THEN Lost ELSE auth[s]]
  /\ rq' = [r \in Requests |->
              IF rq[r].pc \in {"push", "log"} THEN [rq[r] EXCEPT !.pc = "failed"]
                                              ELSE rq[r]]
  /\ failed' = failed \cup {conf[a].d : a \in {x \in Handlers :
                                                 conf[x].pc \in {"load", "save"}}}
  /\ conf' = [a \in Handlers |-> Idle]
  /\ UNCHANGED <<row, parked, dh, rep>>

-----------------------------------------------------------------------------
(* POST /arrangements/revoke: the frontend's DeleteArrangement.            *)

CurrentOf(arrangement) ==
  {r \in Requests : row[r].arrangement = arrangement /\ IsCurrent(row[r])}

(* The data holder reports the arrangement of d, again if it has not been  *)
(* answered.  Without current rows the answer is 422.                      *)
ReportStart(d) ==
  LET found == CurrentOf(dh[d].arrangement) IN
  /\ dh[d].revoked
  /\ \/ rep.pc = "none"
     \/ rep.pc = "failed" /\ rep.arrangement = dh[d].arrangement
  /\ rep' = [pc |-> IF found = {} THEN "answered" ELSE "revoke",
             arrangement |-> dh[d].arrangement,
             todo |-> found,
             copy |-> [r \in Requests |-> IF r \in found THEN row[r] ELSE NoRow],
             seen |-> rep.seen \cup found]
  /\ UNCHANGED <<rq, auth, row, parked, dh, conf, failed, faults>>

(* the answer is 500 *)
RevokeFails(r) == rep' = [rep EXCEPT !.pc = "failed", !.todo = {}, !.copy = NoCopies]

(* RevokeConsent saves the loaded copy; after the last one the answer is   *)
(* 204.  The handler fails if the save fails or its process ends.          *)
RevokeNext(r) ==
  /\ rep.pc = "revoke"
  /\ r \in rep.todo
  /\ \/ /\ row' = [row EXCEPT ![r] = [rep.copy[r] EXCEPT !.revoked = TRUE]]
        /\ rep' = [rep EXCEPT !.todo = rep.todo \ {r}, !.copy[r] = NoRow,
                              !.pc = IF rep.todo = {r} THEN "answered" ELSE "revoke"]
        /\ UNCHANGED faults
     \/ /\ Fault
        /\ RevokeFails(r)
        /\ UNCHANGED row
  /\ UNCHANGED <<rq, auth, parked, dh, conf, failed>>

-----------------------------------------------------------------------------
Next ==
  \/ \E r \in Requests : RequestConsent(r) \/ Push(r) \/ LogAuthRequest(r)
                           \/ RevokeNext(r)
  \/ \E d \in DhConsents, r \in Requests : Authorize(d, r)
  \/ \E d \in DhConsents : Withdraw(d) \/ ReportStart(d)
  \/ \E a \in Handlers, d \in DhConsents : ConfirmStart(a, d)
  \/ \E a \in Handlers : FetchTokens(a) \/ LoadRow(a) \/ SaveTokens(a)
  \/ DhRestart
  \/ BackendRestart

Spec == Init /\ [][Next]_vars

(* A request under way makes its next step, the backend confirms what the  *)
(* consumer has authorised until it is told that it has succeeded, and a   *)
(* data holder repeats a report that has failed.                           *)
Fairness ==
  /\ \A a \in Handlers : WF_vars(FetchTokens(a) \/ LoadRow(a) \/ SaveTokens(a))
  /\ \A d \in DhConsents : SF_vars(\E a \in Handlers : ConfirmStart(a, d))

FairSpec == Spec /\ Fairness

-----------------------------------------------------------------------------
TypeOK ==
  /\ rq \in [Requests -> Request]
  /\ auth \in [States -> Verifiers]
  /\ row \in [Requests -> Row]
  /\ parked \subseteq Attempts
  /\ dh \in [DhConsents -> DhConsent]
  /\ conf \in [Handlers -> Confirmation]
  /\ rep \in Report
  /\ failed \subseteq DhConsents
  /\ faults \in 0 .. MaxFaults

(* No other request uses the state of request r.                           *)
OwnState(r) ==
  \A x \in Requests \ {r} : rq[x].pc = "new" \/ rq[x].state # rq[r].state

(* No other consent at the data holder comes from the same URL.            *)
AuthorizedOnce(d) == \A x \in DhConsents \ {d} :
                       dh[x].code = "none" \/ dh[x].req # dh[d].req

(* The verifier that comes with a code is the one whose challenge the      *)
(* consumer's URL carried, however many healing iterations the request has *)
(* had, if no other request was given the same state (setAuthState of      *)
(* Util.ts is called anew in every iteration, before the row is logged).   *)
OwnVerifier ==
  \A d \in DhConsents :
    dh[d].presented # NoAttempt /\ OwnState(dh[d].req)
      => dh[d].presented = dh[d].challenge

(* A code that is consumed has its tokens in the row, unless a failure has *)
(* hit the confirmation between the two, or the URL was followed twice: no *)
(* interleaving alone, and no amendment, loses tokens (FetchTokens.ts and  *)
(* the mismatch check of UpdateTokens).                                    *)
ConsumedCodeIsSaved ==
  \A d \in DhConsents \ failed :
    /\ dh[d].code = "consumed"
    /\ AuthorizedOnce(d)
    /\ \A a \in Handlers : conf[a].pc \in {"load", "save"} => conf[a].d # d
    => row[dh[d].req].tokens = d

(* A row has the arrangement id under which the data holder keeps the      *)
(* consent its tokens belong to, also when the consumer has followed the   *)
(* URL twice and both codes are confirmed at once (UpdateTokens).          *)
ArrangementsAgree ==
  \A r \in Requests :
    Finalised(row[r]) => row[r].arrangement = dh[row[r].tokens].arrangement

(* When a report of a withdrawn arrangement has been answered with 204 or  *)
(* 422, each row that the report, or one that failed half-way before it,   *)
(* has found current is revoked (the loop of DeleteArrangement.ts).        *)
ReportRevokesAll ==
  rep.pc = "answered" => \A r \in rep.seen : row[r].revoked

(* A code that the backend keeps confirming gets into the row, unless the  *)
(* verifier was lost with the process or replaced by a request of the same *)
(* state, a failure has hit the confirmation after the code was consumed,  *)
(* or the consent has been withdrawn.                                      *)
GrantedIsConfirmed ==
  \A d \in DhConsents :
    dh[d].code = "ready"
      ~> \/ Finalised(row[dh[d].req])
         \/ auth[row[dh[d].req].state] = Lost
         \/ ~OwnState(dh[d].req)
         \/ d \in failed
         \/ dh[d].revoked
         \/ ~AuthorizedOnce(d)
=============================================================================
