------------------------- MODULE ArrangementsProofs -------------------------
(***************************************************************************)
(* Proofs about Arrangements, for any number of requests, states, consents *)
(* at the data holder, confirmations, healing iterations and failures.     *)
(***************************************************************************)
EXTENDS Arrangements, TLAPS

(***************************************************************************)
(* What makes the invariants inductive.                                    *)
(***************************************************************************)

(* A version w of the row of request r, whose POST is q: before tokens it  *)
(* is as it was logged; with tokens it belongs to one of the consents D    *)
(* that came from r's URL.                                                 *)
Faithful(w, r, q, D) ==
  /\ w.state = q.state
  /\ w.tokens = 0 => w.arrangement = q.existing
  /\ w.tokens # 0 => /\ D[w.tokens].code = "consumed"
                     /\ D[w.tokens].req = r
                     /\ w.arrangement = D[w.tokens].arrangement

(* There is a row once the backend has been told the URL, not before.      *)
RowFaithful(w, r, q, D) == IF q.pc = "answered" THEN Faithful(w, r, q, D)
                                                ELSE w = NoRow

RowsFaithful == \A r \in Requests : RowFaithful(row[r], r, rq[r], dh)

(* A consent has what the URL it came from carried, for good.              *)
ConsentsFaithful ==
  \A d \in DhConsents :
    /\ dh[d].code # "none" =>
         /\ rq[dh[d].req].pc = "answered"
         /\ dh[d].challenge = <<dh[d].req, rq[dh[d].req].iter>>
         /\ dh[d].arrangement = ArrangementOf(dh[d].req, d)
    /\ dh[d].code # "consumed" => dh[d].presented = NoAttempt

(* What a confirmation is about to save.                                   *)
WorkFaithful ==
  \A a \in Handlers :
    /\ conf[a].pc # "idle" => /\ conf[a].d \in DhConsents
                              /\ dh[conf[a].d].code # "none"
    /\ conf[a].pc \in {"load", "save"} => dh[conf[a].d].code = "consumed"
    /\ conf[a].pc = "save" =>
         LET r == dh[conf[a].d].req IN
         /\ Faithful(conf[a].work, r, rq[r], dh)
         /\ conf[a].work.tokens = conf[a].d

(* What a report has loaded and will save.                                 *)
CopiesFaithful ==
  \A r \in rep.todo : /\ rq[r].pc = "answered"
                      /\ Faithful(rep.copy[r], r, rq[r], dh)
                      /\ rep.copy[r].tokens # 0

(* A row that a report has found is revoked, or will be by this report or  *)
(* by its repetition.                                                      *)
ReportComplete ==
  /\ rep.pc = "none" => rep.seen = {}
  /\ \A r \in rep.seen :
       \/ row[r].revoked
       \/ /\ rep.pc \in {"revoke", "failed"}
          /\ rep.pc = "revoke" => r \in rep.todo
          /\ row[r].tokens # 0
          /\ row[r].arrangement = rep.arrangement

(* The cache has the verifier of the last iteration, or nothing any more.  *)
VerifierKept ==
  \A r \in Requests :
    rq[r].pc # "new" /\ OwnState(r)
      => auth[rq[r].state] \in {<<r, rq[r].iter>>, Lost}

RowInv == RowsFaithful /\ ConsentsFaithful /\ WorkFaithful /\ CopiesFaithful

IInv == /\ TypeOK /\ RowInv /\ VerifierKept
        /\ OwnVerifier /\ ConsumedCodeIsSaved /\ ReportComplete

-----------------------------------------------------------------------------
LEMMA Picks == AnyState \in States /\ AnyRequest \in Requests
  BY RequestsAssumption, StatesAssumption DEF AnyState, AnyRequest

LEMMA InitTypeOK == Init => TypeOK
  <1> SUFFICES ASSUME Init PROVE TypeOK
    OBVIOUS
  <1> USE Picks, LimitsAssumption
  <1>1. NoRow \in Row
    BY DEF NoRow, Row, Arrangements, NoAttempt
  <1>2. rq \in [Requests -> Request]
    BY DEF Init, Request, Arrangements
  <1>3. auth \in [States -> Verifiers]
    BY DEF Init, Verifiers
  <1>4. row \in [Requests -> Row] /\ NoCopies \in [Requests -> Row]
    BY <1>1 DEF Init, NoCopies
  <1>5. dh \in [DhConsents -> DhConsent]
    BY DEF Init, DhConsent, Verifiers, Arrangements
  <1>6. conf \in [Handlers -> Confirmation]
    BY <1>1 DEF Init, Idle, Confirmation
  <1>7. rep \in Report
    BY <1>4 DEF Init, Report, Arrangements
  <1>8. parked \subseteq Attempts /\ failed \subseteq DhConsents /\ faults \in 0 .. MaxFaults
    BY DEF Init, LimitsAssumption
  <1> QED BY <1>2, <1>3, <1>4, <1>5, <1>6, <1>7, <1>8 DEF TypeOK

LEMMA NoRowType == NoRow \in Row /\ NoCopies \in [Requests -> Row]
  BY Picks DEF NoRow, NoCopies, Row, Arrangements, NoAttempt

LEMMA FaultType == TypeOK /\ Fault => faults' \in 0 .. MaxFaults
  BY LimitsAssumption DEF Fault, TypeOK

LEMMA IterateType ==
  ASSUME TypeOK, NEW r \in Requests, NEW s \in States, NEW e \in Arrangements,
         NEW i \in 0 .. MaxHealing, Iterate(r, s, e, i)
  PROVE  rq' \in [Requests -> Request] /\ auth' \in [States -> Verifiers]
  <1>1. auth' \in [States -> Verifiers]
    BY DEF Iterate, SetAuthState, TypeOK, Verifiers, Attempts
  <1>2. rq' \in [Requests -> Request]
    BY DEF Iterate, TypeOK, Request
  <1> QED BY <1>1, <1>2

LEMMA RetryRequestType ==
  ASSUME TypeOK, NEW r \in Requests, RetryRequest(r)
  PROVE  rq' \in [Requests -> Request] /\ auth' \in [States -> Verifiers]
  <1>1. /\ rq[r].state \in States /\ rq[r].existing \in Arrangements
        /\ rq[r].iter \in 0 .. MaxHealing
    BY DEF TypeOK, Request
  <1>2. CASE MayHeal(rq[r].iter)
    <2>1. rq[r].iter + 1 \in 0 .. MaxHealing
      BY <1>1, <1>2, LimitsAssumption DEF MayHeal
    <2> QED BY <1>1, <1>2, <2>1, IterateType DEF RetryRequest
  <1>3. CASE ~MayHeal(rq[r].iter)
    BY <1>3 DEF RetryRequest, TypeOK, Request
  <1> QED BY <1>2, <1>3

LEMMA IdleType == Idle \in Confirmation
  BY NoRowType, LimitsAssumption DEF Idle, Confirmation

(* A confirmation under way is about a consent, as is its row. *)
LEMMA ConfFields ==
  ASSUME TypeOK, NEW a \in Handlers
  PROVE  /\ conf[a] \in Confirmation /\ conf[a].iter \in 0 .. MaxHealing
         /\ conf[a].work \in Row
         /\ conf[a].pc # "idle" => /\ conf[a].d \in DhConsents
                                   /\ dh[conf[a].d].req \in Requests
                                   /\ dh[conf[a].d].arrangement \in Arrangements
  <1>1. conf[a] \in Confirmation
    BY DEF TypeOK
  <1>2. conf[a].pc # "idle" => conf[a].d \in DhConsents
    BY <1>1 DEF Confirmation
  <1>3. \A d \in DhConsents : dh[d].req \in Requests /\ dh[d].arrangement \in Arrangements
    BY DEF TypeOK, DhConsent
  <1> QED BY <1>1, <1>2, <1>3 DEF Confirmation

LEMMA RetryConfirmType ==
  ASSUME TypeOK, NEW a \in Handlers, conf[a].pc # "idle", RetryConfirm(a)
  PROVE  conf' \in [Handlers -> Confirmation]
  <1>1. /\ conf \in [Handlers -> Confirmation]
        /\ conf[a].d \in DhConsents \cup {0} /\ conf[a].d # 0
        /\ conf[a].iter \in 0 .. MaxHealing
    BY RequestsAssumption, ConfFields DEF TypeOK
  <1>2. Idle \in Confirmation
    BY IdleType
  <1>3. CASE MayHeal(conf[a].iter)
    <2> DEFINE c == [pc |-> "request", d |-> conf[a].d, work |-> NoRow,
                     iter |-> conf[a].iter + 1]
    <2>1. conf[a].iter + 1 \in 0 .. MaxHealing
      BY <1>1, <1>3, LimitsAssumption DEF MayHeal
    <2>2. c \in Confirmation
      BY <1>1, <2>1, NoRowType DEF Confirmation
    <2>3. conf' = [conf EXCEPT ![a] = c]
      BY <1>1, <1>3 DEF RetryConfirm
    <2> QED BY <1>1, <2>2, <2>3
  <1>4. CASE ~MayHeal(conf[a].iter)
    BY <1>1, <1>2, <1>4 DEF RetryConfirm
  <1> QED BY <1>3, <1>4

LEMMA ConsumeType ==
  ASSUME TypeOK, NEW d \in DhConsents, NEW v \in Verifiers, Consume(d, v)
  PROVE  dh' \in [DhConsents -> DhConsent]
  BY DEF Consume, TypeOK, DhConsent

(* The types that a row of the consent table brings along. *)
LEMMA RowFields ==
  ASSUME TypeOK, NEW r \in Requests
  PROVE  /\ row[r] \in Row /\ row[r].state \in States
         /\ row[r].arrangement \in Arrangements /\ rq[r].existing \in Arrangements
  BY DEF TypeOK, Row, Request

(* Every step keeps the types. *)
LEMMA NextTypeOK == TypeOK /\ [Next]_vars => TypeOK'
  <1> SUFFICES ASSUME TypeOK, [Next]_vars PROVE TypeOK'
    OBVIOUS
  <1>1. ASSUME NEW r \in Requests, RequestConsent(r) PROVE TypeOK'
    <2>1. PICK s \in StatesFor[r], e \in {0} \cup {row[x].arrangement : x \in Requests} :
            Iterate(r, s, e, 0)
      BY <1>1 DEF RequestConsent
    <2>2. s \in States /\ e \in Arrangements /\ 0 \in 0 .. MaxHealing
      BY StatesAssumption, LimitsAssumption, RowFields DEF Arrangements
    <2> QED BY <1>1, <2>1, <2>2, IterateType DEF RequestConsent, TypeOK
  <1>2. ASSUME NEW r \in Requests, Push(r) PROVE TypeOK'
    <2>1. <<r, rq[r].iter>> \in Attempts
      BY DEF TypeOK, Request, Attempts
    <2>2. CASE parked' = parked \cup {<<r, rq[r].iter>>}
               /\ rq' = [rq EXCEPT ![r].pc = "log"] /\ UNCHANGED <<auth, faults>>
      <3>1. rq' \in [Requests -> Request]
        BY <2>2 DEF TypeOK, Request
      <3> QED BY <1>2, <2>1, <2>2, <3>1 DEF Push, StoreRequest, TypeOK
    <2>3. CASE Fault /\ RetryRequest(r) /\ UNCHANGED parked
      BY <1>2, <2>3, FaultType, RetryRequestType DEF Push, StoreRequest, TypeOK
    <2> QED BY <1>2, <2>2, <2>3 DEF Push, StoreRequest
  <1>3. ASSUME NEW r \in Requests, LogAuthRequest(r) PROVE TypeOK'
    <2> DEFINE new == [NoRow EXCEPT !.logged = TRUE, !.nonce = <<r, rq[r].iter>>,
                                    !.state = rq[r].state,
                                    !.arrangement = rq[r].existing]
    <2>1. CASE row' = [row EXCEPT ![r] = new]
               /\ rq' = [rq EXCEPT ![r].pc = "answered"] /\ UNCHANGED <<auth, faults>>
      <3>1. rq' \in [Requests -> Request]
        BY <2>1 DEF TypeOK, Request
      <3>2. /\ rq[r].iter \in 0 .. MaxHealing /\ rq[r].state \in States
            /\ rq[r].existing \in Arrangements
        BY DEF TypeOK, Request
      <3>3. new \in Row
        BY <3>2, NoRowType DEF Row, Attempts
      <3> QED BY <1>3, <2>1, <3>1, <3>3 DEF LogAuthRequest, TypeOK
    <2>2. CASE Fault /\ RetryRequest(r) /\ UNCHANGED row
      BY <1>3, <2>2, FaultType, RetryRequestType DEF LogAuthRequest, TypeOK
    <2> QED BY <1>3, <2>1, <2>2 DEF LogAuthRequest
  <1>4. ASSUME NEW r \in Requests, RevokeNext(r) PROVE TypeOK'
    <2>1. rep.copy[r] \in Row
      BY DEF TypeOK, Report
    <2>2. CASE /\ row' = [row EXCEPT ![r] = [rep.copy[r] EXCEPT !.revoked = TRUE]]
               /\ rep' = [rep EXCEPT !.todo = rep.todo \ {r}, !.copy[r] = NoRow,
                                     !.pc = IF rep.todo = {r} THEN "answered"
                                                              ELSE "revoke"]
               /\ UNCHANGED faults
      <3>1. [rep.copy[r] EXCEPT !.revoked = TRUE] \in Row
        BY <2>1 DEF Row
      <3>2. rep' \in Report
        BY <2>2, NoRowType DEF TypeOK, Report
      <3> QED BY <1>4, <2>2, <3>1, <3>2 DEF RevokeNext, TypeOK
    <2>3. CASE Fault /\ RevokeFails(r) /\ UNCHANGED row
      <3>1. rep' \in Report
        BY <2>3, NoRowType DEF RevokeFails, TypeOK, Report
      <3> QED BY <1>4, <2>3, <3>1, FaultType DEF RevokeNext, TypeOK
    <2> QED BY <1>4, <2>2, <2>3 DEF RevokeNext
  <1>5. ASSUME NEW d \in DhConsents, NEW r \in Requests, Authorize(d, r) PROVE TypeOK'
    <2>1. ArrangementOf(r, d) \in Arrangements /\ <<r, rq[r].iter>> \in Attempts
      BY DEF TypeOK, Request, Attempts, ArrangementOf, Arrangements
    <2>2. dh' \in [DhConsents -> DhConsent]
      BY <1>5, <2>1 DEF Authorize, TypeOK, DhConsent
    <2> QED BY <1>5, <2>2 DEF Authorize, TypeOK
  <1>6. ASSUME NEW d \in DhConsents, Withdraw(d) PROVE TypeOK'
    <2>1. dh' \in [DhConsents -> DhConsent]
      BY <1>6 DEF Withdraw, TypeOK, DhConsent
    <2> QED BY <1>6, <2>1 DEF Withdraw, TypeOK
  <1>7. ASSUME NEW d \in DhConsents, ReportStart(d) PROVE TypeOK'
    <2>1. CurrentOf(dh[d].arrangement) \subseteq Requests
      BY DEF CurrentOf
    <2>2. dh[d].arrangement \in Arrangements /\ rep.seen \subseteq Requests
      BY DEF TypeOK, DhConsent, Report
    <2>3. [r \in Requests |-> IF r \in CurrentOf(dh[d].arrangement) THEN row[r] ELSE NoRow]
            \in [Requests -> Row]
      BY NoRowType DEF TypeOK
    <2>4. rep' \in Report
      BY <1>7, <2>1, <2>2, <2>3 DEF ReportStart, Report
    <2> QED BY <1>7, <2>4 DEF ReportStart, TypeOK
  <1>8. ASSUME NEW a \in Handlers, NEW d \in DhConsents, ConfirmStart(a, d) PROVE TypeOK'
    <2>1. [pc |-> "request", d |-> d, work |-> NoRow, iter |-> 0] \in Confirmation
      BY NoRowType, LimitsAssumption, RequestsAssumption DEF Confirmation
    <2> QED BY <1>8, <2>1 DEF ConfirmStart, TypeOK
  <1>9. ASSUME NEW a \in Handlers, FetchTokens(a) PROVE TypeOK'
    <2> DEFINE v == auth[row[dh[conf[a].d].req].state]
    <2>1. conf[a].pc # "idle" /\ conf[a].d \in DhConsents /\ v \in Verifiers
      BY <1>9, ConfFields, RowFields DEF FetchTokens, TypeOK
    <2>2. /\ UNCHANGED <<rq, row, parked, rep, auth>>
          /\ conf' \in [Handlers -> Confirmation]
          /\ dh' \in [DhConsents -> DhConsent]
          /\ failed' \subseteq DhConsents
          /\ faults' \in 0 .. MaxFaults
      <3>1. CASE UNCHANGED dh /\ RetryConfirm(a) /\ UNCHANGED failed
                 /\ (Fault \/ UNCHANGED faults)
        BY <1>9, <2>1, <3>1, RetryConfirmType, FaultType
           DEF FetchTokens, AfterGetAuthState, TypeOK
      <3>2. CASE NoAnswer(a) /\ UNCHANGED <<dh, failed, faults>>
        BY <1>9, <3>2, IdleType DEF FetchTokens, AfterGetAuthState, NoAnswer, TypeOK
      <3>3. CASE /\ Consume(conf[a].d, v) /\ conf' = [conf EXCEPT ![a].pc = "load"]
                 /\ UNCHANGED <<failed, faults>>
        <4>1. [conf[a] EXCEPT !.pc = "load"] \in Confirmation
          BY <2>1, ConfFields, RequestsAssumption DEF Confirmation
        <4> QED BY <1>9, <2>1, <3>3, <4>1, ConsumeType
                DEF FetchTokens, AfterGetAuthState, TypeOK
      <3>4. CASE /\ Fault /\ Consume(conf[a].d, v)
                 /\ failed' = failed \cup {conf[a].d} /\ RetryConfirm(a)
        BY <1>9, <2>1, <3>4, ConsumeType, RetryConfirmType, FaultType
           DEF FetchTokens, AfterGetAuthState, TypeOK
      <3> QED BY <1>9, <3>1, <3>2, <3>3, <3>4 DEF FetchTokens
    <2> QED BY <2>2 DEF TypeOK
  <1>10. ASSUME NEW a \in Handlers, LoadRow(a) PROVE TypeOK'
    <2> DEFINE d == conf[a].d
               w == row[dh[d].req]
               c == [pc |-> "save", d |-> d, work |-> UpdateTokens(w, d),
                     iter |-> conf[a].iter]
    <2>1. conf[a].pc # "idle" /\ d \in DhConsents /\ d # 0 /\ w \in Row
      BY <1>10, ConfFields, RowFields, RequestsAssumption DEF LoadRow
    <2>2. CASE ArrangementMatches(w, d)
      <3>1. UpdateTokens(w, d) \in Row
        BY <2>1, ConfFields DEF UpdateTokens, Row
      <3>2. c \in Confirmation
        BY <2>1, <3>1, ConfFields DEF Confirmation
      <3>3. conf' = [conf EXCEPT ![a] = c]
        BY <1>10, <2>1, <2>2, ConfFields DEF LoadRow, Confirmation, TypeOK
      <3> QED BY <1>10, <3>2, <3>3 DEF LoadRow, TypeOK
    <2>3. CASE ~ArrangementMatches(w, d)
      BY <1>10, <2>1, <2>3, RetryConfirmType DEF LoadRow, TypeOK
    <2> QED BY <2>2, <2>3
  <1>11. ASSUME NEW a \in Handlers, SaveTokens(a) PROVE TypeOK'
    <2>1. conf[a].pc # "idle" /\ conf[a].d \in DhConsents /\ conf[a].work \in Row
      BY <1>11, ConfFields DEF SaveTokens
    <2>2. CASE /\ row' = [row EXCEPT ![dh[conf[a].d].req] = conf[a].work]
               /\ rep' = [rep EXCEPT !.seen = @ \ {dh[conf[a].d].req}]
               /\ conf' = [conf EXCEPT ![a] = Idle]
               /\ UNCHANGED <<failed, faults>>
      <3>1. rep' \in Report
        BY <2>2 DEF TypeOK, Report
      <3> QED BY <1>11, <2>1, <2>2, <3>1, IdleType DEF SaveTokens, TypeOK
    <2>3. CASE /\ Fault /\ failed' = failed \cup {conf[a].d} /\ RetryConfirm(a)
               /\ UNCHANGED <<row, rep>>
      BY <1>11, <2>1, <2>3, RetryConfirmType, FaultType DEF SaveTokens, TypeOK
    <2> QED BY <1>11, <2>2, <2>3 DEF SaveTokens
  <1>12. CASE DhRestart
    BY <1>12, FaultType DEF DhRestart, TypeOK
  <1>13. CASE BackendRestart
    <2>1. rq' \in [Requests -> Request]
      BY <1>13 DEF BackendRestart, TypeOK, Request
    <2>2. auth' \in [States -> Verifiers]
      BY <1>13 DEF BackendRestart, TypeOK, Verifiers
    <2>3. conf' \in [Handlers -> Confirmation]
      BY <1>13, IdleType DEF BackendRestart
    <2>4. failed' \subseteq DhConsents
      BY <1>13, ConfFields DEF BackendRestart, TypeOK
    <2> QED BY <1>13, <2>1, <2>2, <2>3, <2>4, FaultType DEF BackendRestart, TypeOK
  <1>14. CASE UNCHANGED vars
    BY <1>14 DEF vars, TypeOK
  <1> QED BY <1>1, <1>2, <1>3, <1>4, <1>5, <1>6, <1>7, <1>8, <1>9, <1>10,
             <1>11, <1>12, <1>13, <1>14 DEF Next

-----------------------------------------------------------------------------
(***************************************************************************)
(* Rows, and what will be saved as rows, are faithful.                     *)
(***************************************************************************)

(* What has been answered, granted or consumed stays so. *)
Kept ==
  /\ \A r \in Requests : rq[r].pc = "answered" => rq'[r] = rq[r]
  /\ \A d \in DhConsents :
       /\ dh[d].code # "none" => /\ dh'[d].code # "none"
                                 /\ dh'[d].req = dh[d].req
                                 /\ dh'[d].challenge = dh[d].challenge
                                 /\ dh'[d].arrangement = dh[d].arrangement
       /\ dh[d].code = "consumed" => /\ dh'[d].code = "consumed"
                                     /\ dh'[d].presented = dh[d].presented

LEMMA FaithfulStable ==
  ASSUME NEW w, NEW r, NEW q, NEW D, NEW q2, NEW D2, Faithful(w, r, q, D),
         q2.state = q.state, q2.existing = q.existing,
         w.tokens \in DhConsents \cup {0},
         \A d \in DhConsents : D[d].code = "consumed" =>
            /\ D2[d].code = "consumed" /\ D2[d].req = D[d].req
            /\ D2[d].arrangement = D[d].arrangement
  PROVE  Faithful(w, r, q2, D2)
  BY DEF Faithful

LEMMA RetryRequestPc ==
  ASSUME TypeOK, NEW r \in Requests, RetryRequest(r)
  PROVE  /\ \A x \in Requests \ {r} : rq'[x] = rq[x]
         /\ rq'[r].pc \in {"push", "log", "failed"}
         /\ rq'[r].state = rq[r].state
  BY DEF RetryRequest, Iterate, TypeOK, Request

(* The steps of one request leave the others alone. *)
LEMMA RequestSteps ==
  ASSUME TypeOK, NEW r \in Requests,
         RequestConsent(r) \/ Push(r) \/ LogAuthRequest(r)
  PROVE  /\ \A x \in Requests \ {r} : rq'[x] = rq[x]
         /\ rq[r].pc \in {"new", "push", "log"} /\ rq'[r].pc # "new"
         /\ rq[r].pc # "new" => rq'[r].state = rq[r].state
         /\ UNCHANGED <<dh, conf, rep, failed>>
  <1>1. CASE RequestConsent(r)
    BY <1>1 DEF RequestConsent, Iterate, TypeOK, Request
  <1>2. CASE Push(r)
    BY <1>2, RetryRequestPc DEF Push, StoreRequest, TypeOK, Request
  <1>3. CASE LogAuthRequest(r)
    BY <1>3, RetryRequestPc DEF LogAuthRequest, TypeOK, Request
  <1> QED BY <1>1, <1>2, <1>3

LEMMA FetchTokensSteps ==
  ASSUME TypeOK, NEW a \in Handlers, FetchTokens(a)
  PROVE  LET d == conf[a].d
             v == auth[row[dh[d].req].state]
         IN \/ dh' = dh /\ (RetryConfirm(a) \/ NoAnswer(a)) /\ failed' = failed
            \/ /\ CodeAccepted(d, v) /\ Consume(d, v)
               /\ \/ conf' = [conf EXCEPT ![a].pc = "load"] /\ failed' = failed
                  \/ failed' = failed \cup {d} /\ RetryConfirm(a)
  BY DEF FetchTokens

LEMMA NextKept == TypeOK /\ [Next]_vars => Kept
  <1> SUFFICES ASSUME TypeOK, [Next]_vars PROVE Kept
    OBVIOUS
  <1>1. ASSUME NEW r \in Requests, RequestConsent(r) \/ Push(r) \/ LogAuthRequest(r)
        PROVE  Kept
    <2>1. \A x \in Requests : rq[x].pc = "answered" => rq'[x] = rq[x]
      BY <1>1, RequestSteps
    <2> QED BY <1>1, <2>1, RequestSteps DEF Kept
  <1>2. ASSUME NEW d \in DhConsents, NEW r \in Requests, Authorize(d, r) PROVE Kept
    BY <1>2 DEF Authorize, Kept, TypeOK
  <1>3. ASSUME NEW d \in DhConsents, Withdraw(d) PROVE Kept
    <2>1. \A x \in DhConsents : /\ dh'[x].code = dh[x].code /\ dh'[x].req = dh[x].req
                                /\ dh'[x].challenge = dh[x].challenge
                                /\ dh'[x].arrangement = dh[x].arrangement
                                /\ dh'[x].presented = dh[x].presented
      BY <1>3 DEF Withdraw, TypeOK, DhConsent
    <2> QED BY <1>3, <2>1 DEF Withdraw, Kept
  <1>4. ASSUME NEW a \in Handlers, FetchTokens(a) PROVE Kept
    <2>1. rq' = rq
      BY <1>4 DEF FetchTokens
    <2>2. CASE dh' = dh
      BY <2>1, <2>2 DEF Kept
    <2>3. CASE CodeAccepted(conf[a].d, auth[row[dh[conf[a].d].req].state])
               /\ Consume(conf[a].d, auth[row[dh[conf[a].d].req].state])
      BY <2>1, <2>3 DEF Consume, CodeAccepted, Kept, TypeOK, DhConsent
    <2> QED BY <1>4, <2>2, <2>3, FetchTokensSteps
  <1>5. CASE BackendRestart
    BY <1>5 DEF BackendRestart, Kept
  <1>6. ASSUME UNCHANGED <<rq, dh>> PROVE Kept
    BY <1>6 DEF Kept
  <1>7. ASSUME NEW r \in Requests, RevokeNext(r) PROVE UNCHANGED <<rq, dh>>
    BY <1>7 DEF RevokeNext
  <1>8. ASSUME NEW d \in DhConsents, ReportStart(d) PROVE UNCHANGED <<rq, dh>>
    BY <1>8 DEF ReportStart
  <1>9. ASSUME NEW a \in Handlers, NEW d \in DhConsents, ConfirmStart(a, d)
         PROVE  UNCHANGED <<rq, dh>>
    BY <1>9 DEF ConfirmStart
  <1>10. ASSUME NEW a \in Handlers, LoadRow(a) \/ SaveTokens(a) PROVE UNCHANGED <<rq, dh>>
    BY <1>10 DEF LoadRow, SaveTokens
  <1>11. DhRestart => UNCHANGED <<rq, dh>>
    BY DEF DhRestart
  <1>12. UNCHANGED vars => UNCHANGED <<rq, dh>>
    BY DEF vars
  <1> QED BY <1>1, <1>2, <1>3, <1>4, <1>5, <1>6, <1>7, <1>8, <1>9, <1>10,
             <1>11, <1>12 DEF Next

(* A version of a row that was faithful is so after the step. *)
LEMMA StillFaithful ==
  ASSUME TypeOK, Kept, NEW r \in Requests, rq[r].pc = "answered",
         NEW w, w.tokens \in DhConsents \cup {0}, Faithful(w, r, rq[r], dh)
  PROVE  Faithful(w, r, rq'[r], dh')
  <1>1. rq'[r] = rq[r]
    BY DEF Kept
  <1>2. \A d \in DhConsents : dh[d].code = "consumed" =>
           /\ dh'[d].code = "consumed" /\ dh'[d].req = dh[d].req
           /\ dh'[d].arrangement = dh[d].arrangement
    BY DEF Kept
  <1> QED BY <1>1, <1>2, FaithfulStable

LEMMA RowUntouched ==
  ASSUME TypeOK, RowsFaithful, Kept, NEW r \in Requests, row'[r] = row[r],
         rq'[r].pc = "answered" => rq[r].pc = "answered"
  PROVE  RowFaithful(row'[r], r, rq'[r], dh')
  <1>1. CASE rq[r].pc = "answered"
    <2>1. row[r].tokens \in DhConsents \cup {0} /\ Faithful(row[r], r, rq[r], dh)
      BY <1>1 DEF TypeOK, Row, RowsFaithful, RowFaithful
    <2>2. Faithful(row[r], r, rq'[r], dh') /\ rq'[r] = rq[r]
      BY <1>1, <2>1, StillFaithful DEF Kept
    <2> QED BY <1>1, <2>2 DEF RowFaithful
  <1>2. CASE rq[r].pc # "answered"
    BY <1>2 DEF RowsFaithful, RowFaithful
  <1> QED BY <1>1, <1>2

LEMMA NextRowsFaithful ==
  ASSUME TypeOK, RowInv, Kept, [Next]_vars
  PROVE  RowsFaithful'
  <1> SUFFICES \A x \in Requests : RowFaithful(row'[x], x, rq'[x], dh')
    BY DEF RowsFaithful
  <1>0. RowsFaithful
    BY DEF RowInv
  <1>1. ASSUME UNCHANGED row,
               \A x \in Requests : rq'[x].pc = "answered" => rq[x].pc = "answered"
        PROVE  \A x \in Requests : RowFaithful(row'[x], x, rq'[x], dh')
    BY <1>0, <1>1, RowUntouched
  <1>2. ASSUME NEW r \in Requests, RequestConsent(r)
        PROVE  \A x \in Requests : RowFaithful(row'[x], x, rq'[x], dh')
    <2>1. rq'[r].pc # "answered" /\ row' = row
      BY <1>2 DEF RequestConsent, Iterate, TypeOK
    <2> QED BY <1>1, <1>2, <2>1, RequestSteps
  <1>3. ASSUME NEW r \in Requests, Push(r)
        PROVE  \A x \in Requests : RowFaithful(row'[x], x, rq'[x], dh')
    <2>1. rq'[r].pc # "answered" /\ row' = row
      BY <1>3, RetryRequestPc DEF Push, StoreRequest, TypeOK, Request
    <2> QED BY <1>1, <1>3, <2>1, RequestSteps
  <1>4. ASSUME NEW r \in Requests, LogAuthRequest(r)
        PROVE  \A x \in Requests : RowFaithful(row'[x], x, rq'[x], dh')
    <2>1. \A x \in Requests \ {r} : row'[x] = row[x] /\ rq'[x] = rq[x]
      BY <1>4, RequestSteps DEF LogAuthRequest, TypeOK
    <2>2. \A x \in Requests \ {r} : RowFaithful(row'[x], x, rq'[x], dh')
      BY <1>0, <2>1, RowUntouched
    <2>3. CASE Fault /\ RetryRequest(r) /\ UNCHANGED row
      BY <1>1, <2>1, <2>3, RetryRequestPc
    <2>4. CASE ~(Fault /\ RetryRequest(r) /\ UNCHANGED row)
      <3>1. /\ rq' = [rq EXCEPT ![r].pc = "answered"]
            /\ row' = [row EXCEPT ![r] =
                         [NoRow EXCEPT !.logged = TRUE, !.nonce = <<r, rq[r].iter>>,
                                       !.state = rq[r].state,
                                       !.arrangement = rq[r].existing]]
        BY <1>4, <2>4 DEF LogAuthRequest
      <3>2. /\ rq'[r].pc = "answered" /\ rq'[r].state = rq[r].state
            /\ rq'[r].existing = rq[r].existing
        BY <3>1 DEF TypeOK, Request
      <3>3. /\ row'[r].state = rq[r].state /\ row'[r].tokens = 0
            /\ row'[r].arrangement = rq[r].existing
        BY <3>1 DEF TypeOK, NoRow
      <3>4. RowFaithful(row'[r], r, rq'[r], dh')
        BY <3>2, <3>3 DEF RowFaithful, Faithful
      <3> QED BY <2>2, <3>4
    <2> QED BY <2>3, <2>4
  <1>5. ASSUME NEW r \in Requests, RevokeNext(r)
        PROVE  \A x \in Requests : RowFaithful(row'[x], x, rq'[x], dh')
    <2>1. CASE UNCHANGED row
      BY <1>1, <1>5, <2>1 DEF RevokeNext
    <2>2. CASE row' = [row EXCEPT ![r] = [rep.copy[r] EXCEPT !.revoked = TRUE]]
      <3>1. rq' = rq /\ r \in rep.todo /\ rep.copy[r] \in Row
        BY <1>5 DEF RevokeNext, TypeOK, Report
      <3> DEFINE w == [rep.copy[r] EXCEPT !.revoked = TRUE]
      <3>2. rq[r].pc = "answered" /\ Faithful(rep.copy[r], r, rq[r], dh)
        BY <3>1 DEF RowInv, CopiesFaithful
      <3>3. /\ w.state = rep.copy[r].state /\ w.tokens = rep.copy[r].tokens
            /\ w.arrangement = rep.copy[r].arrangement
            /\ w.tokens \in DhConsents \cup {0}
        BY <3>1 DEF Row
      <3>4. Faithful(w, r, rq[r], dh)
        BY <3>2, <3>3 DEF Faithful
      <3>5. Faithful(w, r, rq'[r], dh')
        BY <3>2, <3>3, <3>4, StillFaithful
      <3>6. RowFaithful(row'[r], r, rq'[r], dh')
        BY <2>2, <3>1, <3>2, <3>5 DEF RowFaithful, TypeOK
      <3>7. \A x \in Requests \ {r} : row'[x] = row[x]
        BY <2>2 DEF TypeOK
      <3> QED BY <1>0, <3>1, <3>6, <3>7, RowUntouched
    <2> QED BY <1>5, <2>1, <2>2 DEF RevokeNext
  <1>6. ASSUME NEW a \in Handlers, SaveTokens(a)
        PROVE  \A x \in Requests : RowFaithful(row'[x], x, rq'[x], dh')
    <2>1. CASE UNCHANGED row
      BY <1>1, <1>6, <2>1 DEF SaveTokens
    <2> DEFINE r == dh[conf[a].d].req
    <2>2. CASE row' = [row EXCEPT ![r] = conf[a].work]
      <3>1. rq' = rq /\ r \in Requests /\ conf[a].work.tokens \in DhConsents
        BY <1>6, ConfFields DEF SaveTokens, RowInv, WorkFaithful
      <3>2. Faithful(conf[a].work, r, rq[r], dh) /\ rq[r].pc = "answered"
        BY <1>6, <3>1, ConfFields DEF SaveTokens, RowInv, WorkFaithful, ConsentsFaithful
      <3>3. Faithful(conf[a].work, r, rq'[r], dh')
        BY <3>1, <3>2, StillFaithful
      <3>4. RowFaithful(row'[r], r, rq'[r], dh')
        BY <2>2, <3>1, <3>2, <3>3 DEF RowFaithful, TypeOK
      <3>5. \A x \in Requests \ {r} : row'[x] = row[x]
        BY <2>2 DEF TypeOK
      <3> QED BY <1>0, <3>1, <3>4, <3>5, RowUntouched
    <2> QED BY <1>6, <2>1, <2>2 DEF SaveTokens
  <1>7. CASE BackendRestart
    <2>1. \A x \in Requests : rq'[x].pc = "answered" => rq[x].pc = "answered"
      BY <1>7 DEF BackendRestart, TypeOK, Request
    <2> QED BY <1>1, <1>7, <2>1 DEF BackendRestart
  <1>8. ASSUME NEW d \in DhConsents, NEW r \in Requests, Authorize(d, r)
        PROVE  UNCHANGED <<rq, row>>
    BY <1>8 DEF Authorize
  <1>9. ASSUME NEW a \in Handlers, NEW d \in DhConsents, ConfirmStart(a, d)
         PROVE  UNCHANGED <<rq, row>>
    BY <1>9 DEF ConfirmStart
  <1>10. DhRestart \/ UNCHANGED vars => UNCHANGED <<rq, row>>
    BY DEF DhRestart, vars
  <1>11. ASSUME NEW d \in DhConsents, Withdraw(d) \/ ReportStart(d)
         PROVE  UNCHANGED <<rq, row>>
    BY <1>11 DEF Withdraw, ReportStart
  <1>12. ASSUME NEW a \in Handlers, FetchTokens(a) \/ LoadRow(a)
         PROVE  UNCHANGED <<rq, row>>
    BY <1>12 DEF FetchTokens, LoadRow
  <1> QED BY <1>1, <1>2, <1>3, <1>4, <1>5, <1>6, <1>7, <1>8, <1>9, <1>10,
             <1>11, <1>12 DEF Next

LEMMA NextConsentsFaithful ==
  ASSUME TypeOK, RowInv, Kept, [Next]_vars
  PROVE  ConsentsFaithful'
  <1> DEFINE Granted(d) ==
        dh'[d].code # "none" =>
          /\ rq'[dh'[d].req].pc = "answered"
          /\ dh'[d].challenge = <<dh'[d].req, rq'[dh'[d].req].iter>>
          /\ dh'[d].arrangement = IF rq'[dh'[d].req].existing # 0
                                  THEN rq'[dh'[d].req].existing ELSE d
      Unused(d) == dh'[d].code # "consumed" => dh'[d].presented = NoAttempt
  <1> SUFFICES \A d \in DhConsents : Granted(d) /\ Unused(d)
    BY DEF ConsentsFaithful, ArrangementOf
  <1>1. ASSUME NEW d \in DhConsents, dh[d].code # "none" PROVE Granted(d)
    <2>1. /\ dh[d].req \in Requests
          /\ rq[dh[d].req].pc = "answered"
          /\ dh[d].challenge = <<dh[d].req, rq[dh[d].req].iter>>
          /\ dh[d].arrangement = ArrangementOf(dh[d].req, d)
      BY <1>1 DEF TypeOK, DhConsent, RowInv, ConsentsFaithful
    <2>2. /\ dh'[d].req = dh[d].req /\ dh'[d].challenge = dh[d].challenge
          /\ dh'[d].arrangement = dh[d].arrangement /\ rq'[dh[d].req] = rq[dh[d].req]
      BY <1>1, <2>1 DEF Kept
    <2> QED BY <2>1, <2>2 DEF ArrangementOf
  <1>2. ASSUME NEW d \in DhConsents, dh'[d] = dh[d] PROVE Granted(d) /\ Unused(d)
    BY <1>1, <1>2 DEF RowInv, ConsentsFaithful
  <1>3. ASSUME UNCHANGED dh PROVE \A d \in DhConsents : Granted(d) /\ Unused(d)
    BY <1>2, <1>3
  <1>4. ASSUME NEW d \in DhConsents, NEW r \in Requests, Authorize(d, r)
        PROVE  \A x \in DhConsents : Granted(x) /\ Unused(x)
    <2>1. /\ rq' = rq /\ rq[r].pc = "answered" /\ dh[d].code = "none"
          /\ \A x \in DhConsents \ {d} : dh'[x] = dh[x]
      BY <1>4 DEF Authorize, TypeOK
    <2>2. /\ dh'[d].code = "ready" /\ dh'[d].req = r
          /\ dh'[d].challenge = <<r, rq[r].iter>>
          /\ dh'[d].arrangement = ArrangementOf(r, d)
          /\ dh'[d].presented = dh[d].presented
      BY <1>4 DEF Authorize, TypeOK, DhConsent
    <2>3. dh[d].presented = NoAttempt
      BY <2>1 DEF RowInv, ConsentsFaithful
    <2>4. Granted(d) /\ Unused(d)
      BY <2>1, <2>2, <2>3 DEF ArrangementOf
    <2> QED BY <1>2, <2>1, <2>4
  <1>5. ASSUME NEW d \in DhConsents, Withdraw(d)
        PROVE  \A x \in DhConsents : Granted(x) /\ Unused(x)
    <2>1. \A x \in DhConsents : /\ dh'[x].code = dh[x].code
                                /\ dh'[x].presented = dh[x].presented
      BY <1>5 DEF Withdraw, TypeOK, DhConsent
    <2> QED BY <1>1, <2>1 DEF RowInv, ConsentsFaithful
  <1>6. ASSUME NEW a \in Handlers, FetchTokens(a)
        PROVE  \A x \in DhConsents : Granted(x) /\ Unused(x)
    <2> DEFINE d == conf[a].d
               v == auth[row[dh[d].req].state]
    <2>1. CASE CodeAccepted(d, v) /\ Consume(d, v)
      <3>1. d \in DhConsents
        BY <1>6, ConfFields DEF FetchTokens
      <3>2. /\ \A x \in DhConsents \ {d} : dh'[x] = dh[x]
            /\ dh'[d].code = "consumed" /\ dh[d].code = "ready"
        BY <2>1, <3>1 DEF Consume, CodeAccepted, TypeOK, DhConsent
      <3> QED BY <1>1, <1>2, <3>1, <3>2
    <2> QED BY <1>3, <1>6, <2>1, FetchTokensSteps
  <1>7. ASSUME NEW r \in Requests, RequestConsent(r) \/ Push(r) \/ LogAuthRequest(r)
        PROVE  UNCHANGED dh
    BY <1>7, RequestSteps
  <1>8. ASSUME NEW r \in Requests, RevokeNext(r) PROVE UNCHANGED dh
    BY <1>8 DEF RevokeNext
  <1>9. ASSUME NEW d \in DhConsents, ReportStart(d) PROVE UNCHANGED dh
    BY <1>9 DEF ReportStart
  <1>10. ASSUME NEW a \in Handlers, NEW d \in DhConsents, ConfirmStart(a, d)
         PROVE  UNCHANGED dh
    BY <1>10 DEF ConfirmStart
  <1>11. ASSUME NEW a \in Handlers, LoadRow(a) \/ SaveTokens(a) PROVE UNCHANGED dh
    BY <1>11 DEF LoadRow, SaveTokens
  <1>12. DhRestart \/ BackendRestart \/ UNCHANGED vars => UNCHANGED dh
    BY DEF DhRestart, BackendRestart, vars
  <1> QED BY <1>3, <1>4, <1>5, <1>6, <1>7, <1>8, <1>9, <1>10, <1>11, <1>12
          DEF Next

(* A confirmation that begins again has nothing to save. *)
LEMMA RetryConfirmPc ==
  ASSUME TypeOK, NEW a \in Handlers, RetryConfirm(a)
  PROVE  /\ \A b \in Handlers \ {a} : conf'[b] = conf[b]
         /\ conf'[a].pc \in {"idle", "request"}
         /\ conf'[a].pc # "idle" => conf'[a].d = conf[a].d
  <1>1. CASE MayHeal(conf[a].iter)
    BY <1>1 DEF RetryConfirm, TypeOK
  <1>2. CASE ~MayHeal(conf[a].iter)
    BY <1>2 DEF RetryConfirm, TypeOK, Idle
  <1> QED BY <1>1, <1>2

LEMMA NextWorkFaithful ==
  ASSUME TypeOK, RowInv, Kept, [Next]_vars
  PROVE  WorkFaithful'
  <1> DEFINE Under(a) == conf'[a].pc # "idle" => /\ conf'[a].d \in DhConsents
                                                /\ dh'[conf'[a].d].code # "none"
      Used(a) == conf'[a].pc \in {"load", "save"} => dh'[conf'[a].d].code = "consumed"
      ToSave(a) == conf'[a].pc = "save" =>
                     /\ Faithful(conf'[a].work, dh'[conf'[a].d].req,
                                 rq'[dh'[conf'[a].d].req], dh')
                     /\ conf'[a].work.tokens = conf'[a].d
      Good(a) == Under(a) /\ Used(a) /\ ToSave(a)
  <1> SUFFICES \A a \in Handlers : Good(a)
    BY DEF WorkFaithful
  <1>1. ASSUME NEW a \in Handlers, conf'[a] = conf[a] PROVE Good(a)
    <2>1. CASE conf[a].pc = "idle"
      BY <1>1, <2>1
    <2>2. CASE conf[a].pc # "idle"
      <3>1. /\ conf[a].d \in DhConsents /\ dh[conf[a].d].code # "none"
            /\ dh[conf[a].d].req \in Requests
            /\ rq[dh[conf[a].d].req].pc = "answered"
        BY <2>2 DEF RowInv, WorkFaithful, ConsentsFaithful, TypeOK, DhConsent
      <3>2. dh'[conf[a].d].code # "none" /\ dh'[conf[a].d].req = dh[conf[a].d].req
        BY <3>1 DEF Kept
      <3>3. Under(a) /\ Used(a)
        BY <1>1, <3>1, <3>2 DEF RowInv, WorkFaithful, Kept
      <3>4. CASE conf[a].pc = "save"
        <4>1. /\ Faithful(conf[a].work, dh[conf[a].d].req, rq[dh[conf[a].d].req], dh)
              /\ conf[a].work.tokens = conf[a].d
          BY <3>4 DEF RowInv, WorkFaithful
        <4>2. Faithful(conf[a].work, dh[conf[a].d].req, rq'[dh[conf[a].d].req], dh')
          BY <3>1, <4>1, StillFaithful
        <4> QED BY <1>1, <3>2, <3>3, <4>1, <4>2
      <3> QED BY <1>1, <3>3, <3>4
    <2> QED BY <2>1, <2>2
  <1>2. ASSUME UNCHANGED conf PROVE \A a \in Handlers : Good(a)
    BY <1>1, <1>2
  <1>3. ASSUME NEW a \in Handlers, RetryConfirm(a), conf[a].pc # "idle"
        PROVE  \A b \in Handlers : Good(b)
    <2>1. conf[a].d \in DhConsents /\ dh'[conf[a].d].code # "none"
      BY <1>3 DEF RowInv, WorkFaithful, Kept
    <2>2. Good(a)
      BY <1>3, <2>1, RetryConfirmPc
    <2> QED BY <1>1, <1>3, <2>2, RetryConfirmPc
  <1>4. ASSUME NEW a \in Handlers, conf' = [conf EXCEPT ![a] = Idle]
        PROVE  \A b \in Handlers : Good(b)
    <2>1. conf'[a].pc = "idle" /\ \A b \in Handlers \ {a} : conf'[b] = conf[b]
      BY <1>4 DEF TypeOK, Idle
    <2> QED BY <1>1, <2>1
  <1>5. ASSUME NEW a \in Handlers, NEW d \in DhConsents, ConfirmStart(a, d)
        PROVE  \A b \in Handlers : Good(b)
    <2>1. /\ conf'[a].pc = "request" /\ conf'[a].d = d
          /\ \A b \in Handlers \ {a} : conf'[b] = conf[b]
          /\ dh[d].code # "none"
      BY <1>5 DEF ConfirmStart, TypeOK
    <2>2. Good(a)
      BY <2>1 DEF Kept
    <2> QED BY <1>1, <2>1, <2>2
  <1>6. ASSUME NEW a \in Handlers, FetchTokens(a) PROVE \A b \in Handlers : Good(b)
    <2> DEFINE d == conf[a].d
               v == auth[row[dh[d].req].state]
    <2>1. conf[a].pc # "idle" /\ d \in DhConsents
      BY <1>6, ConfFields DEF FetchTokens
    <2>2. CASE Consume(d, v) /\ conf' = [conf EXCEPT ![a].pc = "load"]
      <3>1. dh'[d].code = "consumed"
        BY <2>1, <2>2 DEF Consume, TypeOK, DhConsent
      <3>2. conf'[a].pc = "load" /\ conf'[a].d = d
        BY <2>2 DEF TypeOK, Confirmation
      <3>3. \A b \in Handlers \ {a} : conf'[b] = conf[b]
        BY <2>2 DEF TypeOK
      <3>4. Good(a)
        BY <2>1, <3>1, <3>2
      <3> QED BY <1>1, <3>3, <3>4
    <2> QED BY <1>3, <1>4, <1>6, <2>1, <2>2, FetchTokensSteps DEF NoAnswer
  <1>7. ASSUME NEW a \in Handlers, LoadRow(a) PROVE \A b \in Handlers : Good(b)
    <2> DEFINE d == conf[a].d
               w == row[dh[d].req]
               u == UpdateTokens(w, d)
    <2>1. conf[a].pc = "load" /\ d \in DhConsents /\ d # 0 /\ dh[d].req \in Requests
      BY <1>7, ConfFields, RequestsAssumption DEF LoadRow
    <2>2. CASE ~ArrangementMatches(w, d)
      BY <1>3, <1>7, <2>1, <2>2 DEF LoadRow
    <2>3. CASE ArrangementMatches(w, d)
      <3>1. conf' = [conf EXCEPT ![a].pc = "save", ![a].work = u] /\ dh' = dh /\ rq' = rq
        BY <1>7, <2>3 DEF LoadRow
      <3>2. /\ conf'[a].pc = "save" /\ conf'[a].d = d /\ conf'[a].work = u
            /\ \A b \in Handlers \ {a} : conf'[b] = conf[b]
        BY <3>1, ConfFields DEF TypeOK, Confirmation
      <3>3. /\ dh[d].code = "consumed" /\ rq[dh[d].req].pc = "answered"
        BY <2>1 DEF RowInv, WorkFaithful, ConsentsFaithful
      <3>4. Faithful(w, dh[d].req, rq[dh[d].req], dh)
        BY <2>1, <3>3 DEF RowInv, RowsFaithful, RowFaithful
      <3>5. /\ u.tokens = d /\ u.state = w.state /\ u.arrangement = dh[d].arrangement
        BY <2>1, <2>3, RowFields DEF UpdateTokens, ArrangementMatches, Row
      <3>6. Faithful(u, dh[d].req, rq[dh[d].req], dh)
        BY <2>1, <3>3, <3>4, <3>5 DEF Faithful
      <3>7. Good(a)
        BY <2>1, <3>1, <3>2, <3>3, <3>5, <3>6
      <3> QED BY <1>1, <3>2, <3>7
    <2> QED BY <2>2, <2>3
  <1>8. ASSUME NEW a \in Handlers, SaveTokens(a) PROVE \A b \in Handlers : Good(b)
    BY <1>3, <1>4, <1>8 DEF SaveTokens
  <1>9. CASE BackendRestart
    BY <1>9 DEF BackendRestart, Idle
  <1>10. ASSUME NEW r \in Requests, RequestConsent(r) \/ Push(r) \/ LogAuthRequest(r)
         PROVE  UNCHANGED conf
    BY <1>10, RequestSteps
  <1>11. ASSUME NEW r \in Requests, RevokeNext(r) PROVE UNCHANGED conf
    BY <1>11 DEF RevokeNext
  <1>12. ASSUME NEW d \in DhConsents, NEW r \in Requests, Authorize(d, r)
         PROVE  UNCHANGED conf
    BY <1>12 DEF Authorize
  <1>13. ASSUME NEW d \in DhConsents, Withdraw(d) \/ ReportStart(d) PROVE UNCHANGED conf
    BY <1>13 DEF Withdraw, ReportStart
  <1>14. DhRestart \/ UNCHANGED vars => UNCHANGED conf
    BY DEF DhRestart, vars
  <1> QED BY <1>2, <1>5, <1>6, <1>7, <1>8, <1>9, <1>10, <1>11, <1>12, <1>13,
             <1>14 DEF Next

LEMMA NextCopiesFaithful ==
  ASSUME TypeOK, RowInv, Kept, [Next]_vars
  PROVE  CopiesFaithful'
  <1> DEFINE Good(r) == /\ rq'[r].pc = "answered"
                        /\ Faithful(rep'.copy[r], r, rq'[r], dh')
                        /\ rep'.copy[r].tokens # 0
  <1> SUFFICES \A r \in rep'.todo : Good(r)
    BY DEF CopiesFaithful
  <1>1. ASSUME NEW r \in rep.todo, rep'.copy[r] = rep.copy[r] PROVE Good(r)
    <2>1. /\ r \in Requests /\ rep.copy[r].tokens \in DhConsents \cup {0}
      BY DEF TypeOK, Report, Row
    <2>2. rq[r].pc = "answered" /\ Faithful(rep.copy[r], r, rq[r], dh)
          /\ rep.copy[r].tokens # 0
      BY DEF RowInv, CopiesFaithful
    <2> QED BY <1>1, <2>1, <2>2, StillFaithful DEF Kept
  <1>2. ASSUME rep'.todo \subseteq rep.todo,
               \A r \in rep'.todo : rep'.copy[r] = rep.copy[r]
        PROVE  \A r \in rep'.todo : Good(r)
    BY <1>1, <1>2
  <1>3. ASSUME NEW q \in Requests, RevokeNext(q) PROVE \A r \in rep'.todo : Good(r)
    <2>1. CASE RevokeFails(q)
      BY <2>1 DEF RevokeFails, TypeOK, Report
    <2>2. CASE rep' = [rep EXCEPT !.todo = rep.todo \ {q}, !.copy[q] = NoRow,
                                 !.pc = IF rep.todo = {q} THEN "answered" ELSE "revoke"]
      <3>1. rep'.todo = rep.todo \ {q}
        BY <2>2 DEF TypeOK, Report
      <3>2. \A r \in Requests \ {q} : rep'.copy[r] = rep.copy[r]
        BY <2>2 DEF TypeOK, Report
      <3>3. rep.todo \subseteq Requests
        BY DEF TypeOK, Report
      <3> QED BY <1>2, <3>1, <3>2, <3>3
    <2> QED BY <1>3, <2>1, <2>2 DEF RevokeNext
  <1>4. ASSUME NEW d \in DhConsents, ReportStart(d) PROVE \A r \in rep'.todo : Good(r)
    <2>1. ASSUME NEW r \in rep'.todo PROVE Good(r)
      <3>1. r \in CurrentOf(dh[d].arrangement) /\ rep'.copy[r] = row[r]
        BY <1>4, <2>1 DEF ReportStart, CurrentOf
      <3>2. r \in Requests /\ row[r].tokens # 0 /\ row[r].tokens \in DhConsents \cup {0}
        BY <3>1 DEF CurrentOf, IsCurrent, Finalised, TypeOK, Row
      <3>3. rq[r].pc = "answered" /\ Faithful(row[r], r, rq[r], dh)
        BY <3>2 DEF RowInv, RowsFaithful, RowFaithful, NoRow
      <3> QED BY <3>1, <3>2, <3>3, StillFaithful DEF Kept
    <2> QED BY <2>1
  <1>5. ASSUME NEW a \in Handlers, SaveTokens(a) PROVE \A r \in rep'.todo : Good(r)
    <2>1. rep'.todo = rep.todo /\ rep'.copy = rep.copy
      BY <1>5 DEF SaveTokens, TypeOK, Report
    <2> QED BY <1>2, <2>1
  <1>6. ASSUME UNCHANGED rep PROVE \A r \in rep'.todo : Good(r)
    BY <1>2, <1>6
  <1>7. ASSUME NEW r \in Requests, RequestConsent(r) \/ Push(r) \/ LogAuthRequest(r)
        PROVE  UNCHANGED rep
    BY <1>7, RequestSteps
  <1>8. ASSUME NEW d \in DhConsents, NEW r \in Requests, Authorize(d, r)
        PROVE  UNCHANGED rep
    BY <1>8 DEF Authorize
  <1>9. ASSUME NEW d \in DhConsents, Withdraw(d) PROVE UNCHANGED rep
    BY <1>9 DEF Withdraw
  <1>10. ASSUME NEW a \in Handlers, NEW d \in DhConsents, ConfirmStart(a, d)
         PROVE  UNCHANGED rep
    BY <1>10 DEF ConfirmStart
  <1>11. ASSUME NEW a \in Handlers, FetchTokens(a) \/ LoadRow(a) PROVE UNCHANGED rep
    BY <1>11 DEF FetchTokens, LoadRow
  <1>12. DhRestart \/ BackendRestart \/ UNCHANGED vars => UNCHANGED rep
    BY DEF DhRestart, BackendRestart, vars
  <1> QED BY <1>3, <1>4, <1>5, <1>6, <1>7, <1>8, <1>9, <1>10, <1>11, <1>12
          DEF Next

LEMMA NextRowInv == TypeOK /\ RowInv /\ [Next]_vars => RowInv'
  BY NextKept, NextRowsFaithful, NextConsentsFaithful, NextWorkFaithful,
     NextCopiesFaithful DEF RowInv

-----------------------------------------------------------------------------
(***************************************************************************)
(* Which steps touch a row that is there.                                  *)
(***************************************************************************)

(* A row with tokens is not logged anew: only a confirmation that saves    *)
(* and a report that revokes write it.                                     *)
LEMMA RowWrites ==
  ASSUME TypeOK, RowInv, [Next]_vars, NEW r \in Requests, row[r] # NoRow
  PROVE  \/ row'[r] = row[r]
         \/ RevokeNext(r) /\ row'[r] = [rep.copy[r] EXCEPT !.revoked = TRUE]
         \/ \E a \in Handlers : /\ SaveTokens(a) /\ dh[conf[a].d].req = r
                               /\ row'[r] = conf[a].work /\ r \notin rep'.seen
  <1> DEFINE Goal == \/ row'[r] = row[r]
                     \/ RevokeNext(r) /\ row'[r] = [rep.copy[r] EXCEPT !.revoked = TRUE]
                     \/ \E a \in Handlers : /\ SaveTokens(a) /\ dh[conf[a].d].req = r
                                           /\ row'[r] = conf[a].work
                                           /\ r \notin rep'.seen
  <1>0. rq[r].pc = "answered"
    BY DEF RowInv, RowsFaithful, RowFaithful
  <1>1. ASSUME NEW q \in Requests, RequestConsent(q) \/ Push(q) \/ LogAuthRequest(q)
        PROVE  Goal
    BY <1>0, <1>1, RequestSteps DEF RequestConsent, Push, StoreRequest, LogAuthRequest, TypeOK
  <1>2. ASSUME NEW q \in Requests, RevokeNext(q) PROVE Goal
    BY <1>2 DEF RevokeNext, TypeOK
  <1>3. ASSUME NEW a \in Handlers, SaveTokens(a) PROVE Goal
    <2>1. CASE UNCHANGED row \/ dh[conf[a].d].req # r
      BY <1>3, <2>1 DEF SaveTokens, TypeOK
    <2>2. CASE row' # row /\ dh[conf[a].d].req = r
      <3>1. row'[r] = conf[a].work /\ rep' = [rep EXCEPT !.seen = @ \ {r}]
        BY <1>3, <2>2 DEF SaveTokens, TypeOK
      <3>2. r \notin rep'.seen
        BY <3>1 DEF TypeOK, Report
      <3> QED BY <1>3, <2>2, <3>1, <3>2
    <2> QED BY <2>1, <2>2
  <1>4. ASSUME UNCHANGED row PROVE Goal
    BY <1>4
  <1>5. ASSUME NEW d \in DhConsents, NEW q \in Requests, Authorize(d, q)
        PROVE  UNCHANGED row
    BY <1>5 DEF Authorize
  <1>6. ASSUME NEW d \in DhConsents, Withdraw(d) \/ ReportStart(d) PROVE UNCHANGED row
    BY <1>6 DEF Withdraw, ReportStart
  <1>7. ASSUME NEW a \in Handlers, NEW d \in DhConsents, ConfirmStart(a, d)
        PROVE  UNCHANGED row
    BY <1>7 DEF ConfirmStart
  <1>8. ASSUME NEW a \in Handlers, FetchTokens(a) \/ LoadRow(a) PROVE UNCHANGED row
    BY <1>8 DEF FetchTokens, LoadRow
  <1>9. DhRestart \/ BackendRestart \/ UNCHANGED vars => UNCHANGED row
    BY DEF DhRestart, BackendRestart, vars
  <1> HIDE DEF Goal
  <1>10. Goal
    BY <1>1, <1>2, <1>3, <1>4, <1>5, <1>6, <1>7, <1>8, <1>9 DEF Next
  <1> QED BY <1>10 DEF Goal

(* A row that has tokens keeps having some. *)
LEMMA TokensStay ==
  ASSUME TypeOK, RowInv, [Next]_vars, NEW r \in Requests, row[r].tokens # 0
  PROVE  row'[r].tokens # 0
  <1>1. row[r] # NoRow
    BY DEF NoRow
  <1>2. CASE RevokeNext(r) /\ row'[r] = [rep.copy[r] EXCEPT !.revoked = TRUE]
    <2>1. rep.copy[r].tokens # 0 /\ rep.copy[r] \in Row
      BY <1>2 DEF RevokeNext, RowInv, CopiesFaithful, TypeOK, Report
    <2> QED BY <1>2, <2>1 DEF Row
  <1>3. ASSUME NEW a \in Handlers, SaveTokens(a), row'[r] = conf[a].work
        PROVE  row'[r].tokens # 0
    <2>1. conf[a].work.tokens = conf[a].d /\ conf[a].d \in DhConsents
      BY <1>3, ConfFields DEF SaveTokens, RowInv, WorkFaithful
    <2> QED BY <1>3, <2>1, RequestsAssumption
  <1> QED BY <1>1, <1>2, <1>3, RowWrites

-----------------------------------------------------------------------------
(***************************************************************************)
(* The report of a withdrawn arrangement.                                  *)
(***************************************************************************)

(* Row r is revoked, or the report p, or the next one if p has failed,     *)
(* will find it or has found it.                                           *)
Ended(r, w, p) ==
  \/ w.revoked
  \/ /\ p.pc \in {"revoke", "failed"}
     /\ p.pc = "revoke" => r \in p.todo
     /\ w.tokens # 0
     /\ w.arrangement = p.arrangement

LEMMA NextReportComplete ==
  ASSUME TypeOK, RowInv, ReportComplete, [Next]_vars
  PROVE  ReportComplete'
  <1> DEFINE Goal == /\ rep'.pc = "none" => rep'.seen = {}
                     /\ \A r \in rep'.seen : Ended(r, row'[r], rep')
  <1> SUFFICES Goal
    BY DEF ReportComplete, Ended
  <1>0. /\ rep.pc = "none" => rep.seen = {}
        /\ \A r \in rep.seen : r \in Requests /\ row[r] # NoRow /\ Ended(r, row[r], rep)
    BY DEF ReportComplete, Ended, TypeOK, Report, NoRow
  <1>1. ASSUME NEW q \in Requests, RevokeNext(q) PROVE Goal
    <2>1. rep.pc = "revoke" /\ rep \in Report
      BY <1>1 DEF RevokeNext, TypeOK
    <2>2. CASE RevokeFails(q) /\ UNCHANGED row
      <3>1. /\ rep'.pc = "failed" /\ rep'.seen = rep.seen
            /\ rep'.arrangement = rep.arrangement
        BY <2>1, <2>2 DEF RevokeFails, Report
      <3> QED BY <1>0, <2>1, <2>2, <3>1 DEF Ended
    <2>3. CASE /\ row' = [row EXCEPT ![q] = [rep.copy[q] EXCEPT !.revoked = TRUE]]
               /\ rep' = [rep EXCEPT !.todo = rep.todo \ {q}, !.copy[q] = NoRow,
                                     !.pc = IF rep.todo = {q} THEN "answered"
                                                              ELSE "revoke"]
      <3>1. /\ rep'.todo = rep.todo \ {q} /\ rep'.seen = rep.seen
            /\ rep'.arrangement = rep.arrangement
            /\ rep'.pc = IF rep.todo = {q} THEN "answered" ELSE "revoke"
        BY <2>1, <2>3 DEF Report
      <3>2. row'[q].revoked
        BY <2>1, <2>3 DEF TypeOK, Report, Row
      <3>3. \A r \in Requests \ {q} : row'[r] = row[r]
        BY <2>3 DEF TypeOK
      <3>4. ASSUME NEW r \in rep.seen, r # q PROVE Ended(r, row'[r], rep')
        BY <1>0, <2>1, <3>1, <3>3, <3>4 DEF Ended
      <3>5. Ended(q, row'[q], rep')
        BY <3>2 DEF Ended
      <3>6. rep'.pc # "none"
        BY <3>1
      <3> QED BY <3>1, <3>4, <3>5, <3>6
    <2> QED BY <1>1, <2>2, <2>3 DEF RevokeNext
  <1>2. ASSUME NEW d \in DhConsents, ReportStart(d) PROVE Goal
    <2> DEFINE found == CurrentOf(dh[d].arrangement)
    <2>1. /\ row' = row /\ rep'.todo = found /\ rep'.seen = rep.seen \cup found
          /\ rep'.arrangement = dh[d].arrangement
          /\ rep'.pc = IF found = {} THEN "answered" ELSE "revoke"
          /\ rep.pc = "none" \/ (rep.pc = "failed" /\ rep.arrangement = dh[d].arrangement)
      BY <1>2 DEF ReportStart
    <2>2. ASSUME NEW r \in rep'.seen, ~row[r].revoked
          PROVE  r \in found
      <3>1. CASE r \in rep.seen
        <4>1. r \in Requests /\ row[r].tokens # 0 /\ row[r].arrangement = dh[d].arrangement
          BY <1>0, <2>1, <2>2, <3>1 DEF Ended
        <4> QED BY <2>2, <4>1 DEF CurrentOf, IsCurrent, Finalised
      <3> QED BY <2>1, <3>1
    <2>3. \A r \in found : /\ row[r].tokens # 0
                           /\ row[r].arrangement = dh[d].arrangement
      BY DEF CurrentOf, IsCurrent, Finalised
    <2>4. ASSUME NEW r \in rep'.seen PROVE Ended(r, row'[r], rep')
      <3>1. CASE row[r].revoked
        BY <2>1, <3>1 DEF Ended
      <3>2. CASE ~row[r].revoked
        <4>1. r \in found
          BY <2>2, <3>2
        <4>2. rep'.pc = "revoke" /\ r \in rep'.todo
          BY <2>1, <4>1
        <4>3. row'[r].tokens # 0 /\ row'[r].arrangement = rep'.arrangement
          BY <2>1, <2>3, <4>1
        <4> QED BY <4>2, <4>3 DEF Ended
      <3> QED BY <3>1, <3>2
    <2>5. rep'.pc # "none"
      BY <2>1
    <2> QED BY <2>4, <2>5
  <1>3. ASSUME rep'.seen \subseteq rep.seen, rep'.pc = rep.pc, rep'.todo = rep.todo,
               rep'.arrangement = rep.arrangement,
               \A r \in rep'.seen : row'[r] = row[r]
        PROVE  Goal
    BY <1>0, <1>3 DEF Ended
  <1>4. ASSUME NEW a \in Handlers, SaveTokens(a) PROVE Goal
    <2> DEFINE q == dh[conf[a].d].req
    <2>1. CASE UNCHANGED <<row, rep>>
      BY <1>3, <2>1
    <2>2. CASE /\ row' = [row EXCEPT ![q] = conf[a].work]
               /\ rep' = [rep EXCEPT !.seen = @ \ {q}]
      <3>1. /\ rep'.seen = rep.seen \ {q} /\ rep'.pc = rep.pc /\ rep'.todo = rep.todo
            /\ rep'.arrangement = rep.arrangement
        BY <2>2 DEF TypeOK, Report
      <3>2. \A r \in rep'.seen : row'[r] = row[r]
        BY <1>0, <2>2, <3>1 DEF TypeOK
      <3> QED BY <1>3, <3>1, <3>2
    <2> QED BY <1>4, <2>1, <2>2 DEF SaveTokens
  <1>5. ASSUME NEW r \in Requests, RequestConsent(r) \/ Push(r) \/ LogAuthRequest(r)
        PROVE  Goal
    <2>1. UNCHANGED rep
      BY <1>5, RequestSteps
    <2>2. \A x \in Requests \ {r} : row'[x] = row[x]
      BY <1>5 DEF RequestConsent, Push, StoreRequest, LogAuthRequest, TypeOK
    <2>3. row[r] = NoRow
      BY <1>5, RequestSteps DEF RowInv, RowsFaithful, RowFaithful
    <2> QED BY <1>0, <1>3, <2>1, <2>2, <2>3
  <1>6. ASSUME UNCHANGED <<row, rep>> PROVE Goal
    BY <1>3, <1>6
  <1>7. ASSUME NEW d \in DhConsents, NEW r \in Requests, Authorize(d, r)
        PROVE  UNCHANGED <<row, rep>>
    BY <1>7 DEF Authorize
  <1>8. ASSUME NEW d \in DhConsents, Withdraw(d) PROVE UNCHANGED <<row, rep>>
    BY <1>8 DEF Withdraw
  <1>9. ASSUME NEW a \in Handlers, NEW d \in DhConsents, ConfirmStart(a, d)
         PROVE  UNCHANGED <<row, rep>>
    BY <1>9 DEF ConfirmStart
  <1>10. ASSUME NEW a \in Handlers, FetchTokens(a) \/ LoadRow(a)
         PROVE  UNCHANGED <<row, rep>>
    BY <1>10 DEF FetchTokens, LoadRow
  <1>11. DhRestart \/ BackendRestart \/ UNCHANGED vars => UNCHANGED <<row, rep>>
    BY DEF DhRestart, BackendRestart, vars
  <1> HIDE DEF Goal
  <1> QED BY <1>1, <1>2, <1>4, <1>5, <1>6, <1>7, <1>8, <1>9, <1>10, <1>11
          DEF Next

-----------------------------------------------------------------------------
(***************************************************************************)
(* The tokens of a consumed code.                                          *)
(***************************************************************************)

(* A version of the row of d's request that has tokens has those of d.     *)
LEMMA TokensAreOwn ==
  ASSUME TypeOK, RowInv, NEW d \in DhConsents, dh[d].code # "none", AuthorizedOnce(d),
         row[dh[d].req].tokens # 0
  PROVE  row[dh[d].req].tokens = d
  <1>1. /\ dh[d].req \in Requests /\ rq[dh[d].req].pc = "answered"
        /\ row[dh[d].req].tokens \in DhConsents
    BY DEF TypeOK, DhConsent, Row, RowInv, ConsentsFaithful
  <1>2. /\ dh[row[dh[d].req].tokens].code = "consumed"
        /\ dh[row[dh[d].req].tokens].req = dh[d].req
    BY <1>1 DEF RowInv, RowsFaithful, RowFaithful, Faithful
  <1> QED BY <1>1, <1>2 DEF AuthorizedOnce

(* Whether the code is about to be saved by a confirmation. *)
Saving(d, c) == \E a \in Handlers : c[a].pc \in {"load", "save"} /\ c[a].d = d

(* The only ways out of saving. *)
LEMMA SavingEnds ==
  ASSUME TypeOK, RowInv, [Next]_vars, NEW d \in DhConsents, d \notin failed',
         NEW a \in Handlers, conf[a].pc \in {"load", "save"}, conf[a].d = d,
         ~(conf'[a].pc \in {"load", "save"} /\ conf'[a].d = d)
  PROVE  \/ LoadRow(a) /\ ~ArrangementMatches(row[dh[d].req], d)
         \/ SaveTokens(a) /\ row'[dh[d].req].tokens = d
  <1> DEFINE Goal == \/ LoadRow(a) /\ ~ArrangementMatches(row[dh[d].req], d)
                     \/ SaveTokens(a) /\ row'[dh[d].req].tokens = d
  <1>1. conf' # conf
    OBVIOUS
  <1>2. ASSUME NEW b \in Handlers, RetryConfirm(b) \/ NoAnswer(b), b # a PROVE FALSE
    BY <1>2, RetryConfirmPc DEF NoAnswer, TypeOK
  <1>3. ASSUME NEW b \in Handlers, NEW x \in DhConsents, ConfirmStart(b, x) PROVE FALSE
    BY <1>3 DEF ConfirmStart, TypeOK
  <1>4. ASSUME NEW b \in Handlers, FetchTokens(b) PROVE FALSE
    <2>1. b # a
      BY <1>4 DEF FetchTokens
    <2>2. CASE conf' = [conf EXCEPT ![b].pc = "load"]
      BY <2>1, <2>2 DEF TypeOK
    <2> QED BY <1>2, <1>4, <2>1, <2>2, FetchTokensSteps
  <1>5. ASSUME NEW b \in Handlers, LoadRow(b) PROVE Goal
    <2>1. CASE b # a
      <3>1. CASE RetryConfirm(b)
        BY <1>2, <2>1, <3>1
      <3>2. CASE ~RetryConfirm(b)
        <4>1. conf' = [conf EXCEPT ![b].pc = "save",
                                   ![b].work = UpdateTokens(row[dh[conf[b].d].req], conf[b].d)]
          BY <1>5, <3>2 DEF LoadRow
        <4> QED BY <2>1, <4>1 DEF TypeOK
      <3> QED BY <3>1, <3>2
    <2>2. CASE b = a /\ ArrangementMatches(row[dh[d].req], d)
      <3>1. conf' = [conf EXCEPT ![a].pc = "save",
                                 ![a].work = UpdateTokens(row[dh[d].req], d)]
        BY <1>5, <2>2 DEF LoadRow
      <3>2. conf'[a].pc = "save" /\ conf'[a].d = d
        BY <3>1, ConfFields DEF TypeOK, Confirmation
      <3> QED BY <3>2
    <2> QED BY <1>5, <2>1, <2>2
  <1>6. ASSUME NEW b \in Handlers, SaveTokens(b) PROVE Goal
    <2>1. CASE conf' = [conf EXCEPT ![b] = Idle]
               /\ row' = [row EXCEPT ![dh[conf[b].d].req] = conf[b].work]
      <3>1. b = a
        BY <2>1 DEF TypeOK
      <3>2. conf[a].work.tokens = d /\ dh[d].req \in Requests
        BY <1>6, <3>1, ConfFields DEF SaveTokens, RowInv, WorkFaithful
      <3>3. row'[dh[d].req] = conf[a].work
        BY <2>1, <3>1, <3>2 DEF TypeOK
      <3> QED BY <1>6, <3>1, <3>2, <3>3
    <2>2. CASE RetryConfirm(b) /\ failed' = failed \cup {conf[b].d}
      BY <1>2, <2>2
    <2> QED BY <1>6, <2>1, <2>2 DEF SaveTokens
  <1>7. CASE BackendRestart
    BY <1>7 DEF BackendRestart
  <1>8. ASSUME NEW r \in Requests, RequestConsent(r) \/ Push(r) \/ LogAuthRequest(r)
        PROVE  UNCHANGED conf
    BY <1>8, RequestSteps
  <1>9. ASSUME NEW r \in Requests, RevokeNext(r) PROVE UNCHANGED conf
    BY <1>9 DEF RevokeNext
  <1>10. ASSUME NEW x \in DhConsents, NEW r \in Requests, Authorize(x, r)
         PROVE  UNCHANGED conf
    BY <1>10 DEF Authorize
  <1>11. ASSUME NEW x \in DhConsents, Withdraw(x) \/ ReportStart(x) PROVE UNCHANGED conf
    BY <1>11 DEF Withdraw, ReportStart
  <1>12. DhRestart \/ UNCHANGED vars => UNCHANGED conf
    BY DEF DhRestart, vars
  <1> HIDE DEF Goal
  <1>13. Goal
    BY <1>1, <1>3, <1>4, <1>5, <1>6, <1>7, <1>8, <1>9, <1>10, <1>11, <1>12
       DEF Next
  <1> QED BY <1>13 DEF Goal

LEMMA AuthorizedOnceBefore ==
  ASSUME TypeOK, Kept, NEW d \in DhConsents, dh[d].code # "none", AuthorizedOnce(d)'
  PROVE  AuthorizedOnce(d)
  BY DEF AuthorizedOnce, Kept

LEMMA NextConsumedCodeIsSaved ==
  ASSUME TypeOK, TypeOK', RowInv, RowInv', Kept, ConsumedCodeIsSaved, [Next]_vars
  PROVE  ConsumedCodeIsSaved'
  <1> SUFFICES ASSUME NEW d \in DhConsents, d \notin failed', dh'[d].code = "consumed",
                      AuthorizedOnce(d)', ~Saving(d, conf')
               PROVE  row'[dh'[d].req].tokens = d
    BY DEF ConsumedCodeIsSaved, Saving
  <1>1. row'[dh'[d].req].tokens # 0 => row'[dh'[d].req].tokens = d
    <2>1. ASSUME NEW x \in DhConsents, dh'[x].code # "none", dh'[x].req = dh'[d].req
          PROVE  x = d
      BY <2>1 DEF AuthorizedOnce
    <2>2. /\ dh'[d].req \in Requests /\ rq'[dh'[d].req].pc = "answered"
          /\ row'[dh'[d].req].tokens \in DhConsents \cup {0}
      BY DEF TypeOK, DhConsent, Row, RowInv, ConsentsFaithful
    <2>3. row'[dh'[d].req].tokens # 0 =>
            /\ dh'[row'[dh'[d].req].tokens].code = "consumed"
            /\ dh'[row'[dh'[d].req].tokens].req = dh'[d].req
      BY <2>2 DEF RowInv, RowsFaithful, RowFaithful, Faithful
    <2> QED BY <2>1, <2>2, <2>3
  <1>2. CASE dh[d].code # "consumed"
    <2>1. ~(dh[d].code # "consumed" /\ \A a \in Handlers : ~FetchTokens(a))
      <3> SUFFICES ASSUME \A a \in Handlers : ~FetchTokens(a) PROVE dh'[d].code = dh[d].code
        BY <1>2
      <3>1. ASSUME NEW r \in Requests, RequestConsent(r) \/ Push(r) \/ LogAuthRequest(r)
            PROVE  UNCHANGED dh
        BY <3>1, RequestSteps
      <3>2. ASSUME NEW r \in Requests, RevokeNext(r) PROVE UNCHANGED dh
        BY <3>2 DEF RevokeNext
      <3>3. ASSUME NEW x \in DhConsents, NEW r \in Requests, Authorize(x, r)
            PROVE  dh'[d].code # "consumed"
        BY <1>2, <3>3 DEF Authorize, TypeOK
      <3>4. ASSUME NEW x \in DhConsents, Withdraw(x) PROVE dh'[d].code = dh[d].code
        BY <3>4 DEF Withdraw, TypeOK, DhConsent
      <3>5. ASSUME NEW x \in DhConsents, ReportStart(x) PROVE UNCHANGED dh
        BY <3>5 DEF ReportStart
      <3>6. ASSUME NEW a \in Handlers, NEW x \in DhConsents, ConfirmStart(a, x)
            PROVE  UNCHANGED dh
        BY <3>6 DEF ConfirmStart
      <3>7. ASSUME NEW a \in Handlers, LoadRow(a) \/ SaveTokens(a) PROVE UNCHANGED dh
        BY <3>7 DEF LoadRow, SaveTokens
      <3>8. DhRestart \/ BackendRestart \/ UNCHANGED vars => UNCHANGED dh
        BY DEF DhRestart, BackendRestart, vars
      <3> QED BY <3>1, <3>2, <3>3, <3>4, <3>5, <3>6, <3>7, <3>8 DEF Next
    <2>2. PICK a \in Handlers : FetchTokens(a)
      BY <1>2, <2>1
    <2> DEFINE x == conf[a].d
               v == auth[row[dh[x].req].state]
    <2>3. x \in DhConsents
      BY <2>2, ConfFields DEF FetchTokens
    <2>4. dh' # dh
      BY <1>2
    <2>5. /\ Consume(x, v)
          /\ \/ conf' = [conf EXCEPT ![a].pc = "load"]
             \/ failed' = failed \cup {x}
      BY <2>2, <2>4, FetchTokensSteps
    <2>6. x = d
      BY <1>2, <2>3, <2>5 DEF Consume, TypeOK
    <2>7. CASE conf' = [conf EXCEPT ![a].pc = "load"]
      <3>1. conf'[a].pc = "load" /\ conf'[a].d = d
        BY <2>6, <2>7 DEF TypeOK, Confirmation
      <3> QED BY <3>1 DEF Saving
    <2> QED BY <2>5, <2>6, <2>7
  <1>3. CASE dh[d].code = "consumed"
    <2>1. dh'[d].req = dh[d].req /\ dh[d].req \in Requests
      BY <1>3 DEF Kept, TypeOK, DhConsent
    <2>2. AuthorizedOnce(d)
      BY <1>3, AuthorizedOnceBefore
    <2>3. d \notin failed
      <3>1. failed \subseteq failed'
        BY DEF Next, RequestConsent, Push, StoreRequest, LogAuthRequest, RevokeNext,
               Authorize, Withdraw, ReportStart, ConfirmStart, FetchTokens, LoadRow,
               SaveTokens, DhRestart, BackendRestart, vars
      <3> QED BY <3>1
    <2>4. CASE ~Saving(d, conf)
      <3>1. row[dh[d].req].tokens = d
        BY <1>3, <2>2, <2>3, <2>4 DEF ConsumedCodeIsSaved, Saving
      <3>2. row'[dh[d].req].tokens # 0
        BY <2>1, <3>1, TokensStay, RequestsAssumption
      <3> QED BY <1>1, <2>1, <3>2
    <2>5. CASE Saving(d, conf)
      <3>1. PICK a \in Handlers : conf[a].pc \in {"load", "save"} /\ conf[a].d = d
        BY <2>5 DEF Saving
      <3>2. ~(conf'[a].pc \in {"load", "save"} /\ conf'[a].d = d)
        BY DEF Saving
      <3>3. ArrangementMatches(row[dh[d].req], d)
        <4> DEFINE r == dh[d].req
        <4>1. rq[r].pc = "answered" /\ dh[d].arrangement = ArrangementOf(r, d)
          BY <1>3 DEF RowInv, ConsentsFaithful
        <4>2. Faithful(row[r], r, rq[r], dh)
          BY <2>1, <4>1 DEF RowInv, RowsFaithful, RowFaithful
        <4>3. CASE row[r].tokens = 0
          BY <4>1, <4>2, <4>3 DEF Faithful, ArrangementMatches, ArrangementOf
        <4>4. CASE row[r].tokens # 0
          <5>1. row[r].tokens = d
            BY <1>3, <2>2, <4>4, TokensAreOwn
          <5> QED BY <4>2, <4>4, <5>1 DEF Faithful, ArrangementMatches
        <4> QED BY <4>3, <4>4
      <3> QED BY <2>1, <3>1, <3>2, <3>3, SavingEnds
    <2> QED BY <2>4, <2>5
  <1> QED BY <1>2, <1>3

-----------------------------------------------------------------------------
(***************************************************************************)
(* The code verifier.                                                      *)
(***************************************************************************)

LEMMA Lengths == Lost \notin Attempts /\ NoAttempt \notin Attempts /\ Lost # NoAttempt
  <1>1. \A t \in Attempts : \E r \in Requests, i \in 0 .. MaxHealing : t = <<r, i>>
    BY DEF Attempts
  <1> QED BY <1>1 DEF Lost, NoAttempt

(* A request that has begun keeps its state. *)
LEMMA StateStays ==
  ASSUME TypeOK, [Next]_vars
  PROVE  \A r \in Requests :
           rq[r].pc # "new" => rq'[r].pc # "new" /\ rq'[r].state = rq[r].state
  <1> DEFINE Goal == \A r \in Requests :
                       rq[r].pc # "new" => rq'[r].pc # "new" /\ rq'[r].state = rq[r].state
  <1>1. ASSUME NEW r \in Requests, RequestConsent(r) \/ Push(r) \/ LogAuthRequest(r)
        PROVE  Goal
    BY <1>1, RequestSteps
  <1>2. BackendRestart => Goal
    BY DEF BackendRestart, TypeOK, Request
  <1>3. ASSUME UNCHANGED rq PROVE Goal
    BY <1>3
  <1>4. ASSUME NEW r \in Requests, RevokeNext(r) PROVE UNCHANGED rq
    BY <1>4 DEF RevokeNext
  <1>5. ASSUME NEW d \in DhConsents, NEW r \in Requests, Authorize(d, r)
        PROVE  UNCHANGED rq
    BY <1>5 DEF Authorize
  <1>6. ASSUME NEW d \in DhConsents, Withdraw(d) \/ ReportStart(d) PROVE UNCHANGED rq
    BY <1>6 DEF Withdraw, ReportStart
  <1>7. ASSUME NEW a \in Handlers, NEW d \in DhConsents, ConfirmStart(a, d)
        PROVE  UNCHANGED rq
    BY <1>7 DEF ConfirmStart
  <1>8. ASSUME NEW a \in Handlers, FetchTokens(a) \/ LoadRow(a) \/ SaveTokens(a)
        PROVE  UNCHANGED rq
    BY <1>8 DEF FetchTokens, LoadRow, SaveTokens
  <1>9. DhRestart \/ UNCHANGED vars => UNCHANGED rq
    BY DEF DhRestart, vars
  <1> HIDE DEF Goal
  <1>10. Goal
    BY <1>1, <1>2, <1>3, <1>4, <1>5, <1>6, <1>7, <1>8, <1>9 DEF Next
  <1> QED BY <1>10 DEF Goal

LEMMA OwnStateBefore ==
  ASSUME TypeOK, [Next]_vars, NEW r \in Requests, rq[r].pc # "new", OwnState(r)'
  PROVE  OwnState(r)
  BY StateStays DEF OwnState

LEMMA NextVerifierKept ==
  ASSUME TypeOK, VerifierKept, [Next]_vars
  PROVE  VerifierKept'
  <1> DEFINE Has(r) == rq'[r].pc # "new" /\ OwnState(r)'
                         => auth'[rq'[r].state] \in {<<r, rq'[r].iter>>, Lost}
      Goal == \A r \in Requests : Has(r)
  <1> SUFFICES Goal
    BY DEF VerifierKept
  <1>0. \A r \in Requests : rq[r].state \in States /\ rq[r].iter \in 0 .. MaxHealing
    BY DEF TypeOK, Request
  <1>1. ASSUME NEW r \in Requests, rq[r].pc # "new", rq'[r].state = rq[r].state,
               rq'[r].iter = rq[r].iter,
               auth'[rq[r].state] \in {auth[rq[r].state], Lost}
        PROVE  Has(r)
    BY <1>1, OwnStateBefore DEF VerifierKept
  <1>2. ASSUME NEW r \in Requests, NEW s \in States, NEW e, NEW i, Iterate(r, s, e, i)
        PROVE  Goal
    <2>1. /\ rq'[r].pc # "new" /\ rq'[r].state = s /\ rq'[r].iter = i
          /\ \A x \in Requests \ {r} : rq'[x] = rq[x]
          /\ auth'[s] = <<r, i>> /\ \A t \in States \ {s} : auth'[t] = auth[t]
      BY <1>2 DEF Iterate, SetAuthState, TypeOK
    <2>2. Has(r)
      BY <2>1
    <2>3. ASSUME NEW x \in Requests \ {r} PROVE Has(x)
      <3>1. CASE rq[x].pc = "new"
        BY <2>1, <3>1
      <3>2. CASE rq[x].pc # "new" /\ rq[x].state = s
        <4>1. ~OwnState(x)'
          BY <2>1, <3>2 DEF OwnState
        <4> QED BY <4>1
      <3>3. CASE rq[x].pc # "new" /\ rq[x].state # s
        BY <1>0, <1>1, <2>1, <3>3
      <3> QED BY <3>1, <3>2, <3>3
    <2> QED BY <2>2, <2>3
  <1>3. ASSUME UNCHANGED auth, \A r \in Requests : /\ rq'[r].iter = rq[r].iter
                                                   /\ rq[r].pc = "new" => rq'[r] = rq[r]
        PROVE  Goal
    BY <1>1, <1>3, StateStays
  <1>4. ASSUME NEW r \in Requests, RetryRequest(r), rq[r].pc # "new" PROVE Goal
    <2>1. CASE MayHeal(rq[r].iter)
      BY <1>0, <1>2, <1>4, <2>1 DEF RetryRequest
    <2>2. CASE ~MayHeal(rq[r].iter)
      <3>1. UNCHANGED auth /\ rq' = [rq EXCEPT ![r].pc = "failed"]
        BY <1>4, <2>2 DEF RetryRequest
      <3>2. \A x \in Requests : /\ rq'[x].iter = rq[x].iter
                                /\ rq[x].pc = "new" => rq'[x] = rq[x]
        BY <1>4, <3>1 DEF TypeOK, Request
      <3> QED BY <1>3, <3>1, <3>2
    <2> QED BY <2>1, <2>2
  <1>5. ASSUME NEW r \in Requests, RequestConsent(r) PROVE Goal
    BY <1>2, <1>5, StatesAssumption DEF RequestConsent
  <1>6. ASSUME NEW r \in Requests, Push(r) \/ LogAuthRequest(r) PROVE Goal
    <2>1. rq[r].pc # "new"
      BY <1>6 DEF Push, StoreRequest, LogAuthRequest
    <2>2. CASE RetryRequest(r)
      BY <1>4, <2>1, <2>2
    <2>3. CASE ~RetryRequest(r)
      <3>1. /\ UNCHANGED auth
            /\ \/ rq' = [rq EXCEPT ![r].pc = "log"]
               \/ rq' = [rq EXCEPT ![r].pc = "answered"]
        BY <1>6, <2>3 DEF Push, StoreRequest, LogAuthRequest
      <3>2. \A x \in Requests : /\ rq'[x].iter = rq[x].iter
                                /\ rq[x].pc = "new" => rq'[x] = rq[x]
        BY <2>1, <3>1 DEF TypeOK, Request
      <3> QED BY <1>3, <3>1, <3>2
    <2> QED BY <2>2, <2>3
  <1>7. BackendRestart => Goal
    <2> SUFFICES ASSUME BackendRestart PROVE Goal
      OBVIOUS
    <2>1. \A t \in States : auth'[t] \in {auth[t], Lost}
      BY DEF BackendRestart
    <2>2. \A r \in Requests : /\ rq'[r].iter = rq[r].iter
                              /\ rq[r].pc = "new" => rq'[r] = rq[r]
      BY DEF BackendRestart, TypeOK, Request
    <2>3. ASSUME NEW r \in Requests PROVE Has(r)
      <3>1. CASE rq[r].pc = "new"
        BY <2>2, <3>1
      <3>2. CASE rq[r].pc # "new"
        BY <1>0, <1>1, <2>1, <2>2, <3>2, StateStays
      <3> QED BY <3>1, <3>2
    <2> QED BY <2>3
  <1>8. ASSUME UNCHANGED <<rq, auth>> PROVE Goal
    BY <1>3, <1>8
  <1>9. ASSUME NEW r \in Requests, RevokeNext(r) PROVE UNCHANGED <<rq, auth>>
    BY <1>9 DEF RevokeNext
  <1>10. ASSUME NEW d \in DhConsents, NEW r \in Requests, Authorize(d, r)
         PROVE  UNCHANGED <<rq, auth>>
    BY <1>10 DEF Authorize
  <1>11. ASSUME NEW d \in DhConsents, Withdraw(d) \/ ReportStart(d)
         PROVE  UNCHANGED <<rq, auth>>
    BY <1>11 DEF Withdraw, ReportStart
  <1>12. ASSUME NEW a \in Handlers, NEW d \in DhConsents, ConfirmStart(a, d)
         PROVE  UNCHANGED <<rq, auth>>
    BY <1>12 DEF ConfirmStart
  <1>13. ASSUME NEW a \in Handlers, FetchTokens(a) \/ LoadRow(a) \/ SaveTokens(a)
         PROVE  UNCHANGED <<rq, auth>>
    BY <1>13 DEF FetchTokens, AfterGetAuthState, LoadRow, SaveTokens
  <1>14. DhRestart \/ UNCHANGED vars => UNCHANGED <<rq, auth>>
    BY DEF DhRestart, vars
  <1> HIDE DEF Goal
  <1> QED BY <1>5, <1>6, <1>7, <1>8, <1>9, <1>10, <1>11, <1>12, <1>13, <1>14
          DEF Next

OwnStateIn(r, q) ==
  \A x \in Requests \ {r} : q[x].pc = "new" \/ q[x].state # q[r].state

LEMMA NextOwnVerifier ==
  ASSUME TypeOK, RowInv, RowInv', Kept, VerifierKept, OwnVerifier, [Next]_vars
  PROVE  OwnVerifier'
  <1> DEFINE Own(d) == dh'[d].presented # NoAttempt /\ OwnStateIn(dh'[d].req, rq')
                         => dh'[d].presented = dh'[d].challenge
  <1> SUFFICES \A d \in DhConsents : Own(d)
    BY DEF OwnVerifier, OwnState, OwnStateIn
  <1>0. ASSUME NEW r \in Requests, rq[r].pc # "new", OwnStateIn(r, rq')
        PROVE  OwnState(r)
    BY <1>0, OwnStateBefore DEF OwnState, OwnStateIn
  <1>1. ASSUME NEW d \in DhConsents, dh[d].code # "none"
        PROVE  /\ dh[d].req \in Requests /\ rq[dh[d].req].pc = "answered"
               /\ dh'[d].req = dh[d].req /\ dh'[d].challenge = dh[d].challenge
               /\ dh[d].challenge = <<dh[d].req, rq[dh[d].req].iter>>
    <2>1. dh[d].req \in Requests
      BY DEF TypeOK, DhConsent
    <2>2. /\ rq[dh[d].req].pc = "answered"
          /\ dh[d].challenge = <<dh[d].req, rq[dh[d].req].iter>>
      BY <1>1 DEF RowInv, ConsentsFaithful
    <2> QED BY <1>1, <2>1, <2>2 DEF Kept
  <1>2. ASSUME NEW d \in DhConsents, dh'[d].presented = dh[d].presented
        PROVE  Own(d)
    <2>1. CASE dh[d].code = "none"
      BY <1>2, <2>1 DEF RowInv, ConsentsFaithful
    <2>2. CASE dh[d].code # "none"
      <3>1. OwnStateIn(dh'[d].req, rq') => OwnState(dh[d].req)
        BY <1>0, <1>1, <2>2
      <3> QED BY <1>1, <1>2, <2>2, <3>1 DEF OwnVerifier
    <2> QED BY <2>1, <2>2
  <1>3. ASSUME NEW a \in Handlers, FetchTokens(a) PROVE \A d \in DhConsents : Own(d)
    <2> DEFINE x == conf[a].d
               r == dh[x].req
               v == auth[row[r].state]
    <2>1. x \in DhConsents /\ dh[x].code # "none"
      BY <1>3, ConfFields DEF FetchTokens, RowInv, WorkFaithful
    <2>2. CASE UNCHANGED dh
      BY <1>2, <2>2
    <2>3. CASE CodeAccepted(x, v) /\ Consume(x, v)
      <3>1. /\ dh'[x].presented = v /\ v \in Attempts
            /\ \A d \in DhConsents \ {x} : dh'[d] = dh[d]
        BY <2>1, <2>3 DEF Consume, CodeAccepted, TypeOK, DhConsent
      <3>2. r \in Requests /\ rq[r].pc = "answered" /\ row[r].state = rq[r].state
        BY <1>1, <2>1 DEF RowInv, RowsFaithful, RowFaithful, Faithful
      <3>3. OwnStateIn(r, rq') => v \in {<<r, rq[r].iter>>, Lost}
        BY <1>0, <3>2 DEF VerifierKept
      <3>4. Own(x)
        BY <1>1, <2>1, <3>1, <3>3, Lengths
      <3> QED BY <1>2, <3>1, <3>4
    <2> QED BY <1>3, <2>2, <2>3, FetchTokensSteps
  <1>4. (\A a \in Handlers : ~FetchTokens(a)) =>
          \A d \in DhConsents : dh'[d].presented = dh[d].presented
    <2> SUFFICES ASSUME \A a \in Handlers : ~FetchTokens(a)
                 PROVE  \A d \in DhConsents : dh'[d].presented = dh[d].presented
      OBVIOUS
    <2>1. ASSUME NEW q \in Requests, RequestConsent(q) \/ Push(q) \/ LogAuthRequest(q)
          PROVE  UNCHANGED dh
      BY <2>1, RequestSteps
    <2>2. ASSUME NEW q \in Requests, RevokeNext(q) PROVE UNCHANGED dh
      BY <2>2 DEF RevokeNext
    <2>3. ASSUME NEW d \in DhConsents, NEW q \in Requests, Authorize(d, q)
          PROVE  \A y \in DhConsents : dh'[y].presented = dh[y].presented
      BY <2>3 DEF Authorize, TypeOK, DhConsent
    <2>4. ASSUME NEW d \in DhConsents, Withdraw(d)
          PROVE  \A y \in DhConsents : dh'[y].presented = dh[y].presented
      BY <2>4 DEF Withdraw, TypeOK, DhConsent
    <2>5. ASSUME NEW d \in DhConsents, ReportStart(d) PROVE UNCHANGED dh
      BY <2>5 DEF ReportStart
    <2>6. ASSUME NEW a \in Handlers, NEW d \in DhConsents, ConfirmStart(a, d)
          PROVE  UNCHANGED dh
      BY <2>6 DEF ConfirmStart
    <2>7. ASSUME NEW a \in Handlers, LoadRow(a) \/ SaveTokens(a) PROVE UNCHANGED dh
      BY <2>7 DEF LoadRow, SaveTokens
    <2>8. DhRestart \/ BackendRestart \/ UNCHANGED vars => UNCHANGED dh
      BY DEF DhRestart, BackendRestart, vars
    <2> QED BY <2>1, <2>2, <2>3, <2>4, <2>5, <2>6, <2>7, <2>8 DEF Next
  <1> QED BY <1>2, <1>3, <1>4

-----------------------------------------------------------------------------
(***************************************************************************)
(* The theorems.                                                           *)
(***************************************************************************)

LEMMA InitIInv == Init => IInv
  <1> SUFFICES ASSUME Init PROVE IInv
    OBVIOUS
  <1>1. TypeOK
    BY InitTypeOK
  <1>2. /\ \A r \in Requests : rq[r].pc = "new" /\ row[r] = NoRow
        /\ \A d \in DhConsents : dh[d].code = "none" /\ dh[d].presented = NoAttempt
        /\ \A a \in Handlers : conf[a].pc = "idle"
        /\ rep.pc = "none" /\ rep.todo = {} /\ rep.seen = {}
    BY DEF Init, NoCopies, Idle
  <1>3. RowInv
    BY <1>2 DEF RowInv, RowsFaithful, RowFaithful, ConsentsFaithful, WorkFaithful,
                CopiesFaithful
  <1>4. VerifierKept /\ OwnVerifier /\ ConsumedCodeIsSaved /\ ReportComplete
    BY <1>2 DEF VerifierKept, OwnVerifier, ConsumedCodeIsSaved, ReportComplete
  <1> QED BY <1>1, <1>3, <1>4 DEF IInv

LEMMA NextIInv == IInv /\ [Next]_vars => IInv'
  <1> SUFFICES ASSUME IInv, [Next]_vars PROVE IInv'
    OBVIOUS
  <1>1. /\ TypeOK /\ RowInv /\ VerifierKept
        /\ OwnVerifier /\ ConsumedCodeIsSaved /\ ReportComplete
    BY DEF IInv
  <1>2. TypeOK' /\ RowInv' /\ Kept
    BY <1>1, NextTypeOK, NextRowInv, NextKept
  <1>3. VerifierKept'
    BY <1>1, NextVerifierKept
  <1>4. OwnVerifier'
    BY <1>1, <1>2, NextOwnVerifier
  <1>5. ConsumedCodeIsSaved'
    BY <1>1, <1>2, NextConsumedCodeIsSaved
  <1>6. ReportComplete'
    BY <1>1, NextReportComplete
  <1> QED BY <1>2, <1>3, <1>4, <1>5, <1>6 DEF IInv

(* The inductive invariant holds in every reachable state. *)
THEOREM Invariance == Spec => []IInv
  BY InitIInv, NextIInv, PTL DEF Spec

(* Every variable keeps its type, whatever fails and restarts. *)
THEOREM TypeCorrect == Spec => []TypeOK
  <1>1. IInv => TypeOK
    BY DEF IInv
  <1> QED BY <1>1, Invariance, PTL

(* However many healing iterations a request has had, the verifier that is *)
(* presented with its code is the one of the URL the consumer followed,    *)
(* unless another request was given the same state.                        *)
THEOREM VerifierIsOwn == Spec => []OwnVerifier
  <1>1. IInv => OwnVerifier
    BY DEF IInv
  <1> QED BY <1>1, Invariance, PTL

(* Only a failure, or a URL followed twice, loses tokens between the data  *)
(* holder's answer and the row.                                            *)
THEOREM TokensAreSaved == Spec => []ConsumedCodeIsSaved
  <1>1. IInv => ConsumedCodeIsSaved
    BY DEF IInv
  <1> QED BY <1>1, Invariance, PTL

(* The arrangement id of a row is that of the consent its tokens are of.   *)
THEOREM ArrangementsStayTogether == Spec => []ArrangementsAgree
  <1>1. IInv => ArrangementsAgree
    <2> SUFFICES ASSUME IInv, NEW r \in Requests, Finalised(row[r])
                 PROVE  row[r].arrangement = dh[row[r].tokens].arrangement
      BY DEF ArrangementsAgree
    <2>1. row[r].tokens # 0
      BY DEF Finalised
    <2>2. Faithful(row[r], r, rq[r], dh)
      BY <2>1 DEF IInv, RowInv, RowsFaithful, RowFaithful, NoRow
    <2> QED BY <2>1, <2>2 DEF Faithful
  <1> QED BY <1>1, Invariance, PTL

(* A report that has been answered leaves no row current that it, or a     *)
(* report of the same arrangement that failed half-way, has found current. *)
THEOREM ReportIsComplete == Spec => []ReportRevokesAll
  <1>1. IInv => ReportRevokesAll
    BY DEF IInv, ReportComplete, ReportRevokesAll
  <1> QED BY <1>1, Invariance, PTL
=============================================================================
