------------------------- MODULE DataRequestProofs --------------------------
(***************************************************************************)
(* Theorems about DataRequest, for every number of healing iterations and  *)
(* of faults, every list, page size and first request: what the iterations *)
(* are good for, that a request reaches the resource it is meant for, and  *)
(* that walks over pages read what they should.                            *)
(***************************************************************************)
EXTENDS DataRequest, FiniteSetTheorems, SequenceTheorems, TLAPS

(* The data holder has no objection to the request.                        *)
Allowed(req) == ScopeOk(req) /\ VersionOk(req) /\ Outcome(req) = "served"

Attempts == [op : {"token", "data"}, iteration : 0 .. LastIteration,
             faults : 0 .. MaxFaults]

TypesGood ==
  /\ attempt \in Attempts
  /\ active \in BOOLEAN
  /\ row \in ConsentType /\ entity \in ConsentType /\ row.refresh # "used"

(* The gateway revokes an active consent only when it has lost the tokens. *)
RowGood == active /\ row.revoked => ~row.access /\ row.refresh = "lost"

Evaluating == {"evaluate", "forwarded", "served", "failed"}

(* The entity has the access token of the row, or it had one and has lost  *)
(* it, or it has been revoked.  A refresh token that has been used is      *)
(* needed again only after a second fault.                                 *)
EntityGood ==
  /\ entity.access => row.access
  /\ entity.revoked => OutOfTokens
  /\ entity.refresh = "current" /\ ~entity.access /\ attempt.op = "data"
       => attempt.faults >= 1
  /\ entity.refresh = "used" =>
       /\ ~entity.access /\ attempt.op = "data" /\ attempt.faults >= 1
       /\ step \in {"evaluate", "failed"} => attempt.faults >= 2
       /\ step = "forwarded" /\ ~row.access => attempt.faults >= 2

(* Each iteration that is over has met a fault, one that has failed too,   *)
(* and one is left for each fault that is yet to come, while there are     *)
(* tokens.                                                                 *)
EachHasItsFault ==
  \/ OutOfTokens
  \/ /\ step \in {"evaluate", "forwarded", "served"}
          => attempt.iteration <= attempt.faults
     /\ step = "forwarded" /\ ~row.access => attempt.iteration < attempt.faults
     /\ step = "failed" => attempt.iteration < attempt.faults
     /\ step = "refused" => LastIteration < attempt.faults

HealInv ==
  /\ TypesGood /\ RowGood
  /\ step \in {"idle", "asked"} => attempt = NoAttempt
  /\ active /\ Allowed(request) =>
       /\ step \in Evaluating => EntityGood /\ EachHasItsFault
       /\ step = "refused" => EachHasItsFault

-----------------------------------------------------------------------------
LEMMA NoAttemptYet ==
  /\ NoAttempt \in Attempts /\ NoAttempt.op = "data"
  /\ NoAttempt.iteration = 0 /\ NoAttempt.faults = 0
  BY LimitsAssumption DEF NoAttempt, Attempts

LEMMA ConsentFacts ==
  /\ Granted \in ConsentType /\ OnceOff \in ConsentType /\ NoEntity \in ConsentType
  /\ Granted.access = TRUE /\ Granted.refresh = "current" /\ Granted.revoked = FALSE
  /\ OnceOff.access = TRUE /\ OnceOff.refresh = "none" /\ OnceOff.revoked = FALSE
  BY DEF Granted, OnceOff, NoEntity, ConsentType, RefreshTokens

LEMMA OneMoreFault ==
  ASSUME attempt \in Attempts, Fault
  PROVE  /\ attempt' \in Attempts
         /\ attempt'.op = attempt.op /\ attempt'.iteration = attempt.iteration
         /\ attempt'.faults = attempt.faults + 1
  BY LimitsAssumption DEF Attempts, Fault

LEMMA InitHealInv == Init => HealInv
  <1> SUFFICES ASSUME Init PROVE HealInv
    OBVIOUS
  <1>1. TypesGood /\ RowGood
    BY NoAttemptYet, ConsentFacts DEF Init, TypesGood, RowGood
  <1> QED BY <1>1 DEF Init, HealInv, Evaluating

(* The request stays allowed, or not, while it is the same.                *)
LEMMA SameRequest ==
  ASSUME UNCHANGED <<request, granted>>
  PROVE  Allowed(request)' = Allowed(request)
  BY DEF Allowed, ScopeOk, VersionOk, Outcome, ForwardedVersion, DhRoute

-----------------------------------------------------------------------------
(* Types, and the row.                                                     *)
LEMMA NextAttempt ==
  ASSUME attempt \in Attempts, [Next]_vars
  PROVE  attempt' \in Attempts
  <1>1. CASE Authorise
    BY <1>1 DEF Authorise, Attempts
  <1>2. CASE Heal
    BY <1>2, LimitsAssumption DEF Heal, MayHeal, NextIteration, Attempts
  <1>3. CASE EvaluationFails \/ RefreshLost \/ AnswerLost
    BY <1>3, OneMoreFault DEF EvaluationFails, RefreshLost, AnswerLost
  <1>4. CASE TokenExpires
    BY <1>4, OneMoreFault DEF TokenExpires
  <1>5. CASE Refresh
    BY <1>5, NoAttemptYet DEF Refresh
  <1>6. CASE Deliver \/ Follow \/ FollowLast \/ Close
    BY <1>6, NoAttemptYet DEF Deliver, Follow, FollowLast, Ask, Close
  <1>7. CASE \/ Forbid \/ WithAccessToken \/ RefreshDenied \/ NoToken \/ GiveUp
             \/ DataHolder \/ (\E req \in Openings : Open(req)) \/ Withdraw
             \/ (\E r \in window : Ages(r)) \/ UNCHANGED vars
    BY <1>7 DEF Forbid, WithAccessToken, RefreshDenied, NoToken, GiveUp, DataHolder,
                Serves, Refuses, Hangs, Open, Withdraw, Ages, vars
  <1> QED BY <1>1, <1>2, <1>3, <1>4, <1>5, <1>6, <1>7 DEF Next, Gateway, Backend

(* What a step may make of the tokens.                                     *)
LEMMA NextTokens ==
  ASSUME TypesGood, RowGood, [Next]_vars
  PROVE  /\ active' \in BOOLEAN
         /\ row' \in ConsentType /\ entity' \in ConsentType /\ row'.refresh # "used"
         /\ RowGood'
  <1>1. /\ active \in BOOLEAN /\ row \in ConsentType /\ entity \in ConsentType
        /\ row.refresh # "used"
    BY DEF TypesGood
  <1>2. CASE Refresh
    <2>1. row' = Granted /\ active' = active
          /\ entity' \in {Granted, [entity EXCEPT !.refresh = "used"]}
      BY <1>2 DEF Refresh, consent
    <2>2. [entity EXCEPT !.refresh = "used"] \in ConsentType
      BY <1>1 DEF ConsentType, RefreshTokens
    <2> QED BY <1>1, <2>1, <2>2, ConsentFacts DEF RowGood
  <1>3. CASE RefreshDenied
    <2>1. /\ active' = active
          /\ \/ entity' = Revoked(entity) /\ row' = Overwritten(entity)
             \/ entity' = entity /\ row' = row
      BY <1>3 DEF RefreshDenied, tokens, consent
    <2>2. ~entity.access
      BY <1>1, <1>3 DEF RefreshDenied, NeedsRefresh, HasCurrentAccessToken,
                        HasCurrentRefreshToken, ConsentType
    <2>3. /\ Revoked(entity) \in ConsentType /\ Overwritten(entity) \in ConsentType
          /\ Overwritten(entity).refresh = "lost"
          /\ Overwritten(entity).access = entity.access
      BY <1>1 DEF Revoked, Overwritten, ConsentType, RefreshTokens
    <2> QED BY <1>1, <2>1, <2>2, <2>3 DEF RowGood
  <1>4. CASE RefreshLost
    <2>1. /\ active' = active /\ entity' = [entity EXCEPT !.refresh = "lost"]
          /\ \/ row' = [row EXCEPT !.refresh = "lost"]
             \/ row' = [Granted EXCEPT !.access = FALSE]
      BY <1>4 DEF RefreshLost, consent
    <2>2. /\ entity' \in ConsentType /\ row' \in ConsentType
          /\ row'.refresh # "used"
          /\ \/ ~row'.revoked
             \/ row'.revoked = row.revoked /\ row'.access = row.access
                  /\ row'.refresh = "lost"
      BY <1>1, <2>1, ConsentFacts DEF ConsentType, RefreshTokens
    <2> QED BY <1>1, <2>1, <2>2 DEF RowGood
  <1>5. CASE TokenExpires
    <2>1. /\ active' = active /\ entity' = [entity EXCEPT !.access = FALSE]
          /\ row' = [row EXCEPT !.access = FALSE]
      BY <1>5 DEF TokenExpires, consent
    <2>2. /\ entity' \in ConsentType /\ row' \in ConsentType
          /\ row'.refresh = row.refresh /\ row'.revoked = row.revoked /\ ~row'.access
      BY <1>1, <2>1 DEF ConsentType
    <2> QED BY <1>1, <2>1, <2>2 DEF RowGood
  <1>6. CASE Withdraw
    BY <1>1, <1>6 DEF Withdraw, tokens, RowGood
  <1>7. CASE Authorise \/ Forbid
    BY <1>1, <1>7 DEF Authorise, Forbid, consent, RowGood
  <1>8. CASE Deliver \/ Follow \/ FollowLast \/ Close
    BY <1>1, <1>8, ConsentFacts
       DEF Deliver, Follow, FollowLast, Ask, Close, consent, RowGood
  <1>9. CASE \/ WithAccessToken \/ NoToken \/ Heal \/ GiveUp \/ DataHolder
             \/ (\E req \in Openings : Open(req)) \/ EvaluationFails \/ AnswerLost
             \/ (\E r \in window : Ages(r)) \/ UNCHANGED vars
    <2>1. UNCHANGED <<active, row, entity>>
      BY <1>9 DEF WithAccessToken, NoToken, Heal, GiveUp, DataHolder, Serves,
                  Refuses, Hangs, Open, EvaluationFails, AnswerLost, Ages, vars,
                  consent, tokens
    <2> QED BY <1>1, <2>1 DEF RowGood
  <1> QED BY <1>2, <1>3, <1>4, <1>5, <1>6, <1>7, <1>8, <1>9
          DEF Next, Gateway, Backend

-----------------------------------------------------------------------------
(* The invariant as it stands while a request is on its way that is        *)
(* allowed, and what a step has to show of it.                             *)
Healing ==
  /\ step \in Evaluating => EntityGood /\ EachHasItsFault
  /\ step = "refused" => EachHasItsFault

(* An iteration begins. *)
LEMMA BeginKeeps ==
  ASSUME HealInv, active, Authorise \/ Forbid
  PROVE  Healing'
  <1>1. /\ step = "asked" /\ attempt = NoAttempt /\ entity' = row /\ row' = row
        /\ row \in ConsentType /\ row.refresh # "used"
        /\ row.revoked => ~row.access /\ row.refresh = "lost"
    BY DEF Authorise, Forbid, HealInv, TypesGood, RowGood
  <1>2. CASE Authorise
    <2>1. /\ step' = "evaluate" /\ ~row.revoked
          /\ attempt' = [NoAttempt EXCEPT !.op =
                           IF HasCurrentAccessToken(row) THEN "data" ELSE "token"]
      BY <1>1, <1>2 DEF Authorise, HasCurrentAccessToken, HasCurrentRefreshToken
    <2>2. /\ attempt'.iteration = 0 /\ attempt'.faults = 0
          /\ attempt'.op = IF HasCurrentAccessToken(row) THEN "data" ELSE "token"
      BY <2>1 DEF NoAttempt
    <2>3. attempt'.op = "data" => row.access
      BY <2>2 DEF HasCurrentAccessToken
    <2> QED BY <1>1, <2>1, <2>2, <2>3
            DEF Healing, EntityGood, EachHasItsFault, Evaluating
  <1>3. CASE Forbid
    <2>1. step' = "refused" /\ ~row.access /\ row.refresh \in {"none", "lost"}
      BY <1>1, <1>3
         DEF Forbid, HasCurrentAccessToken, HasCurrentRefreshToken, ConsentType
    <2> QED BY <1>1, <2>1 DEF Healing, EachHasItsFault, OutOfTokens, Evaluating
  <1> QED BY <1>2, <1>3

(* It finds an access token, or obtains one. *)
LEMMA TokenKeeps ==
  ASSUME HealInv, active, Allowed(request), WithAccessToken \/ Refresh
  PROVE  Healing'
  <1>1. /\ step = "evaluate" /\ attempt \in Attempts
        /\ row \in ConsentType /\ entity \in ConsentType
        /\ EntityGood /\ EachHasItsFault
    BY DEF WithAccessToken, Refresh, NeedsRefresh, HealInv, TypesGood, Evaluating
  <1>2. CASE WithAccessToken
    <2>1. step' = "forwarded" /\ UNCHANGED <<row, entity, attempt>> /\ entity.access
      BY <1>2 DEF WithAccessToken, tokens, HasCurrentAccessToken
    <2>2. row.access /\ entity.refresh # "used" /\ ~OutOfTokens
      BY <1>1, <2>1 DEF EntityGood, OutOfTokens
    <2> QED BY <1>1, <2>1, <2>2
            DEF Healing, EntityGood, EachHasItsFault, OutOfTokens, Evaluating
  <1>3. CASE Refresh
    <2>1. /\ ~entity.access /\ ~entity.revoked /\ entity.refresh = "current"
          /\ row' = Granted
      BY <1>1, <1>3 DEF Refresh, NeedsRefresh, Refreshes, HasCurrentAccessToken,
                        HasCurrentRefreshToken, ConsentType
    <2>2. CASE attempt.op = "token"
      <3>1. entity' = Granted /\ attempt' = NoAttempt /\ step' = "evaluate"
        BY <1>1, <1>3, <2>2 DEF Refresh
      <3> QED BY <2>1, <3>1, ConsentFacts, NoAttemptYet
              DEF Healing, EntityGood, EachHasItsFault, Evaluating
    <2>3. CASE attempt.op = "data"
      <3>1. /\ entity' = [entity EXCEPT !.refresh = "used"] /\ attempt' = attempt
            /\ step' = "forwarded"
        BY <1>1, <1>3, <2>3 DEF Refresh
      <3>2. /\ entity'.access = entity.access /\ entity'.revoked = entity.revoked
            /\ entity'.refresh = "used"
        BY <1>1, <3>1 DEF ConsentType
      <3>3. attempt.faults >= 1 /\ attempt.iteration <= attempt.faults
        BY <1>1, <2>1, <2>3 DEF EntityGood, EachHasItsFault, OutOfTokens
      <3> QED BY <2>1, <2>3, <3>1, <3>2, <3>3, ConsentFacts
              DEF Healing, EntityGood, EachHasItsFault, Evaluating
    <2> QED BY <1>1, <2>2, <2>3 DEF Attempts
  <1> QED BY <1>2, <1>3

(* It cannot. *)
LEMMA NoTokenKeeps ==
  ASSUME HealInv, active, Allowed(request), RefreshDenied \/ NoToken
  PROVE  Healing'
  <1>1. /\ step = "evaluate" /\ step' = "failed" /\ attempt' = attempt
        /\ attempt \in Attempts /\ row \in ConsentType /\ entity \in ConsentType
        /\ EntityGood
    BY DEF RefreshDenied, NoToken, NeedsRefresh, HealInv, TypesGood, Evaluating
  <1>2. CASE NoToken
    <2>1. /\ UNCHANGED <<row, entity>> /\ OutOfTokens
      BY <1>1, <1>2 DEF NoToken, tokens, EntityGood, OutOfTokens, ConsentType,
                        HasCurrentAccessToken, HasCurrentRefreshToken
    <2> QED BY <1>1, <2>1 DEF Healing, EntityGood, EachHasItsFault, OutOfTokens
  <1>3. CASE RefreshDenied
    <2>1. /\ ~entity.access /\ ~entity.revoked /\ entity.refresh \in {"lost", "used"}
          /\ \/ entity' = Revoked(entity) /\ row' = Overwritten(entity)
             \/ entity' = entity /\ row' = row
      BY <1>1, <1>3
         DEF RefreshDenied, NeedsRefresh, Refreshes, HasCurrentAccessToken,
             HasCurrentRefreshToken, ConsentType, RefreshTokens, tokens
    <2>2. OutOfTokens
      BY <1>1, <2>1 DEF EntityGood, OutOfTokens
    <2>3. entity'.access = entity.access /\ entity'.refresh = entity.refresh
      BY <1>1, <2>1 DEF Revoked, ConsentType
    <2>4. OutOfTokens'
      BY <1>1, <2>2, <2>3 DEF OutOfTokens
    <2> QED BY <1>1, <2>1, <2>3, <2>4 DEF Healing, EntityGood, EachHasItsFault
  <1> QED BY <1>2, <1>3

(* The next iteration, or none. *)
LEMMA HealKeeps ==
  ASSUME HealInv, active, Allowed(request), Heal \/ GiveUp
  PROVE  Healing'
  <1>1. /\ step = "failed" /\ attempt \in Attempts /\ UNCHANGED <<row, entity>>
        /\ EntityGood /\ EachHasItsFault
    BY DEF Heal, GiveUp, tokens, HealInv, TypesGood, Evaluating
  <1>2. attempt.iteration \in Nat /\ attempt.faults \in Nat /\ LastIteration \in Nat
    BY <1>1, LimitsAssumption DEF Attempts
  <1>3. CASE Heal
    <2>1. /\ step' = "evaluate" /\ attempt'.op = attempt.op
          /\ attempt'.iteration = attempt.iteration + 1
          /\ attempt'.faults = attempt.faults
      BY <1>1, <1>3 DEF Heal, NextIteration, Attempts
    <2>2. OutOfTokens' = OutOfTokens
      BY <1>1, <2>1 DEF OutOfTokens
    <2>3. EntityGood'
      BY <1>1, <2>1, <2>2 DEF EntityGood
    <2>4. EachHasItsFault'
      BY <1>1, <1>2, <2>1, <2>2 DEF EachHasItsFault
    <2> QED BY <2>1, <2>3, <2>4 DEF Healing
  <1>4. CASE GiveUp
    <2>1. /\ step' = "refused" /\ attempt' = attempt
          /\ ~(attempt.iteration < LastIteration)
      BY <1>4 DEF GiveUp, MayHeal
    <2> QED BY <1>1, <1>2, <2>1
            DEF Healing, EachHasItsFault, OutOfTokens, Evaluating
  <1> QED BY <1>3, <1>4

(* The data holder answers. *)
LEMMA AnswerKeeps ==
  ASSUME HealInv, active, Allowed(request), DataHolder \/ Deliver
  PROVE  Healing'
  <1>1. CASE Serves \/ Refuses
    <2>1. /\ step = "forwarded" /\ UNCHANGED <<row, entity, attempt>>
          /\ EntityGood /\ EachHasItsFault
      BY <1>1 DEF Serves, Refuses, tokens, HealInv, Evaluating
    <2>2. OutOfTokens' = OutOfTokens
      BY <2>1 DEF OutOfTokens
    <2>3. CASE Serves
      <3>1. step' = "served"
        BY <2>3 DEF Serves
      <3> QED BY <2>1, <2>2, <3>1 DEF Healing, EntityGood, EachHasItsFault
    <2>4. CASE Refuses
      <3>1. step' = "failed" /\ ~row.access
        BY <2>4 DEF Refuses, Admitted, TokenOk, Allowed
      <3> QED BY <2>1, <2>2, <3>1 DEF Healing, EntityGood, EachHasItsFault
    <2> QED BY <1>1, <2>3, <2>4
  <1>2. CASE Hangs \/ Deliver
    BY <1>2 DEF Hangs, Deliver, Healing, Evaluating
  <1> QED BY <1>1, <1>2 DEF DataHolder

(* A fault. *)
LEMMA FaultKeeps ==
  ASSUME HealInv, active, Allowed(request),
         EvaluationFails \/ RefreshLost \/ AnswerLost
  PROVE  Healing'
  <1>1. /\ step \in {"evaluate", "served"} /\ step' = "failed"
        /\ attempt \in Attempts /\ entity \in ConsentType /\ Fault
        /\ EntityGood /\ EachHasItsFault
    BY DEF EvaluationFails, RefreshLost, NeedsRefresh, AnswerLost, HealInv, TypesGood,
           Evaluating
  <1>2. /\ attempt.iteration \in Nat /\ attempt.faults \in Nat
        /\ attempt'.op = attempt.op /\ attempt'.iteration = attempt.iteration
        /\ attempt'.faults = attempt.faults + 1
    BY <1>1, OneMoreFault DEF Attempts
  <1>3. CASE EvaluationFails \/ AnswerLost
    <2>1. UNCHANGED <<row, entity>>
      BY <1>3 DEF EvaluationFails, AnswerLost, tokens
    <2>2. OutOfTokens => OutOfTokens'
      BY <1>2, <2>1 DEF OutOfTokens
    <2>3. EntityGood'
      BY <1>1, <1>2, <2>1, <2>2 DEF EntityGood
    <2>4. EachHasItsFault'
      BY <1>1, <1>2, <2>2 DEF EachHasItsFault
    <2> QED BY <1>1, <2>3, <2>4 DEF Healing
  <1>4. CASE RefreshLost
    <2>1. /\ entity' = [entity EXCEPT !.refresh = "lost"] /\ ~entity.access
      BY <1>1, <1>4 DEF RefreshLost, NeedsRefresh, HasCurrentAccessToken,
                        HasCurrentRefreshToken, ConsentType
    <2>2. ~entity'.access /\ entity'.refresh = "lost"
      BY <1>1, <2>1 DEF ConsentType
    <2> QED BY <1>1, <2>2 DEF Healing, EntityGood, EachHasItsFault, OutOfTokens
  <1> QED BY <1>3, <1>4

LEMMA ExpiryKeeps ==
  ASSUME HealInv, active, Allowed(request), TokenExpires
  PROVE  Healing'
  <1>1. /\ row \in ConsentType /\ entity \in ConsentType /\ attempt \in Attempts
        /\ step' = step /\ UnderWay
        /\ row' = [row EXCEPT !.access = FALSE]
        /\ entity' = [entity EXCEPT !.access = FALSE]
    BY DEF TokenExpires, HealInv, TypesGood
  <1>2. CASE step = "asked"
    BY <1>1, <1>2 DEF Healing, Evaluating
  <1>3. CASE step # "asked"
    <2>1. step \in Evaluating /\ EntityGood /\ EachHasItsFault
      BY <1>1, <1>3 DEF HealInv, UnderWay, Evaluating
    <2>2. /\ attempt.iteration \in Nat /\ attempt.faults \in Nat
          /\ attempt'.op = attempt.op /\ attempt'.iteration = attempt.iteration
          /\ attempt'.faults = attempt.faults + 1
      BY <1>1, <1>3, OneMoreFault DEF TokenExpires, Attempts
    <2>3. /\ ~entity'.access /\ entity'.refresh = entity.refresh
          /\ entity'.revoked = entity.revoked /\ ~row'.access
      BY <1>1 DEF ConsentType
    <2>4. OutOfTokens => OutOfTokens'
      BY <2>2, <2>3 DEF OutOfTokens
    <2>5. EntityGood'
      BY <1>1, <2>1, <2>2, <2>3, <2>4 DEF EntityGood
    <2>6. EachHasItsFault'
      BY <1>1, <2>1, <2>2, <2>4 DEF EachHasItsFault, Evaluating
    <2> QED BY <1>1, <2>1, <2>5, <2>6 DEF Healing, Evaluating
  <1> QED BY <1>2, <1>3

LEMMA NextHealInv == HealInv /\ [Next]_vars => HealInv'
  <1> SUFFICES ASSUME HealInv, [Next]_vars PROVE HealInv'
    OBVIOUS
  <1>1. TypesGood' /\ RowGood'
    BY NextAttempt, NextTokens DEF HealInv, TypesGood
  <1>2. CASE Backend
    <2>1. /\ attempt' = NoAttempt /\ step' \in {"asked", "idle"}
      BY <1>2 DEF Backend, Open, Follow, FollowLast, Close, Ask, HealInv
    <2> QED BY <1>1, <2>1 DEF HealInv, Evaluating
  <1>3. CASE Gateway \/ DataHolder \/ EvaluationFails \/ RefreshLost \/ AnswerLost
             \/ TokenExpires
    <2>1. /\ UNCHANGED <<active, request>> /\ Allowed(request)' = Allowed(request)
          /\ step' = "asked" => step = "asked" /\ attempt' = attempt
          /\ step' # "idle"
      BY <1>3, SameRequest
         DEF Gateway, Authorise, Forbid, WithAccessToken, Refresh, NeedsRefresh,
             RefreshDenied, NoToken, Heal, GiveUp, Deliver, DataHolder, Serves, Refuses,
             Hangs, EvaluationFails, RefreshLost, AnswerLost, TokenExpires, UnderWay,
             consent
    <2>2. active /\ Allowed(request) => Healing'
      BY <1>3, BeginKeeps, TokenKeeps, NoTokenKeeps, HealKeeps, AnswerKeeps,
         FaultKeeps, ExpiryKeeps DEF Gateway
    <2> QED BY <1>1, <2>1, <2>2 DEF HealInv, Healing
  <1>4. CASE Withdraw
    BY <1>1, <1>4 DEF Withdraw, UnderWay, HealInv
  <1>5. CASE (\E r \in window : Ages(r)) \/ UNCHANGED vars
    <2>1. UNCHANGED <<request, granted, active, row, entity, step, attempt>>
      BY <1>5 DEF Ages, vars, consent, tokens
    <2>2. Allowed(request)' = Allowed(request)
      BY <2>1, SameRequest
    <2> QED BY <1>1, <2>1, <2>2 DEF HealInv, EntityGood, EachHasItsFault, OutOfTokens
  <1> QED BY <1>2, <1>3, <1>4, <1>5 DEF Next

LEMMA HealInvHolds == Spec => []HealInv
  BY InitHealInv, NextHealInv, PTL DEF Spec

(* As long as the consent is active, a request to which the data holder    *)
(* has no objection ends in an error only if every iteration met a fault   *)
(* of its own, or if its tokens were gone, for which the evaluation that   *)
(* still had them takes a lost reply to a token request or two faults      *)
(* (GetWithHealing, FetchTokens, UpdateTokens, ForwardRequest).            *)
THEOREM EnoughIterations == Spec => []HealsTransientFaults
  <1>1. HealInv => HealsTransientFaults
    BY DEF HealInv, EachHasItsFault, HealsTransientFaults, Allowed
  <1> QED BY <1>1, HealInvHolds, PTL

-----------------------------------------------------------------------------
(* The table of the data holder is put together of three.                  *)
LEMMA Joined ==
  ASSUME NEW S, NEW s \in Seq(S), NEW t \in Seq(S)
  PROVE  /\ s \o t \in Seq(S) /\ Len(s \o t) = Len(s) + Len(t)
         /\ \A i \in 1 .. Len(s) + Len(t) :
              (s \o t)[i] = IF i <= Len(s) THEN s[i] ELSE t[i - Len(s)]
  BY ConcatProperties

LEMMA Tables ==
  /\ DOMAIN DhRoutes = 1 .. 18 /\ Len(DhRoutes) = 18
  /\ \A i \in 1 .. 18 :
       DhRoutes[i] = IF i <= 8 THEN AccountRoutes[i]
                     ELSE IF i <= 10 THEN CustomerRoutes[i - 8]
                     ELSE TransactionRoutes[i - 10]
  <1> DEFINE a == AccountRoutes
             c == CustomerRoutes
             t == TransactionRoutes
             ac == a \o c
             S == {a[i] : i \in 1 .. 8} \cup {c[i] : i \in 1 .. 2}
                    \cup {t[i] : i \in 1 .. 8}
  <1>1. a \in Seq(S) /\ Len(a) = 8
    BY DEF AccountRoutes
  <1>2. c \in Seq(S) /\ Len(c) = 2
    BY DEF CustomerRoutes
  <1>3. t \in Seq(S) /\ Len(t) = 8
    BY DEF TransactionRoutes
  <1>4. DhRoutes = ac \o t /\ ac = a \o c
    BY DEF DhRoutes
  <1> HIDE DEF a, c, t, S, ac
  <1>5. /\ ac \in Seq(S) /\ Len(ac) = 10
        /\ \A i \in 1 .. 10 : ac[i] = IF i <= 8 THEN a[i] ELSE c[i - 8]
    <2>1. a \in Seq(S) /\ c \in Seq(S)
      BY <1>1, <1>2
    <2>2. /\ ac \in Seq(S) /\ Len(ac) = Len(a) + Len(c)
          /\ \A i \in 1 .. Len(a) + Len(c) :
               ac[i] = IF i <= Len(a) THEN a[i] ELSE c[i - Len(a)]
      BY <2>1, Joined DEF ac
    <2> QED BY <1>1, <1>2, <2>2
  <1>6. /\ Len(DhRoutes) = 18 /\ DOMAIN DhRoutes = 1 .. 18
        /\ \A i \in 1 .. 18 : DhRoutes[i] = IF i <= 10 THEN ac[i] ELSE t[i - 10]
    <2> DEFINE all == ac \o t
    <2>1. ac \in Seq(S) /\ t \in Seq(S) /\ DhRoutes = all
      BY <1>3, <1>4, <1>5
    <2>2. /\ all \in Seq(S) /\ Len(all) = Len(ac) + Len(t)
          /\ \A i \in 1 .. Len(ac) + Len(t) :
               all[i] = IF i <= Len(ac) THEN ac[i] ELSE t[i - Len(ac)]
      BY <2>1, Joined
    <2> HIDE DEF all
    <2> QED BY <1>3, <1>5, <2>1, <2>2
  <1>7. ASSUME NEW i \in 1 .. 18
        PROVE  DhRoutes[i] = IF i <= 8 THEN a[i]
                             ELSE IF i <= 10 THEN c[i - 8] ELSE t[i - 10]
    BY <1>5, <1>6
  <1> QED BY <1>6, <1>7 DEF a, c, t

(* What a row has to do with taking a request.                             *)
Row(route, method, path, scope) ==
  route.method = method /\ route.path = path /\ route.scope = scope
Offers(route, method, path, forward, scope) ==
  Row(route, method, path, scope) /\ route.forward = forward
OffersSame(route, method, path, scope) == Offers(route, method, path, path, scope)

LEMMA GatewayRows1 ==
  /\ OffersSame(GatewayRoutes[1], "GET", <<"accounts">>, Basic)
  /\ OffersSame(GatewayRoutes[2], "GET", <<"accounts", "balances">>, Basic)
  /\ OffersSame(GatewayRoutes[3], "POST", <<"accounts", "balances">>, Basic)
  /\ OffersSame(GatewayRoutes[4], "GET", <<"accounts", "direct-debits">>,
                RegularPayments)
  /\ OffersSame(GatewayRoutes[5], "POST", <<"accounts", "direct-debits">>,
                RegularPayments)
  /\ OffersSame(GatewayRoutes[6], "GET", <<"accounts", Param, "direct-debits">>,
                RegularPayments)
  BY DEF OffersSame, Offers, Row, GatewayRoutes, Same, Offer, Account, Accounts,
         Customer, ScheduledPayments

LEMMA GatewayRows2 ==
  /\ OffersSame(GatewayRoutes[7], "GET", <<"accounts", Param, "balance">>,
                Basic)
  /\ OffersSame(GatewayRoutes[8], "GET", <<"accounts", Param>>,
                "bank:accounts.detail:read")
  /\ OffersSame(GatewayRoutes[9], "GET", <<"accounts", Param, "transactions">>,
                "bank:transactions:read")
  /\ OffersSame(GatewayRoutes[10], "GET", <<"accounts", Param, "transactions", Param>>,
                "bank:transactions:read")
  /\ OffersSame(GatewayRoutes[11], "GET", <<"accounts", Param, "payments", "scheduled">>,
                RegularPayments)
  /\ OffersSame(GatewayRoutes[12], "GET", <<"payments", "scheduled">>,
                RegularPayments)
  BY DEF OffersSame, Offers, Row, GatewayRoutes, Same, Offer, Account, Accounts,
         Customer, ScheduledPayments

LEMMA GatewayRows3 ==
  /\ OffersSame(GatewayRoutes[13], "POST", <<"payments", "scheduled">>,
                RegularPayments)
  /\ OffersSame(GatewayRoutes[14], "GET", <<"payees">>, "bank:payees:read")
  /\ OffersSame(GatewayRoutes[15], "GET", <<"payees", Param>>,
                "bank:payees:read")
  /\ Offers(GatewayRoutes[16], "GET", <<"consumerInfo">>, <<"customer">>,
            "common:customer.basic:read")
  /\ Offers(GatewayRoutes[17], "GET", <<"consumerInfo", "detail">>, <<"customer", "detail">>,
            "common:customer.detail:read")
  /\ Offers(GatewayRoutes[18], "GET", <<"userInfo">>, <<"userinfo">>, "openid")
  BY DEF OffersSame, Offers, Row, GatewayRoutes, Same, Offer, Account, Accounts,
         Customer, ScheduledPayments

LEMMA AccountRows ==
  /\ Row(DhRoutes[1], "GET", <<"accounts">>, Basic)
  /\ Row(DhRoutes[2], "GET", <<"accounts", "balances">>, Basic)
  /\ Row(DhRoutes[3], "POST", <<"accounts", "balances">>, Basic)
  /\ Row(DhRoutes[4], "GET", <<"accounts", "direct-debits">>, RegularPayments)
  /\ Row(DhRoutes[5], "POST", <<"accounts", "direct-debits">>, RegularPayments)
  /\ Row(DhRoutes[6], "GET", <<"accounts", Param, "direct-debits">>,
         RegularPayments)
  /\ Row(DhRoutes[7], "GET", <<"accounts", Param, "balance">>, Basic)
  /\ Row(DhRoutes[8], "GET", <<"accounts", Param>>,
         "bank:accounts.detail:read")
  <1>1. /\ DhRoutes[1] = AccountRoutes[1] /\ DhRoutes[2] = AccountRoutes[2]
        /\ DhRoutes[3] = AccountRoutes[3] /\ DhRoutes[4] = AccountRoutes[4]
        /\ DhRoutes[5] = AccountRoutes[5] /\ DhRoutes[6] = AccountRoutes[6]
        /\ DhRoutes[7] = AccountRoutes[7] /\ DhRoutes[8] = AccountRoutes[8]
    BY Tables
  <1> QED BY <1>1 DEF AccountRoutes, Row, Serve, ServeAll, Account, Accounts,
                      Customer, ScheduledPayments

LEMMA CustomerRows ==
  /\ Row(DhRoutes[9], "GET", <<"customer">>, "common:customer.basic:read")
  /\ Row(DhRoutes[10], "GET", <<"customer", "detail">>,
         "common:customer.detail:read")
  <1>1. /\ DhRoutes[9] = CustomerRoutes[1] /\ DhRoutes[10] = CustomerRoutes[2]
    BY Tables
  <1> QED BY <1>1 DEF CustomerRoutes, Row, Serve, ServeAll, Account, Accounts,
                      Customer, ScheduledPayments

LEMMA TransactionRows ==
  /\ Row(DhRoutes[11], "GET", <<"accounts", Param, "transactions">>,
         "bank:transactions:read")
  /\ Row(DhRoutes[12], "GET", <<"accounts", Param, "transactions", Param>>,
         "bank:transactions:read")
  /\ Row(DhRoutes[13], "GET", <<"payments", "scheduled">>, RegularPayments)
  /\ Row(DhRoutes[14], "POST", <<"payments", "scheduled">>, RegularPayments)
  /\ Row(DhRoutes[15], "GET", <<"accounts", Param, "payments", "scheduled">>,
         RegularPayments)
  /\ Row(DhRoutes[16], "GET", <<"payees">>, "bank:payees:read")
  /\ Row(DhRoutes[17], "GET", <<"payees", Param>>, "bank:payees:read")
  /\ Row(DhRoutes[18], "GET", <<"userinfo">>, "openid")
  <1>1. /\ DhRoutes[11] = TransactionRoutes[1] /\ DhRoutes[12] = TransactionRoutes[2]
        /\ DhRoutes[13] = TransactionRoutes[3] /\ DhRoutes[14] = TransactionRoutes[4]
        /\ DhRoutes[15] = TransactionRoutes[5] /\ DhRoutes[16] = TransactionRoutes[6]
        /\ DhRoutes[17] = TransactionRoutes[7] /\ DhRoutes[18] = TransactionRoutes[8]
    BY Tables
  <1> QED BY <1>1 DEF TransactionRoutes, Row, Serve, ServeAll, Account, Accounts,
                      Customer, ScheduledPayments

(* The k-th route takes a request: it is the first that matches.           *)
Takes(routes, k, method, path) ==
  /\ Matches(routes[k], method, path)
  /\ \A j \in 1 .. k - 1 : ~Matches(routes[j], method, path)

LEMMA TakesFirst ==
  ASSUME NEW routes, NEW method, NEW path, NEW n \in Nat, DOMAIN routes = 1 .. n,
         NEW k \in 1 .. n, Takes(routes, k, method, path)
  PROVE  FirstMatch(routes, method, path) = k
  <1> DEFINE P(i) == /\ Matches(routes[i], method, path)
                     /\ \A j \in 1 .. i - 1 : ~Matches(routes[j], method, path)
  <1>1. FirstMatch(routes, method, path) = CHOOSE i \in 1 .. n : P(i)
    BY DEF FirstMatch
  <1>2. P(k)
    BY DEF Takes
  <1>3. ASSUME NEW i \in 1 .. n, P(i) PROVE i = k
    <2>1. ~(i \in 1 .. k - 1) /\ ~(k \in 1 .. i - 1)
      BY <1>2, <1>3
    <2> QED BY <2>1
  <1> HIDE DEF P
  <1>4. (CHOOSE i \in 1 .. n : P(i)) = k
    BY <1>2, <1>3
  <1> QED BY <1>1, <1>4

LEMMA ConcretePaths ==
  /\ Concrete(<<"accounts">>) = <<"accounts">>
  /\ Concrete(<<"accounts", "balances">>) = <<"accounts", "balances">>
  /\ Concrete(<<"accounts", "direct-debits">>)
       = <<"accounts", "direct-debits">>
  /\ Concrete(<<"accounts", Param, "direct-debits">>)
       = <<"accounts", "id", "direct-debits">>
  /\ Concrete(<<"accounts", Param, "balance">>)
       = <<"accounts", "id", "balance">>
  /\ Concrete(<<"accounts", Param>>) = <<"accounts", "id">>
  /\ Concrete(<<"accounts", Param, "transactions">>)
       = <<"accounts", "id", "transactions">>
  /\ Concrete(<<"accounts", Param, "transactions", Param>>)
       = <<"accounts", "id", "transactions", "id">>
  /\ Concrete(<<"accounts", Param, "payments", "scheduled">>)
       = <<"accounts", "id", "payments", "scheduled">>
  /\ Concrete(<<"payments", "scheduled">>) = <<"payments", "scheduled">>
  /\ Concrete(<<"payees">>) = <<"payees">>
  /\ Concrete(<<"payees", Param>>) = <<"payees", "id">>
  /\ Concrete(<<"consumerInfo">>) = <<"consumerInfo">>
  /\ Concrete(<<"customer">>) = <<"customer">>
  /\ Concrete(<<"consumerInfo", "detail">>) = <<"consumerInfo", "detail">>
  /\ Concrete(<<"customer", "detail">>) = <<"customer", "detail">>
  /\ Concrete(<<"userInfo">>) = <<"userInfo">>
  /\ Concrete(<<"userinfo">>) = <<"userinfo">>
  BY DEF Concrete, Param

(* The i-th request is taken by the i-th route, and what that one forwards *)
(* by the k-th of the data holder, which is the one that was meant.        *)
MeantFor(i, k) ==
  /\ Takes(GatewayRoutes, i, GatewayRoutes[i].method,
           Concrete(GatewayRoutes[i].path))
  /\ Takes(DhRoutes, k, GatewayRoutes[i].method,
           Concrete(GatewayRoutes[i].forward))
  /\ DhRoutes[k].path = GatewayRoutes[i].forward
  /\ DhRoutes[k].method = GatewayRoutes[i].method
  /\ DhRoutes[k].scope = GatewayRoutes[i].scope

LEMMA RowMeant ==
  ASSUME NEW i, NEW k, NEW method, NEW path, NEW forward, NEW scope,
         Offers(GatewayRoutes[i], method, path, forward, scope),
         Row(DhRoutes[k], method, forward, scope),
         Takes(GatewayRoutes, i, method, Concrete(path)),
         Takes(DhRoutes, k, method, Concrete(forward))
  PROVE  MeantFor(i, k)
  BY DEF Offers, Row, MeantFor

ResourceOf == <<1, 2, 3, 4, 5, 6, 7, 8, 11, 12, 15, 13, 14, 16, 17, 9, 10, 18>>

LEMMA Meant ==
  ASSUME NEW i \in 1 .. 18
  PROVE  ResourceOf[i] \in 1 .. 18 /\ MeantFor(i, ResourceOf[i])
  <1>1. MeantFor(1, 1)
    <2>1. Takes(GatewayRoutes, 1, "GET", <<"accounts">>)
      BY GatewayRows1, SMTT(60)
         DEF Takes, Matches, Param, Row, Offers, OffersSame
    <2>2. Takes(DhRoutes, 1, "GET", <<"accounts">>)
      BY AccountRows, SMTT(60)
         DEF Takes, Matches, Param, Row
    <2> QED BY <2>1, <2>2, RowMeant, ConcretePaths, GatewayRows1,
               AccountRows DEF OffersSame
  <1>2. MeantFor(2, 2)
    <2>1. Takes(GatewayRoutes, 2, "GET", <<"accounts", "balances">>)
      BY GatewayRows1, SMTT(60)
         DEF Takes, Matches, Param, Row, Offers, OffersSame
    <2>2. Takes(DhRoutes, 2, "GET", <<"accounts", "balances">>)
      BY AccountRows, SMTT(60)
         DEF Takes, Matches, Param, Row
    <2> QED BY <2>1, <2>2, RowMeant, ConcretePaths, GatewayRows1,
               AccountRows DEF OffersSame
  <1>3. MeantFor(3, 3)
    <2>1. Takes(GatewayRoutes, 3, "POST", <<"accounts", "balances">>)
      BY GatewayRows1, SMTT(60)
         DEF Takes, Matches, Param, Row, Offers, OffersSame
    <2>2. Takes(DhRoutes, 3, "POST", <<"accounts", "balances">>)
      BY AccountRows, SMTT(60)
         DEF Takes, Matches, Param, Row
    <2> QED BY <2>1, <2>2, RowMeant, ConcretePaths, GatewayRows1,
               AccountRows DEF OffersSame
  <1>4. MeantFor(4, 4)
    <2>1. Takes(GatewayRoutes, 4, "GET", <<"accounts", "direct-debits">>)
      BY GatewayRows1, SMTT(60)
         DEF Takes, Matches, Param, Row, Offers, OffersSame
    <2>2. Takes(DhRoutes, 4, "GET", <<"accounts", "direct-debits">>)
      BY AccountRows, SMTT(60)
         DEF Takes, Matches, Param, Row
    <2> QED BY <2>1, <2>2, RowMeant, ConcretePaths, GatewayRows1,
               AccountRows DEF OffersSame
  <1>5. MeantFor(5, 5)
    <2>1. Takes(GatewayRoutes, 5, "POST", <<"accounts", "direct-debits">>)
      BY GatewayRows1, SMTT(60)
         DEF Takes, Matches, Param, Row, Offers, OffersSame
    <2>2. Takes(DhRoutes, 5, "POST", <<"accounts", "direct-debits">>)
      BY AccountRows, SMTT(60)
         DEF Takes, Matches, Param, Row
    <2> QED BY <2>1, <2>2, RowMeant, ConcretePaths, GatewayRows1,
               AccountRows DEF OffersSame
  <1>6. MeantFor(6, 6)
    <2>1. Takes(GatewayRoutes, 6, "GET", <<"accounts", "id", "direct-debits">>)
      BY GatewayRows1, SMTT(60)
         DEF Takes, Matches, Param, Row, Offers, OffersSame
    <2>2. Takes(DhRoutes, 6, "GET", <<"accounts", "id", "direct-debits">>)
      BY AccountRows, SMTT(60)
         DEF Takes, Matches, Param, Row
    <2> QED BY <2>1, <2>2, RowMeant, ConcretePaths, GatewayRows1,
               AccountRows DEF OffersSame
  <1>7. MeantFor(7, 7)
    <2>1. Takes(GatewayRoutes, 7, "GET", <<"accounts", "id", "balance">>)
      BY GatewayRows1, GatewayRows2, SMTT(60)
         DEF Takes, Matches, Param, Row, Offers, OffersSame
    <2>2. Takes(DhRoutes, 7, "GET", <<"accounts", "id", "balance">>)
      BY AccountRows, SMTT(60)
         DEF Takes, Matches, Param, Row
    <2> QED BY <2>1, <2>2, RowMeant, ConcretePaths, GatewayRows2,
               AccountRows DEF OffersSame
  <1>8. MeantFor(8, 8)
    <2>1. Takes(GatewayRoutes, 8, "GET", <<"accounts", "id">>)
      <3>1. Matches(GatewayRoutes[8], "GET", <<"accounts", "id">>)
        BY GatewayRows1, GatewayRows2 DEF Matches, Param, Row, Offers, OffersSame
      <3>2. \A j \in {2, 4} :
              ~Matches(GatewayRoutes[j], "GET", <<"accounts", "id">>)
        BY GatewayRows1, GatewayRows2 DEF Matches, Param, Row, Offers, OffersSame
      <3>3. \A j \in {1, 6, 7} :
              ~Matches(GatewayRoutes[j], "GET", <<"accounts", "id">>)
        BY GatewayRows1, GatewayRows2 DEF Matches, Param, Row, Offers, OffersSame
      <3>4. \A j \in {3, 5} :
              ~Matches(GatewayRoutes[j], "GET", <<"accounts", "id">>)
        BY GatewayRows1, GatewayRows2 DEF Matches, Param, Row, Offers, OffersSame
      <3> QED BY <3>1, <3>2, <3>3, <3>4 DEF Takes
    <2>2. Takes(DhRoutes, 8, "GET", <<"accounts", "id">>)
      <3>1. Matches(DhRoutes[8], "GET", <<"accounts", "id">>)
        BY AccountRows DEF Matches, Param, Row
      <3>2. \A j \in {2, 4} :
              ~Matches(DhRoutes[j], "GET", <<"accounts", "id">>)
        BY AccountRows DEF Matches, Param, Row
      <3>3. \A j \in {1, 6, 7} :
              ~Matches(DhRoutes[j], "GET", <<"accounts", "id">>)
        BY AccountRows DEF Matches, Param, Row
      <3>4. \A j \in {3, 5} :
              ~Matches(DhRoutes[j], "GET", <<"accounts", "id">>)
        BY AccountRows DEF Matches, Param, Row
      <3> QED BY <3>1, <3>2, <3>3, <3>4 DEF Takes
    <2> QED BY <2>1, <2>2, RowMeant, ConcretePaths, GatewayRows2,
               AccountRows DEF OffersSame
  <1>9. MeantFor(9, 11)
    <2>1. Takes(GatewayRoutes, 9, "GET", <<"accounts", "id", "transactions">>)
      <3>1. Matches(GatewayRoutes[9], "GET", <<"accounts", "id", "transactions">>)
        BY GatewayRows1, GatewayRows2 DEF Matches, Param, Row, Offers, OffersSame
      <3>2. \A j \in {6, 7} :
              ~Matches(GatewayRoutes[j], "GET", <<"accounts", "id", "transactions">>)
        BY GatewayRows1, GatewayRows2 DEF Matches, Param, Row, Offers, OffersSame
      <3>3. \A j \in {1, 2, 4, 8} :
              ~Matches(GatewayRoutes[j], "GET", <<"accounts", "id", "transactions">>)
        BY GatewayRows1, GatewayRows2 DEF Matches, Param, Row, Offers, OffersSame
      <3>4. \A j \in {3, 5} :
              ~Matches(GatewayRoutes[j], "GET", <<"accounts", "id", "transactions">>)
        BY GatewayRows1, GatewayRows2 DEF Matches, Param, Row, Offers, OffersSame
      <3> QED BY <3>1, <3>2, <3>3, <3>4 DEF Takes
    <2>2. Takes(DhRoutes, 11, "GET", <<"accounts", "id", "transactions">>)
      BY AccountRows, CustomerRows, TransactionRows, SMTT(60)
         DEF Takes, Matches, Param, Row
    <2> QED BY <2>1, <2>2, RowMeant, ConcretePaths, GatewayRows2,
               TransactionRows DEF OffersSame
  <1>10. MeantFor(10, 12)
    <2>1. Takes(GatewayRoutes, 10, "GET", <<"accounts", "id", "transactions", "id">>)
      BY GatewayRows1, GatewayRows2, SMTT(60)
         DEF Takes, Matches, Param, Row, Offers, OffersSame
    <2>2. Takes(DhRoutes, 12, "GET", <<"accounts", "id", "transactions", "id">>)
      BY AccountRows, CustomerRows, TransactionRows, SMTT(60)
         DEF Takes, Matches, Param, Row
    <2> QED BY <2>1, <2>2, RowMeant, ConcretePaths, GatewayRows2,
               TransactionRows DEF OffersSame
  <1>11. MeantFor(11, 15)
    <2>1. Takes(GatewayRoutes, 11, "GET", <<"accounts", "id", "payments", "scheduled">>)
      BY GatewayRows1, GatewayRows2, SMTT(60)
         DEF Takes, Matches, Param, Row, Offers, OffersSame
    <2>2. Takes(DhRoutes, 15, "GET", <<"accounts", "id", "payments", "scheduled">>)
      <3>1. Matches(DhRoutes[15], "GET", <<"accounts", "id", "payments", "scheduled">>)
        BY AccountRows, CustomerRows, TransactionRows DEF Matches, Param, Row
      <3>2. \A j \in {12} :
              ~Matches(DhRoutes[j], "GET", <<"accounts", "id", "payments", "scheduled">>)
        BY AccountRows, CustomerRows, TransactionRows DEF Matches, Param, Row
      <3>3. \A j \in {1, 2, 4, 6, 7, 8, 9, 10, 11, 13} :
              ~Matches(DhRoutes[j], "GET", <<"accounts", "id", "payments", "scheduled">>)
        BY AccountRows, CustomerRows, TransactionRows DEF Matches, Param, Row
      <3>4. \A j \in {3, 5, 14} :
              ~Matches(DhRoutes[j], "GET", <<"accounts", "id", "payments", "scheduled">>)
        BY AccountRows, CustomerRows, TransactionRows DEF Matches, Param, Row
      <3> QED BY <3>1, <3>2, <3>3, <3>4 DEF Takes
    <2> QED BY <2>1, <2>2, RowMeant, ConcretePaths, GatewayRows2,
               TransactionRows DEF OffersSame
  <1>12. MeantFor(12, 13)
    <2>1. Takes(GatewayRoutes, 12, "GET", <<"payments", "scheduled">>)
      BY GatewayRows1, GatewayRows2, SMTT(60)
         DEF Takes, Matches, Param, Row, Offers, OffersSame
    <2>2. Takes(DhRoutes, 13, "GET", <<"payments", "scheduled">>)
      BY AccountRows, CustomerRows, TransactionRows, SMTT(60)
         DEF Takes, Matches, Param, Row
    <2> QED BY <2>1, <2>2, RowMeant, ConcretePaths, GatewayRows2,
               TransactionRows DEF OffersSame
  <1>13. MeantFor(13, 14)
    <2>1. Takes(GatewayRoutes, 13, "POST", <<"payments", "scheduled">>)
      BY GatewayRows1, GatewayRows2, GatewayRows3, SMTT(60)
         DEF Takes, Matches, Param, Row, Offers, OffersSame
    <2>2. Takes(DhRoutes, 14, "POST", <<"payments", "scheduled">>)
      BY AccountRows, CustomerRows, TransactionRows, SMTT(60)
         DEF Takes, Matches, Param, Row
    <2> QED BY <2>1, <2>2, RowMeant, ConcretePaths, GatewayRows3,
               TransactionRows DEF OffersSame
  <1>14. MeantFor(14, 16)
    <2>1. Takes(GatewayRoutes, 14, "GET", <<"payees">>)
      BY GatewayRows1, GatewayRows2, GatewayRows3, SMTT(60)
         DEF Takes, Matches, Param, Row, Offers, OffersSame
    <2>2. Takes(DhRoutes, 16, "GET", <<"payees">>)
      BY AccountRows, CustomerRows, TransactionRows, SMTT(60)
         DEF Takes, Matches, Param, Row
    <2> QED BY <2>1, <2>2, RowMeant, ConcretePaths, GatewayRows3,
               TransactionRows DEF OffersSame
  <1>15. MeantFor(15, 17)
    <2>1. Takes(GatewayRoutes, 15, "GET", <<"payees", "id">>)
      <3>1. Matches(GatewayRoutes[15], "GET", <<"payees", "id">>)
        BY GatewayRows1, GatewayRows2, GatewayRows3 DEF Matches, Param, Row, Offers, OffersSame
      <3>2. \A j \in {2, 4, 8, 12} :
              ~Matches(GatewayRoutes[j], "GET", <<"payees", "id">>)
        BY GatewayRows1, GatewayRows2, GatewayRows3 DEF Matches, Param, Row, Offers, OffersSame
      <3>3. \A j \in {1, 6, 7, 9, 10, 11, 14} :
              ~Matches(GatewayRoutes[j], "GET", <<"payees", "id">>)
        BY GatewayRows1, GatewayRows2, GatewayRows3 DEF Matches, Param, Row, Offers, OffersSame
      <3>4. \A j \in {3, 5, 13} :
              ~Matches(GatewayRoutes[j], "GET", <<"payees", "id">>)
        BY GatewayRows1, GatewayRows2, GatewayRows3 DEF Matches, Param, Row, Offers, OffersSame
      <3> QED BY <3>1, <3>2, <3>3, <3>4 DEF Takes
    <2>2. Takes(DhRoutes, 17, "GET", <<"payees", "id">>)
      <3>1. Matches(DhRoutes[17], "GET", <<"payees", "id">>)
        BY AccountRows, CustomerRows, TransactionRows DEF Matches, Param, Row
      <3>2. \A j \in {2, 4, 8, 10, 13} :
              ~Matches(DhRoutes[j], "GET", <<"payees", "id">>)
        BY AccountRows, CustomerRows, TransactionRows DEF Matches, Param, Row
      <3>3. \A j \in {1, 6, 7, 9, 11, 12, 15, 16} :
              ~Matches(DhRoutes[j], "GET", <<"payees", "id">>)
        BY AccountRows, CustomerRows, TransactionRows DEF Matches, Param, Row
      <3>4. \A j \in {3, 5, 14} :
              ~Matches(DhRoutes[j], "GET", <<"payees", "id">>)
        BY AccountRows, CustomerRows, TransactionRows DEF Matches, Param, Row
      <3> QED BY <3>1, <3>2, <3>3, <3>4 DEF Takes
    <2> QED BY <2>1, <2>2, RowMeant, ConcretePaths, GatewayRows3,
               TransactionRows DEF OffersSame
  <1>16. MeantFor(16, 9)
    <2>1. Takes(GatewayRoutes, 16, "GET", <<"consumerInfo">>)
      BY GatewayRows1, GatewayRows2, GatewayRows3, SMTT(60)
         DEF Takes, Matches, Param, Row, Offers, OffersSame
    <2>2. Takes(DhRoutes, 9, "GET", <<"customer">>)
      BY AccountRows, CustomerRows, SMTT(60)
         DEF Takes, Matches, Param, Row
    <2> QED BY <2>1, <2>2, RowMeant, ConcretePaths, GatewayRows3,
               CustomerRows DEF OffersSame
  <1>17. MeantFor(17, 10)
    <2>1. Takes(GatewayRoutes, 17, "GET", <<"consumerInfo", "detail">>)
      <3>1. Matches(GatewayRoutes[17], "GET", <<"consumerInfo", "detail">>)
        BY GatewayRows1, GatewayRows2, GatewayRows3 DEF Matches, Param, Row, Offers, OffersSame
      <3>2. \A j \in {2, 4, 8, 12, 15} :
              ~Matches(GatewayRoutes[j], "GET", <<"consumerInfo", "detail">>)
        BY GatewayRows1, GatewayRows2, GatewayRows3 DEF Matches, Param, Row, Offers, OffersSame
      <3>3. \A j \in {1, 6, 7, 9, 10, 11, 14, 16} :
              ~Matches(GatewayRoutes[j], "GET", <<"consumerInfo", "detail">>)
        BY GatewayRows1, GatewayRows2, GatewayRows3 DEF Matches, Param, Row, Offers, OffersSame
      <3>4. \A j \in {3, 5, 13} :
              ~Matches(GatewayRoutes[j], "GET", <<"consumerInfo", "detail">>)
        BY GatewayRows1, GatewayRows2, GatewayRows3 DEF Matches, Param, Row, Offers, OffersSame
      <3> QED BY <3>1, <3>2, <3>3, <3>4 DEF Takes
    <2>2. Takes(DhRoutes, 10, "GET", <<"customer", "detail">>)
      BY AccountRows, CustomerRows, SMTT(60)
         DEF Takes, Matches, Param, Row
    <2> QED BY <2>1, <2>2, RowMeant, ConcretePaths, GatewayRows3,
               CustomerRows DEF OffersSame
  <1>18. MeantFor(18, 18)
    <2>1. Takes(GatewayRoutes, 18, "GET", <<"userInfo">>)
      <3>1. Matches(GatewayRoutes[18], "GET", <<"userInfo">>)
        BY GatewayRows1, GatewayRows2, GatewayRows3 DEF Matches, Param, Row, Offers, OffersSame
      <3>2. \A j \in {1, 14, 16} :
              ~Matches(GatewayRoutes[j], "GET", <<"userInfo">>)
        BY GatewayRows1, GatewayRows2, GatewayRows3 DEF Matches, Param, Row, Offers, OffersSame
      <3>3. \A j \in {2, 4, 6, 7, 8, 9, 10, 11, 12, 15, 17} :
              ~Matches(GatewayRoutes[j], "GET", <<"userInfo">>)
        BY GatewayRows1, GatewayRows2, GatewayRows3 DEF Matches, Param, Row, Offers, OffersSame
      <3>4. \A j \in {3, 5, 13} :
              ~Matches(GatewayRoutes[j], "GET", <<"userInfo">>)
        BY GatewayRows1, GatewayRows2, GatewayRows3 DEF Matches, Param, Row, Offers, OffersSame
      <3> QED BY <3>1, <3>2, <3>3, <3>4 DEF Takes
    <2>2. Takes(DhRoutes, 18, "GET", <<"userinfo">>)
      <3>1. Matches(DhRoutes[18], "GET", <<"userinfo">>)
        BY AccountRows, CustomerRows, TransactionRows DEF Matches, Param, Row
      <3>2. \A j \in {1, 9, 16} :
              ~Matches(DhRoutes[j], "GET", <<"userinfo">>)
        BY AccountRows, CustomerRows, TransactionRows DEF Matches, Param, Row
      <3>3. \A j \in {2, 4, 6, 7, 8, 10, 11, 12, 13, 15, 17} :
              ~Matches(DhRoutes[j], "GET", <<"userinfo">>)
        BY AccountRows, CustomerRows, TransactionRows DEF Matches, Param, Row
      <3>4. \A j \in {3, 5, 14} :
              ~Matches(DhRoutes[j], "GET", <<"userinfo">>)
        BY AccountRows, CustomerRows, TransactionRows DEF Matches, Param, Row
      <3> QED BY <3>1, <3>2, <3>3, <3>4 DEF Takes
    <2> QED BY <2>1, <2>2, RowMeant, ConcretePaths, GatewayRows3,
               TransactionRows DEF OffersSame
  <1> QED BY <1>1, <1>2, <1>3, <1>4, <1>5, <1>6, <1>7, <1>8, <1>9, <1>10, <1>11,
             <1>12, <1>13, <1>14, <1>15, <1>16, <1>17, <1>18 DEF ResourceOf

LEMMA RouteTaken ==
  ASSUME NEW i \in DOMAIN GatewayRoutes
  PROVE  /\ DhTakes[GatewayTakes[i]] = ResourceOf[i]
         /\ ResourceOf[i] \in 1 .. Len(DhRoutes)
         /\ DhRoutes[ResourceOf[i]].path = GatewayRoutes[i].forward
         /\ DhRoutes[ResourceOf[i]].method = GatewayRoutes[i].method
         /\ DhRoutes[ResourceOf[i]].scope = GatewayRoutes[i].scope
  <1>1. /\ DOMAIN GatewayRoutes = 1 .. 18 /\ DOMAIN DhRoutes = 1 .. 18
        /\ Len(DhRoutes) = 18 /\ i \in 1 .. 18
    BY Tables DEF GatewayRoutes
  <1>2. ResourceOf[i] \in 1 .. 18 /\ MeantFor(i, ResourceOf[i])
    BY <1>1, Meant
  <1>3. FirstMatch(GatewayRoutes, GatewayRoutes[i].method,
                   Concrete(GatewayRoutes[i].path)) = i
    BY <1>1, <1>2, TakesFirst DEF MeantFor
  <1>4. FirstMatch(DhRoutes, GatewayRoutes[i].method,
                   Concrete(GatewayRoutes[i].forward)) = ResourceOf[i]
    BY <1>1, <1>2, TakesFirst DEF MeantFor
  <1>5. GatewayTakes[i] = i /\ DhTakes[i] = ResourceOf[i]
    BY <1>3, <1>4 DEF GatewayTakes, DhTakes
  <1> QED BY <1>1, <1>2, <1>5 DEF MeantFor

-----------------------------------------------------------------------------
(* Pages, and the links between them.                                      *)
Asked == [page : Nat, size : Nat, filter : Filters]

LEMMA PageFacts ==
  ASSUME NEW q \in Asked
  PROVE  /\ PageNumber(q) \in Nat \ {0} /\ PageSize(q) \in Nat \ {0}
         /\ LowerLimit(q) \in Nat /\ UpperLimit(q) \in Nat
         /\ UpperLimit(q) = LowerLimit(q) + PageSize(q)
         /\ PageNumber(q) = 1 => LowerLimit(q) = 0
  <1> DEFINE p == PageNumber(q)
             s == PageSize(q)
  <1>1. p \in Nat \ {0} /\ s \in Nat \ {0}
    BY PageSizeAssumption DEF Asked, PageNumber, PageSize
  <1>2. LowerLimit(q) = (p - 1) * s /\ UpperLimit(q) = p * s
    BY DEF LowerLimit, UpperLimit
  <1> HIDE DEF p, s
  <1>3. /\ (p - 1) * s \in Nat /\ p * s \in Nat
        /\ p * s = (p - 1) * s + s
    BY <1>1
  <1>4. p = 1 => (p - 1) * s = 0
    BY <1>1
  <1> QED BY <1>1, <1>2, <1>3, <1>4 DEF p, s

LEMMA LastFacts ==
  ASSUME NEW q \in Asked, NEW n \in Nat
  PROVE  /\ LastPage(q, n) \in Nat \ {0}
         /\ n <= LastPage(q, n) * PageSize(q)
         /\ LastPage(q, n) <= PageNumber(q) => n <= UpperLimit(q)
  <1> DEFINE p == PageNumber(q)
             s == PageSize(q)
             t == TotalPages(q, n)
  <1>1. p \in Nat \ {0} /\ s \in Nat \ {0} /\ UpperLimit(q) = p * s
    BY PageFacts DEF UpperLimit
  <1>2. t = (n + s - 1) \div s
    BY DEF TotalPages
  <1>3. LastPage(q, n) = IF t = 0 THEN 1 ELSE t
    BY DEF LastPage
  <1> HIDE DEF p, s, t
  <1>4. t \in Nat /\ n <= t * s
    BY <1>1, <1>2
  <1>5. LastPage(q, n) \in Nat \ {0} /\ t <= LastPage(q, n)
    BY <1>3, <1>4
  <1>6. ASSUME NEW a \in Nat, NEW b \in Nat, a <= b
        PROVE  a * s <= b * s
    <2>1. (b - a) * s >= 0
      BY <1>1, <1>6
    <2>2. b * s = a * s + (b - a) * s
      BY <1>1, <1>6
    <2>3. a * s \in Nat /\ b * s \in Nat /\ (b - a) * s \in Int
      BY <1>1
    <2> QED BY <2>1, <2>2, <2>3
  <1>7. ASSUME NEW b \in Nat, t <= b
        PROVE  n <= b * s
    <2>1. t * s <= b * s
      BY <1>4, <1>6, <1>7
    <2>2. t * s \in Nat /\ b * s \in Nat
      BY <1>1, <1>4
    <2> QED BY <1>4, <2>1, <2>2
  <1>8. n <= LastPage(q, n) * s
    BY <1>5, <1>7
  <1>9. ASSUME LastPage(q, n) <= p
        PROVE  n <= UpperLimit(q)
    BY <1>1, <1>4, <1>5, <1>7, <1>9
  <1> QED BY <1>5, <1>8, <1>9 DEF p, s

LEMMA LinkFacts ==
  ASSUME NEW q \in Asked, NEW page \in Nat \ {0}, NEW u,
         u = Decoded(MetaUrl(q, page))
  PROVE  /\ u \in Asked /\ PageNumber(u) = page /\ PageSize(u) = PageSize(q)
         /\ LowerLimit(u) = (page - 1) * PageSize(q)
         /\ UpperLimit(u) = page * PageSize(q)
         /\ u.filter = IF q.filter = "offset" THEN "garbled" ELSE q.filter
  <1>1. PageSize(q) \in Nat \ {0}
    BY PageFacts
  <1>2. u = [page |-> page, size |-> PageSize(q),
             filter |-> IF q.filter = "offset" THEN "garbled" ELSE q.filter]
    BY DEF Asked, Decoded, MetaUrl
  <1>3. u \in Asked /\ u.page = page /\ u.size = PageSize(q)
    BY <1>1, <1>2 DEF Asked, Filters
  <1>4. PageNumber(u) = page /\ PageSize(u) = PageSize(q)
    BY <1>1, <1>3 DEF PageNumber, PageSize
  <1> QED BY <1>2, <1>3, <1>4 DEF LowerLimit, UpperLimit

LEMMA CountFacts ==
  ASSUME NEW n \in Nat, NEW list \in SUBSET (1 .. n), NEW r \in 1 .. n
  PROVE  /\ IsFiniteSet(list) /\ Cardinality(list) \in Nat
         /\ Cardinality({s \in list : s <= r}) \in 0 .. Cardinality(list)
         /\ r \in list => Cardinality({s \in list : s <= r}) >= 1
  <1>1. IsFiniteSet(1 .. n)
    BY FS_Interval
  <1>2. IsFiniteSet(list) /\ Cardinality(list) \in Nat
    BY <1>1, FS_Subset, FS_CardinalityType
  <1> DEFINE upto == {s \in list : s <= r}
  <1>3. /\ IsFiniteSet(upto) /\ Cardinality(upto) \in Nat
        /\ Cardinality(upto) <= Cardinality(list)
    BY <1>2, FS_Subset, FS_CardinalityType
  <1>4. ASSUME r \in list PROVE Cardinality(upto) # 0
    <2>1. r \in upto
      BY <1>4
    <2> QED BY <1>3, <2>1, FS_EmptySet
  <1> QED BY <1>2, <1>3, <1>4

LEMMA CountShrinks ==
  ASSUME NEW n \in Nat, NEW list \in SUBSET (1 .. n), NEW rest \in SUBSET list,
         NEW r \in 1 .. n
  PROVE  Cardinality({s \in rest : s <= r}) <= Cardinality({s \in list : s <= r})
  <1> DEFINE upto == {s \in list : s <= r}
             left == {s \in rest : s <= r}
  <1>1. IsFiniteSet(1 .. n)
    BY FS_Interval
  <1>2. upto \subseteq 1 .. n /\ left \subseteq upto
    OBVIOUS
  <1> HIDE DEF upto, left
  <1>3. IsFiniteSet(upto)
    BY <1>1, <1>2, FS_Subset
  <1>4. Cardinality(left) <= Cardinality(upto)
    BY <1>2, <1>3, FS_Subset
  <1> QED BY <1>4 DEF upto, left

-----------------------------------------------------------------------------
(* Every variable is in its type, with the parts that TypeOK leaves out.   *)
WellFormed ==
  /\ total \in Lengths /\ window \subseteq Records /\ granted \in ScopeChoices
  /\ step \in Steps
  /\ request \in Requests
  /\ walk \in [start : Asked, times : [Records -> Nat]]

(* There is an answer only to the request, from the route it reaches.      *)
OwnAnswer ==
  /\ answer = [route |-> answer.route, records |-> answer.records,
               links |-> answer.links]
  /\ answer.records \subseteq Records
  /\ IF step \in {"served", "answered"}
     THEN answer.route = DhTakes[GatewayTakes[request.index]]
     ELSE answer = NoAnswer

(* The links are those of the page that was asked for, of a list with some *)
(* number of records, which is that of the list if it is steady.           *)
Shown(url) == IF step = "answered" THEN Decoded(url) ELSE url
LinksFor(n) ==
  /\ Steady => n = Cardinality(Listed(request))
  /\ DOMAIN answer.links = LinkNames(request.query, n)
  /\ \A name \in DOMAIN answer.links :
       answer.links[name]
         = Shown(MetaUrl(request.query, LinkedPage(request.query, n)[name]))
LinksLead ==
  step \in {"served", "answered"} =>
    IF Paginated(request) THEN \E n \in Nat : LinksFor(n)
    ELSE DOMAIN answer.links \subseteq {"self"}

(* Up to which position a walk has come.                                   *)
ReadUpTo == IF step = "answered" THEN UpperLimit(request.query)
            ELSE LowerLimit(request.query)
ReadDownTo == IF step = "answered" THEN LowerLimit(request.query)
              ELSE UpperLimit(request.query)

(* A walk forwards asks for the list it began with.  What it has read lies *)
(* before the page it asks for, also after transactions have dropped out   *)
(* of the list, and what the page holds has not been read.                 *)
Behind(r) ==
  /\ walk.times[r] <= 1
  /\ walk.times[r] = 1 /\ r \in Listed(request) => Position(r) <= ReadUpTo
New(r) ==
  /\ walk.times[r] = 0
  /\ r \in Listed(request) => Position(r) <= UpperLimit(request.query)
Onwards ==
  request.direction = "forward" /\ walk.start.filter \in {"none", "since"} =>
    /\ request.query.filter = walk.start.filter
    /\ \A r \in Records :
         Behind(r) /\ (step = "served" /\ r \in answer.records => New(r))

(* Of a list that does not change, what has been read is what lies between *)
(* the page the walk began with and the one it has come to.                *)
Between(r, low, high) ==
  r \in Listed(request) /\ low < Position(r) /\ Position(r) <= high
ReadBetween(low, high) ==
  /\ low <= high
  /\ \A r \in Records : walk.times[r] = IF Between(r, low, high) THEN 1 ELSE 0
NoGap ==
  Steady /\ Paginated(request) =>
    /\ step = "served" => answer.records = Page(Listed(request), request.query)
    /\ request.direction = "forward"
         => ReadBetween(LowerLimit(walk.start), ReadUpTo)
    /\ request.direction \in {"backward", "fromEnd"}
         => ReadBetween(ReadDownTo, UpperLimit(walk.start))
    /\ request.direction = "fromEnd"
         => Cardinality(Listed(request)) <= UpperLimit(walk.start)

WalkInv == WellFormed /\ OwnAnswer /\ LinksLead /\ Onwards /\ NoGap

-----------------------------------------------------------------------------
LEMMA TotalNat == WellFormed => total \in Nat
  BY LengthsAssumption DEF WellFormed

LEMMA NoRequestFacts ==
  /\ NoRequest \in Requests /\ NoRequest.direction = "none"
  /\ NoRequest.query \in Asked
  <1>1. DOMAIN GatewayRoutes = 1 .. 18
    BY DEF GatewayRoutes
  <1> QED BY <1>1 DEF NoRequest, Requests, Versions, Directions, Filters, Asked

LEMMA RequestFacts ==
  ASSUME NEW req \in Requests
  PROVE  /\ req.query \in Asked /\ req.query.filter \in Filters
         /\ req.direction \in Directions /\ req.index \in DOMAIN GatewayRoutes
  BY DEF Requests, Asked

LEMMA NeverReadFacts ==
  NeverRead \in [Records -> Nat] /\ \A r \in Records : NeverRead[r] = 0
  BY DEF NeverRead
(* What keeps the parts about the answer and the walk: nothing of it       *)
(* changes.                                                                *)
LEMMA SameList ==
  ASSUME UNCHANGED <<total, window>>, request'.index = request.index,
         request'.query.filter = request.query.filter
  PROVE  /\ Listed(request)' = Listed(request)
         /\ Paginated(request)' = Paginated(request)
         /\ Steady' = Steady
         /\ \A r : Position(r)' = Position(r)
  BY DEF Listed, Records, Paginated, Steady, Position, DhRoute

LEMMA QuietKeeps ==
  ASSUME WalkInv, UNCHANGED <<total, window, request, answer, walk>>,
         \/ step' = step
         \/ {step, step'} \cap {"served", "answered"} = {}
  PROVE  (OwnAnswer /\ LinksLead /\ Onwards /\ NoGap)'
  <1>1. /\ Listed(request)' = Listed(request)
        /\ Paginated(request)' = Paginated(request)
        /\ Steady' = Steady
        /\ \A r : Position(r)' = Position(r)
    BY SameList
  <1>2. /\ step' \in {"served", "answered"} <=> step \in {"served", "answered"}
        /\ step' = "served" <=> step = "served"
        /\ step' = "answered" <=> step = "answered"
    OBVIOUS
  <1>3. Records' = Records
    BY DEF Records
  <1>4. OwnAnswer'
    BY <1>2, <1>3 DEF WalkInv, OwnAnswer
  <1>5. LinksLead'
    BY <1>1, <1>2 DEF WalkInv, LinksLead, LinksFor, Shown
  <1>6. ReadUpTo' = ReadUpTo /\ ReadDownTo' = ReadDownTo
    BY <1>2 DEF ReadUpTo, ReadDownTo
  <1>7. Onwards'
    BY <1>1, <1>2, <1>3, <1>6 DEF WalkInv, Onwards, Behind, New
  <1>8. NoGap'
    BY <1>1, <1>2, <1>3, <1>6 DEF WalkInv, NoGap, ReadBetween, Between, Page
  <1> QED BY <1>4, <1>5, <1>7, <1>8
-----------------------------------------------------------------------------
(* The links that a walk follows: where they lead to, and what it means    *)
(* that there is none.                                                     *)
LEMMA LinkFollowed ==
  ASSUME WalkInv, step = "answered", CanFollow, request.direction # "none",
         NEW u, u = answer.links[NextLink(request.direction)]
  PROVE  /\ Paginated(request)
         /\ u \in Asked
         /\ u.filter = IF request.query.filter = "offset" THEN "garbled"
                       ELSE request.query.filter
         /\ request.direction = "forward"
              => LowerLimit(u) = UpperLimit(request.query)
         /\ request.direction \in {"backward", "fromEnd"}
              => UpperLimit(u) = LowerLimit(request.query)
         /\ request.direction = "toEnd" /\ Steady
              => Cardinality(Listed(request)) <= UpperLimit(u)
  <1> DEFINE q == request.query
             name == NextLink(request.direction)
  <1>1. q \in Asked /\ request.direction \in Directions
    BY RequestFacts DEF WalkInv, WellFormed
  <1>2. /\ request.direction = "forward" => name = "next"
        /\ request.direction \in {"backward", "fromEnd"} => name = "prev"
        /\ request.direction = "toEnd" => name = "last"
        /\ name \in {"next", "prev", "last"}
    BY <1>1 DEF NextLink, Directions
  <1>3. name \in DOMAIN answer.links
    BY DEF CanFollow
  <1>4. Paginated(request)
    BY <1>2, <1>3 DEF WalkInv, LinksLead
  <1>5. PICK n \in Nat : LinksFor(n)
    BY <1>4 DEF WalkInv, LinksLead
  <1> DEFINE page == LinkedPage(q, n)[name]
  <1>6. name \in LinkNames(q, n) /\ u = Decoded(MetaUrl(q, page))
    BY <1>3, <1>5 DEF LinksFor, Shown
  <1>7. PageNumber(q) \in Nat \ {0} /\ LastPage(q, n) \in Nat \ {0}
    BY <1>1, PageFacts, LastFacts
  <1>8. /\ request.direction = "forward" => page = PageNumber(q) + 1
        /\ request.direction \in {"backward", "fromEnd"}
             => page = PageNumber(q) - 1 /\ PageNumber(q) > 1
        /\ request.direction = "toEnd" => page = LastPage(q, n)
    BY <1>2, <1>6 DEF LinkNames, LinkedPage
  <1>9. page \in Nat \ {0}
    BY <1>1, <1>7, <1>8 DEF Directions
  <1>10. Steady => n = Cardinality(Listed(request))
    BY <1>5 DEF LinksFor
  <1> HIDE DEF q, name, page
  <1>11. /\ u \in Asked
         /\ LowerLimit(u) = (page - 1) * PageSize(q)
         /\ UpperLimit(u) = page * PageSize(q)
         /\ u.filter = IF q.filter = "offset" THEN "garbled" ELSE q.filter
    BY <1>1, <1>6, <1>9, LinkFacts
  <1>12. request.direction = "forward" => LowerLimit(u) = UpperLimit(q)
    BY <1>7, <1>8, <1>11 DEF UpperLimit
  <1>13. request.direction \in {"backward", "fromEnd"}
           => UpperLimit(u) = LowerLimit(q)
    BY <1>7, <1>8, <1>11 DEF LowerLimit
  <1>14. request.direction = "toEnd" => n <= UpperLimit(u)
    BY <1>1, <1>8, <1>11, LastFacts
  <1> QED BY <1>4, <1>10, <1>11, <1>12, <1>13, <1>14 DEF q

LEMMA NoLinkLeft ==
  ASSUME WalkInv, step = "answered", ~CanFollow, Paginated(request), Steady
  PROVE  /\ request.direction = "forward"
              => Cardinality(Listed(request)) <= UpperLimit(request.query)
         /\ request.direction \in {"backward", "fromEnd"}
              => LowerLimit(request.query) = 0
  <1> DEFINE q == request.query
             n == Cardinality(Listed(request))
  <1>1. q \in Asked
    BY RequestFacts DEF WalkInv, WellFormed
  <1>2. n \in Nat /\ DOMAIN answer.links = LinkNames(q, n)
    <2>1. PICK m \in Nat : LinksFor(m)
      BY DEF WalkInv, LinksLead
    <2> QED BY <2>1 DEF LinksFor
  <1>3. PageNumber(q) \in Nat \ {0} /\ LastPage(q, n) \in Nat \ {0}
    BY <1>1, <1>2, PageFacts, LastFacts
  <1> HIDE DEF q, n
  <1>4. ASSUME request.direction = "forward" PROVE n <= UpperLimit(q)
    <2>1. "next" \notin LinkNames(q, n)
      BY <1>2, <1>4 DEF CanFollow, NextLink
    <2>2. LastPage(q, n) <= PageNumber(q)
      BY <1>3, <2>1 DEF LinkNames
    <2> QED BY <1>1, <1>2, <2>2, LastFacts
  <1>5. ASSUME request.direction \in {"backward", "fromEnd"}
        PROVE  LowerLimit(q) = 0
    <2>1. "prev" \notin LinkNames(q, n)
      BY <1>2, <1>5 DEF CanFollow, NextLink
    <2>2. PageNumber(q) = 1
      BY <1>3, <2>1 DEF LinkNames
    <2> QED BY <1>1, <2>2, PageFacts
  <1> QED BY <1>4, <1>5 DEF q, n
-----------------------------------------------------------------------------
LEMMA AskWellFormed ==
  ASSUME WellFormed, NEW q \in Asked, NEW direction \in Directions, Ask(q, direction),
         \/ walk' = walk
         \/ walk' = [start |-> q, times |-> NeverRead]
  PROVE  /\ WellFormed'
         /\ request' \in Requests /\ request'.index = request.index
         /\ request'.query = q /\ request'.direction = direction
  <1>1. /\ request' \in Requests /\ request'.index = request.index
        /\ request'.query = q /\ request'.direction = direction
    BY DEF Ask, WellFormed, Requests, Asked
  <1>2. Records' = Records
    BY DEF Ask, Records, consent
  <1>3. walk' \in [start : Asked, times : [Records -> Nat]]
    BY NeverReadFacts DEF WellFormed
  <1> QED BY <1>1, <1>2, <1>3 DEF WellFormed, Ask, Steps, consent

LEMMA NextWellFormed ==
  ASSUME WalkInv, [Next]_vars
  PROVE  WellFormed'
  <1>1. WellFormed
    BY DEF WalkInv
  <1>2. CASE Gateway
    <2>1. Records' = Records /\ UNCHANGED <<total, window, granted, request>>
      BY <1>2 DEF Gateway, Authorise, Forbid, WithAccessToken, Refresh, RefreshDenied,
                  NoToken, Heal, GiveUp, Deliver, consent, Records
    <2>2. step' \in Steps
      BY <1>1, <1>2
         DEF Gateway, Authorise, Forbid, WithAccessToken, Refresh, RefreshDenied,
             NoToken, Heal, GiveUp, Deliver, Steps, WellFormed
    <2>3. walk' \in [start : Asked, times : [Records -> Nat]]
      <3>1. CASE Deliver
        <4> DEFINE times == [r \in Records |-> walk.times[r]
                               + (IF r \in answer.records THEN 1 ELSE 0)]
        <4>1. times \in [Records -> Nat]
          BY <1>1 DEF WellFormed
        <4>2. walk' = [walk EXCEPT !.times = times]
          BY <3>1 DEF Deliver
        <4> HIDE DEF times
        <4> QED BY <1>1, <4>1, <4>2 DEF WellFormed
      <3>2. CASE ~Deliver
        <4>1. walk' = walk
          BY <1>2, <3>2 DEF Gateway, Authorise, Forbid, WithAccessToken, Refresh,
                            RefreshDenied, NoToken, Heal, GiveUp
        <4> QED BY <1>1, <4>1 DEF WellFormed
      <3> QED BY <3>1, <3>2
    <2> QED BY <1>1, <2>1, <2>2, <2>3 DEF WellFormed
  <1>3. CASE DataHolder
    BY <1>1, <1>3 DEF DataHolder, Serves, Refuses, Hangs, consent, Records, WellFormed,
                      Steps
  <1>4. CASE Backend
    <2>1. ASSUME NEW req \in Openings, Open(req)
          PROVE  WellFormed'
      <3>1. req \in Requests /\ req.query \in Asked
        BY OpeningsAssumption, RequestFacts
      <3>2. Records' = Records
        BY <2>1 DEF Open, Records, consent
      <3>3. walk' \in [start : Asked, times : [Records -> Nat]]
        BY <2>1, <3>1, NeverReadFacts DEF Open
      <3> QED BY <1>1, <2>1, <3>1, <3>2, <3>3
              DEF Open, WellFormed, Steps, consent
    <2>2. CASE Follow
      <3>1. step = "answered" /\ CanFollow /\ request.direction # "none"
        BY <2>2 DEF Follow
      <3>2. answer.links[NextLink(request.direction)] \in Asked
        BY <3>1, LinkFollowed
      <3>3. request.direction \in Directions
        BY <1>1, RequestFacts DEF WellFormed
      <3> QED BY <1>1, <2>2, <3>2, <3>3, AskWellFormed DEF Follow
    <2>3. CASE FollowLast
      <3>1. /\ step = "answered" /\ CanFollow /\ request.direction = "toEnd"
            /\ NextLink(request.direction) = "last"
        BY <2>3 DEF FollowLast, NextLink
      <3>2. answer.links["last"] \in Asked
        BY <3>1, LinkFollowed
      <3>3. "fromEnd" \in Directions
        BY DEF Directions
      <3> QED BY <1>1, <2>3, <3>2, <3>3, AskWellFormed DEF FollowLast
    <2>4. CASE Close
      <3>1. Records' = Records /\ window' = Records
        BY <2>4 DEF Close, Records, consent
      <3>2. walk' \in [start : Asked, times : [Records -> Nat]]
        BY <2>4, NoRequestFacts, NeverReadFacts DEF Close
      <3> QED BY <1>1, <2>4, <3>1, <3>2, NoRequestFacts
              DEF Close, WellFormed, Steps, consent
    <2> QED BY <1>4, <2>1, <2>2, <2>3, <2>4 DEF Backend
  <1>5. CASE EvaluationFails \/ RefreshLost \/ AnswerLost \/ TokenExpires \/ Withdraw
    BY <1>1, <1>5 DEF EvaluationFails, RefreshLost, AnswerLost, TokenExpires, Withdraw,
                      WellFormed, Records, Steps, consent
  <1>6. CASE \E r \in window : Ages(r)
    BY <1>1, <1>6 DEF Ages, WellFormed, Records, consent
  <1>7. CASE UNCHANGED vars
    BY <1>1, <1>7 DEF vars, WellFormed, Records, consent
  <1> QED BY <1>2, <1>3, <1>4, <1>5, <1>6, <1>7 DEF Next
-----------------------------------------------------------------------------
(* The steps that answer, read and go on.                                  *)
LEMMA OpenKeeps ==
  ASSUME WalkInv, NEW req \in Openings, Open(req)
  PROVE  (OwnAnswer /\ LinksLead /\ Onwards /\ NoGap)'
  <1>1. /\ req \in Requests /\ req.query \in Asked /\ req.direction # "fromEnd"
        /\ req.direction \in Directions
    BY OpeningsAssumption, RequestFacts
  <1>2. /\ step = "idle" /\ step' = "asked" /\ request' = req
        /\ walk' = [start |-> req.query, times |-> NeverRead]
        /\ UNCHANGED <<total, window, answer>> /\ Records' = Records
    BY DEF Open, consent, Records
  <1>3. walk'.start = req.query /\ \A r \in Records : walk'.times[r] = 0
    BY <1>2, NeverReadFacts
  <1>4. OwnAnswer'
    BY <1>2 DEF WalkInv, OwnAnswer
  <1>5. LinksLead'
    BY <1>2 DEF LinksLead
  <1>6. Onwards'
    BY <1>2, <1>3 DEF Onwards, Behind
  <1>7. NoGap'
    <2>1. LowerLimit(req.query) \in Nat /\ UpperLimit(req.query) \in Nat
      BY <1>1, PageFacts
    <2>2. /\ ReadUpTo' = LowerLimit(req.query) /\ ReadDownTo' = UpperLimit(req.query)
      BY <1>2 DEF ReadUpTo, ReadDownTo
    <2>3. ASSUME NEW r \in Records, NEW limit \in Nat
          PROVE  ~Between(r, limit, limit)'
      <3>1. total' \in Nat /\ Listed(request)' \subseteq 1 .. total'
        <4>1. WellFormed'
          BY NextWellFormed DEF Next, Backend
        <4>2. total' \in Nat /\ window' \subseteq 1 .. total'
          BY <4>1, LengthsAssumption DEF WellFormed, Records
        <4>3. request'.query.filter \in Filters
          BY <1>1, <1>2, RequestFacts
        <4> QED BY <4>2, <4>3 DEF Listed, Records, Filters
      <3>2. r \in 1 .. total'
        BY <1>2 DEF Records
      <3>3. Position(r)' \in Nat
        BY <3>1, <3>2, CountFacts DEF Position
      <3> QED BY <3>3 DEF Between
    <2> QED BY <1>1, <1>2, <1>3, <2>1, <2>2, <2>3 DEF NoGap, ReadBetween
  <1> QED BY <1>4, <1>5, <1>6, <1>7

LEMMA ListFacts ==
  ASSUME WellFormed
  PROVE  /\ total \in Nat /\ Listed(request) \subseteq 1 .. total
         /\ IsFiniteSet(Listed(request)) /\ Cardinality(Listed(request)) \in Nat
         /\ \A r \in Records :
              /\ Position(r) \in 0 .. Cardinality(Listed(request))
              /\ r \in Listed(request) => Position(r) >= 1
  <1>1. total \in Nat /\ window \subseteq Records /\ Records = 1 .. total
    BY TotalNat DEF WellFormed, Records
  <1>2. Listed(request) \subseteq 1 .. total
    <2>1. request.query.filter \in Filters
      BY RequestFacts DEF WellFormed
    <2> QED BY <1>1, <2>1 DEF Listed, Filters
  <1>3. IsFiniteSet(Listed(request)) /\ Cardinality(Listed(request)) \in Nat
    <2>1. IsFiniteSet(1 .. total)
      BY <1>1, FS_Interval
    <2> QED BY <1>2, <2>1, FS_Subset, FS_CardinalityType
  <1>4. ASSUME NEW r \in Records
        PROVE  /\ Position(r) \in 0 .. Cardinality(Listed(request))
               /\ r \in Listed(request) => Position(r) >= 1
    BY <1>1, <1>2, CountFacts DEF Position
  <1> QED BY <1>1, <1>2, <1>3, <1>4

LEMMA ServesKeeps ==
  ASSUME WalkInv, Serves
  PROVE  (OwnAnswer /\ LinksLead /\ Onwards /\ NoGap)'
  <1> DEFINE q == request.query
             list == Listed(request)
  <1>1. /\ step = "forwarded" /\ step' = "served" /\ answer' = Answer(request)
        /\ UNCHANGED <<total, window, request, walk>> /\ Records' = Records
    BY DEF Serves, consent, Records
  <1>2. /\ Listed(request)' = Listed(request)
        /\ Paginated(request)' = Paginated(request) /\ Steady' = Steady
        /\ \A r : Position(r)' = Position(r)
    BY <1>1, SameList
  <1>3. /\ list \subseteq Records /\ Cardinality(list) \in Nat
        /\ \A r \in Records : Position(r) \in Nat
    BY ListFacts DEF WalkInv, Records
  <1>4. /\ answer'.route = DhTakes[GatewayTakes[request.index]]
        /\ answer'.records = IF Paginated(request) THEN Page(list, q) ELSE {}
        /\ answer'.links = IF Paginated(request) THEN Links(q, Cardinality(list))
                           ELSE IF DhRoute(request).kind = "object" THEN SelfLink(q)
                           ELSE <<>>
        /\ answer' = [route |-> answer'.route, records |-> answer'.records,
                      links |-> answer'.links]
    BY <1>1 DEF Answer
  <1>5. \A r \in Page(list, q) :
          /\ r \in list /\ r \in Records
          /\ LowerLimit(q) < Position(r) /\ Position(r) <= UpperLimit(q)
    BY <1>3 DEF Page, Positions, Position
  <1> HIDE DEF q, list
  <1>6. OwnAnswer'
    BY <1>1, <1>4, <1>5 DEF OwnAnswer
  <1>7. LinksLead'
    <2>1. CASE Paginated(request)
      <3>1. PICK n \in Nat : n = Cardinality(list)
        BY <1>3
      <3>2. answer'.links = Links(q, n)
        BY <1>4, <2>1, <3>1
      <3>3. /\ DOMAIN answer'.links = LinkNames(q, n)
            /\ \A name \in LinkNames(q, n) :
                 answer'.links[name] = MetaUrl(q, LinkedPage(q, n)[name])
        BY <3>2 DEF Links
      <3>4. LinksFor(n)'
        BY <1>1, <1>2, <3>1, <3>3 DEF LinksFor, Shown, q, list
      <3> QED BY <1>2, <2>1, <3>4 DEF LinksLead
    <2>2. CASE ~Paginated(request)
      <3>1. DOMAIN answer'.links \subseteq {"self"}
        BY <1>4, <2>2 DEF SelfLink
      <3> QED BY <1>2, <2>2, <3>1 DEF LinksLead
    <2> QED BY <2>1, <2>2
  <1>8. ReadUpTo' = ReadUpTo /\ ReadDownTo' = ReadDownTo /\ ReadUpTo = LowerLimit(q)
    BY <1>1 DEF ReadUpTo, ReadDownTo, q
  <1>9. Onwards'
    <2> SUFFICES ASSUME request.direction = "forward",
                        walk.start.filter \in {"none", "since"}, NEW r \in Records
                 PROVE  Behind(r)' /\ (r \in answer'.records => New(r)')
      BY <1>1 DEF WalkInv, Onwards
    <2>1. Behind(r)
      BY DEF WalkInv, Onwards
    <2>2. Behind(r)'
      BY <1>1, <1>2, <1>8, <2>1 DEF Behind
    <2>3. ASSUME r \in answer'.records PROVE New(r)'
      <3>1. r \in Page(list, q)
        BY <1>4, <2>3
      <3>2. /\ r \in list /\ LowerLimit(q) < Position(r)
            /\ Position(r) <= UpperLimit(q)
        BY <1>5, <3>1
      <3>3. walk.times[r] # 1
        <4>1. LowerLimit(q) \in Nat
          BY PageFacts, RequestFacts DEF WalkInv, WellFormed, q
        <4> QED BY <1>3, <1>8, <2>1, <3>2, <4>1 DEF Behind, list
      <3>4. walk.times[r] = 0
        BY <2>1, <3>3 DEF Behind, WalkInv, WellFormed
      <3> QED BY <1>1, <1>2, <3>2, <3>4 DEF New, q
    <2> QED BY <2>2, <2>3
  <1>10. NoGap'
    BY <1>1, <1>2, <1>4, <1>8 DEF WalkInv, NoGap, ReadBetween, Between, Page, q, list
  <1> QED BY <1>6, <1>7, <1>9, <1>10
LEMMA AnswerLostKeeps ==
  ASSUME WalkInv, AnswerLost
  PROVE  (OwnAnswer /\ LinksLead /\ Onwards /\ NoGap)'
  <1>1. /\ step = "served" /\ step' = "failed" /\ answer' = NoAnswer
        /\ UNCHANGED <<total, window, request, walk>> /\ Records' = Records
    BY DEF AnswerLost, consent, Records
  <1>2. /\ Listed(request)' = Listed(request)
        /\ Paginated(request)' = Paginated(request) /\ Steady' = Steady
        /\ \A r : Position(r)' = Position(r)
    BY <1>1, SameList
  <1>3. ReadUpTo' = ReadUpTo /\ ReadDownTo' = ReadDownTo
    BY <1>1 DEF ReadUpTo, ReadDownTo
  <1>4. OwnAnswer' /\ LinksLead'
    BY <1>1 DEF OwnAnswer, LinksLead, NoAnswer
  <1>5. Onwards'
    BY <1>1, <1>2, <1>3 DEF WalkInv, Onwards, Behind
  <1>6. NoGap'
    BY <1>1, <1>2, <1>3 DEF WalkInv, NoGap, ReadBetween, Between
  <1> QED BY <1>4, <1>5, <1>6

LEMMA DeliverKeeps ==
  ASSUME WalkInv, Deliver
  PROVE  (OwnAnswer /\ LinksLead /\ Onwards /\ NoGap)'
  <1> DEFINE q == request.query
             list == Listed(request)
  <1>1. /\ step = "served" /\ step' = "answered"
        /\ answer' = [answer EXCEPT !.links = Rewritten(@)]
        /\ UNCHANGED <<total, window, request>> /\ Records' = Records
    BY DEF Deliver, consent, Records
  <1>2. /\ Listed(request)' = Listed(request)
        /\ Paginated(request)' = Paginated(request) /\ Steady' = Steady
        /\ \A r : Position(r)' = Position(r)
    BY <1>1, SameList
  <1>3. /\ answer' = [route |-> answer.route, records |-> answer.records,
                      links |-> Rewritten(answer.links)]
        /\ answer'.route = answer.route /\ answer'.records = answer.records
        /\ answer'.links = Rewritten(answer.links)
    BY <1>1 DEF WalkInv, OwnAnswer
  <1>4. /\ walk'.start = walk.start
        /\ \A r \in Records : /\ walk.times[r] \in Nat
                              /\ walk'.times[r] = walk.times[r]
                                   + (IF r \in answer.records THEN 1 ELSE 0)
    BY DEF Deliver, WalkInv, WellFormed
  <1>5. /\ q \in Asked /\ PageSize(q) \in Nat \ {0}
        /\ LowerLimit(q) \in Nat /\ UpperLimit(q) = LowerLimit(q) + PageSize(q)
        /\ UpperLimit(q) \in Nat
    BY PageFacts, RequestFacts DEF WalkInv, WellFormed
  <1>6. /\ list \subseteq Records /\ Cardinality(list) \in Nat
        /\ \A r \in Records : Position(r) \in Nat /\ Position(r) <= Cardinality(list)
    BY ListFacts DEF WalkInv, Records
  <1>7. /\ ReadUpTo = LowerLimit(q) /\ ReadUpTo' = UpperLimit(q)
        /\ ReadDownTo = UpperLimit(q) /\ ReadDownTo' = LowerLimit(q)
    BY <1>1 DEF ReadUpTo, ReadDownTo
  <1> HIDE DEF q, list
  <1>8. OwnAnswer'
    BY <1>1, <1>3 DEF WalkInv, OwnAnswer
  <1>9. LinksLead'
    <2>1. CASE Paginated(request)
      <3>1. PICK n \in Nat : LinksFor(n)
        BY <1>1, <2>1 DEF WalkInv, LinksLead
      <3>2. LinksFor(n)'
        BY <1>1, <1>2, <1>3, <3>1 DEF LinksFor, Shown, Rewritten
      <3> QED BY <1>2, <2>1, <3>2 DEF LinksLead
    <2>2. CASE ~Paginated(request)
      BY <1>1, <1>2, <1>3, <2>2 DEF WalkInv, LinksLead, Rewritten
    <2> QED BY <2>1, <2>2
  <1>10. Onwards'
    <2> SUFFICES ASSUME request.direction = "forward",
                        walk.start.filter \in {"none", "since"}, NEW r \in Records
                 PROVE  Behind(r)'
      BY <1>1, <1>4 DEF WalkInv, Onwards
    <2>1. Behind(r) /\ (r \in answer.records => New(r))
      BY <1>1 DEF WalkInv, Onwards
    <2>2. CASE r \in answer.records
      BY <1>1, <1>2, <1>4, <1>7, <2>1, <2>2 DEF New, Behind, q
    <2>3. CASE r \notin answer.records
      <3>1. walk'.times[r] = walk.times[r]
        BY <1>4, <2>3
      <3> QED BY <1>2, <1>5, <1>6, <1>7, <2>1, <3>1 DEF Behind
    <2> QED BY <2>2, <2>3
  <1>11. NoGap'
    <2> SUFFICES ASSUME Steady, Paginated(request)
                 PROVE  NoGap'
      BY <1>2 DEF NoGap
    <2>1. \A r \in Records :
            r \in answer.records <=> Between(r, LowerLimit(q), UpperLimit(q))
      <3>1. answer.records = Page(list, q)
        BY <1>1 DEF WalkInv, NoGap, list, q
      <3>2. ASSUME NEW r \in Records
            PROVE  r \in answer.records
                     <=> r \in list /\ Position(r) \in Positions(q, Cardinality(list))
        BY <1>6, <3>1 DEF Page, Position, list
      <3>3. ASSUME NEW p \in Nat, p <= Cardinality(list)
            PROVE  p \in Positions(q, Cardinality(list))
                     <=> LowerLimit(q) < p /\ p <= UpperLimit(q)
        BY <1>5, <1>6, <3>3 DEF Positions
      <3> QED BY <1>6, <3>2, <3>3 DEF Between, list
    <2>2. /\ LowerLimit(walk.start) \in Nat /\ UpperLimit(walk.start) \in Nat
      BY PageFacts DEF WalkInv, WellFormed
    <2>3. ASSUME request.direction = "forward"
          PROVE  ReadBetween(LowerLimit(walk.start), UpperLimit(q))'
      <3>1. ReadBetween(LowerLimit(walk.start), LowerLimit(q))
        BY <1>7, <2>3 DEF WalkInv, NoGap
      <3>2. ASSUME NEW r \in Records
            PROVE  walk'.times[r]
                     = IF Between(r, LowerLimit(walk.start), UpperLimit(q)) THEN 1 ELSE 0
        BY <1>4, <1>5, <1>6, <2>1, <2>2, <3>1 DEF ReadBetween, Between
      <3> QED BY <1>1, <1>2, <1>4, <1>5, <2>2, <3>1, <3>2 DEF ReadBetween, Between, q
    <2>4. ASSUME request.direction \in {"backward", "fromEnd"}
          PROVE  ReadBetween(LowerLimit(q), UpperLimit(walk.start))'
      <3>1. ReadBetween(UpperLimit(q), UpperLimit(walk.start))
        BY <1>7, <2>4 DEF WalkInv, NoGap
      <3>2. ASSUME NEW r \in Records
            PROVE  walk'.times[r]
                     = IF Between(r, LowerLimit(q), UpperLimit(walk.start)) THEN 1 ELSE 0
        BY <1>4, <1>5, <1>6, <2>1, <2>2, <3>1 DEF ReadBetween, Between
      <3> QED BY <1>1, <1>2, <1>4, <1>5, <2>2, <3>1, <3>2 DEF ReadBetween, Between, q
    <2>5. request.direction = "fromEnd" => Cardinality(list) <= UpperLimit(walk.start)
      BY DEF WalkInv, NoGap, list
    <2> QED BY <1>1, <1>2, <1>4, <1>7, <2>3, <2>4, <2>5 DEF NoGap, q, list
  <1> QED BY <1>8, <1>9, <1>10, <1>11
LEMMA FollowKeeps ==
  ASSUME WalkInv, Follow
  PROVE  (OwnAnswer /\ LinksLead /\ Onwards /\ NoGap)'
  <1> DEFINE q == request.query
             u == answer.links[NextLink(request.direction)]
             direction == request.direction
  <1>1. /\ step = "answered" /\ CanFollow /\ Ask(u, direction)
        /\ direction \in {"forward", "backward", "fromEnd"}
        /\ walk' = walk /\ step' = "asked" /\ answer' = NoAnswer
        /\ UNCHANGED <<total, window>> /\ Records' = Records
    BY DEF Follow, Ask, consent, Records
  <1>2. /\ Paginated(request) /\ u \in Asked
        /\ u.filter = IF q.filter = "offset" THEN "garbled" ELSE q.filter
        /\ direction = "forward" => LowerLimit(u) = UpperLimit(q)
        /\ direction \in {"backward", "fromEnd"} => UpperLimit(u) = LowerLimit(q)
    BY <1>1, LinkFollowed
  <1>3. /\ request'.index = request.index /\ request'.query = u
        /\ request'.direction = direction
    BY <1>1, <1>2, RequestFacts, AskWellFormed DEF WalkInv, WellFormed
  <1> HIDE DEF q, u, direction
  <1>4. /\ ReadUpTo' = LowerLimit(u) /\ ReadDownTo' = UpperLimit(u)
        /\ ReadUpTo = UpperLimit(q) /\ ReadDownTo = LowerLimit(q)
    BY <1>1, <1>3 DEF ReadUpTo, ReadDownTo, q
  <1>5. OwnAnswer' /\ LinksLead'
    BY <1>1 DEF OwnAnswer, LinksLead, NoAnswer
  <1>6. Onwards'
    <2> SUFFICES ASSUME direction = "forward", walk.start.filter \in {"none", "since"}
                 PROVE  u.filter = walk.start.filter /\ \A r \in Records : Behind(r)'
      BY <1>1, <1>3 DEF Onwards
    <2>1. q.filter = walk.start.filter /\ q.filter = u.filter
      BY <1>2 DEF WalkInv, Onwards, q, direction
    <2>2. /\ Listed(request)' = Listed(request)
          /\ \A s : Position(s)' = Position(s)
      BY <1>1, <1>3, <2>1, SameList DEF q
    <2>3. \A r \in Records : Behind(r)
      BY DEF WalkInv, Onwards, direction
    <2> QED BY <1>1, <1>2, <1>4, <2>1, <2>2, <2>3 DEF Behind
  <1>7. NoGap'
    <2> SUFFICES ASSUME Steady', Paginated(request)'
                 PROVE  NoGap'
      BY DEF NoGap
    <2>1. /\ Steady
          /\ Listed(request)' = Listed(request)
          /\ \A s : Position(s)' = Position(s)
      <3>1. DhRoute(request)' = DhRoute(request)
        BY <1>3 DEF DhRoute
      <3>2. CASE DhRoute(request).kind = "list"
        BY <1>1, <3>1, <3>2 DEF Steady, Listed, Position, Records
      <3>3. CASE u.filter = "since"
        <4>1. q.filter = "since"
          BY <1>2, <3>3
        <4> QED BY <1>1, <1>3, <3>3, <4>1, SameList DEF Steady, q
      <3> QED BY <1>3, <3>1, <3>2, <3>3 DEF Steady
    <2>2. /\ direction = "forward" => ReadBetween(LowerLimit(walk.start), UpperLimit(q))
          /\ direction \in {"backward", "fromEnd"}
               => ReadBetween(LowerLimit(q), UpperLimit(walk.start))
          /\ direction = "fromEnd"
               => Cardinality(Listed(request)) <= UpperLimit(walk.start)
      BY <1>2, <1>4, <2>1 DEF WalkInv, NoGap, direction
    <2>3. /\ direction = "forward"
               => ReadBetween(LowerLimit(walk.start), ReadUpTo)'
          /\ direction \in {"backward", "fromEnd"}
               => ReadBetween(ReadDownTo, UpperLimit(walk.start))'
      BY <1>1, <1>2, <1>4, <2>1, <2>2 DEF ReadBetween, Between
    <2> QED BY <1>1, <1>3, <2>1, <2>2, <2>3 DEF NoGap
  <1> QED BY <1>5, <1>6, <1>7

LEMMA FollowLastKeeps ==
  ASSUME WalkInv, FollowLast
  PROVE  (OwnAnswer /\ LinksLead /\ Onwards /\ NoGap)'
  <1> DEFINE u == answer.links["last"]
  <1>1. /\ step = "answered" /\ CanFollow /\ Ask(u, "fromEnd")
        /\ request.direction = "toEnd" /\ NextLink(request.direction) = "last"
        /\ walk' = [start |-> u, times |-> NeverRead]
        /\ step' = "asked" /\ answer' = NoAnswer
        /\ UNCHANGED <<total, window>> /\ Records' = Records
    BY DEF FollowLast, Ask, consent, Records, NextLink
  <1>2. /\ Paginated(request) /\ u \in Asked
        /\ u.filter = IF request.query.filter = "offset" THEN "garbled"
                      ELSE request.query.filter
        /\ Steady => Cardinality(Listed(request)) <= UpperLimit(u)
    BY <1>1, LinkFollowed
  <1>3. /\ request'.index = request.index /\ request'.query = u
        /\ request'.direction = "fromEnd" /\ WellFormed'
    BY <1>1, <1>2, AskWellFormed DEF WalkInv, Directions
  <1>4. walk'.start = u /\ \A r \in Records : walk'.times[r] = 0
    BY <1>1, NeverReadFacts
  <1> HIDE DEF u
  <1>5. OwnAnswer' /\ LinksLead' /\ Onwards'
    BY <1>1, <1>3 DEF OwnAnswer, LinksLead, Onwards, NoAnswer
  <1>6. NoGap'
    <2> SUFFICES ASSUME Steady', Paginated(request)'
                 PROVE  NoGap'
      BY DEF NoGap
    <2>1. /\ Steady
          /\ Listed(request)' = Listed(request)
          /\ \A s : Position(s)' = Position(s)
      <3>1. DhRoute(request)' = DhRoute(request)
        BY <1>3 DEF DhRoute
      <3>2. CASE DhRoute(request).kind = "list"
        BY <1>1, <3>1, <3>2 DEF Steady, Listed, Position, Records
      <3>3. CASE u.filter = "since"
        <4>1. request.query.filter = "since"
          BY <1>2, <3>3
        <4> QED BY <1>1, <1>3, <3>3, <4>1, SameList DEF Steady
      <3> QED BY <1>3, <3>1, <3>2, <3>3 DEF Steady
    <2>2. UpperLimit(u) \in Nat /\ ReadDownTo' = UpperLimit(u)
      BY <1>1, <1>2, <1>3, PageFacts DEF ReadDownTo
    <2>3. \A r \in Records : Position(r) \in Nat
      BY ListFacts DEF WalkInv
    <2> QED BY <1>1, <1>2, <1>3, <1>4, <2>1, <2>2, <2>3 DEF NoGap, ReadBetween, Between
  <1> QED BY <1>5, <1>6

LEMMA CloseKeeps ==
  ASSUME WalkInv, Close
  PROVE  (OwnAnswer /\ LinksLead /\ Onwards /\ NoGap)'
  <1>1. step' = "idle" /\ request' = NoRequest /\ answer' = NoAnswer
    BY DEF Close
  <1>2. OwnAnswer' /\ LinksLead' /\ Onwards' /\ NoGap'
    BY <1>1, NoRequestFacts
       DEF OwnAnswer, LinksLead, Onwards, NoGap, NoAnswer
  <1> QED BY <1>2
(* A transaction that drops out of the list brings the others nearer to    *)
(* its beginning.                                                          *)
LEMMA AgesKeeps ==
  ASSUME WalkInv, NEW old \in window, Ages(old)
  PROVE  (OwnAnswer /\ LinksLead /\ Onwards /\ NoGap)'
  <1> DEFINE q == request.query
  <1>1. /\ q.filter = "none" /\ DhRoute(request).kind = "transactions"
        /\ window' = window \ {old} /\ window \subseteq Records
        /\ UNCHANGED <<total, step, request, answer, walk>> /\ Records' = Records
    BY DEF Ages, consent, Records, WalkInv, WellFormed
  <1>2. /\ Listed(request) = window /\ Listed(request)' = window'
        /\ Paginated(request) /\ Paginated(request)' /\ ~Steady /\ ~Steady'
    BY <1>1 DEF Listed, Paginated, Steady, DhRoute
  <1>3. ASSUME NEW r \in Records
        PROVE  Position(r)' \in Nat /\ Position(r)' <= Position(r) /\ Position(r) \in Nat
    <2>1. total \in Nat /\ Records = 1 .. total
      BY TotalNat DEF WalkInv, Records
    <2> DEFINE upto(list) == {s \in list : s <= r}
    <2>2. /\ Cardinality(upto(window')) <= Cardinality(upto(window))
          /\ Cardinality(upto(window')) \in Nat /\ Cardinality(upto(window)) \in Nat
      <3>1. window' \subseteq window /\ window \subseteq 1 .. total
        BY <1>1, <2>1
      <3>2. Cardinality(upto(window')) <= Cardinality(upto(window))
        BY <2>1, <3>1, CountShrinks
      <3>3. window \in SUBSET (1 .. total) /\ window' \in SUBSET (1 .. total)
        BY <3>1
      <3>4. /\ Cardinality(window) \in Nat /\ Cardinality(window') \in Nat
            /\ Cardinality(upto(window)) \in 0 .. Cardinality(window)
            /\ Cardinality(upto(window')) \in 0 .. Cardinality(window')
        BY <2>1, <3>3, CountFacts
      <3> QED BY <3>2, <3>4
    <2> HIDE DEF upto
    <2>3. Position(r) = Cardinality(upto(window))
          /\ Position(r)' = Cardinality(upto(window'))
      BY <1>1, <1>2 DEF Position, upto
    <2> QED BY <2>2, <2>3
  <1> HIDE DEF q
  <1>4. OwnAnswer'
    BY <1>1 DEF WalkInv, OwnAnswer
  <1>5. LinksLead'
    BY <1>1, <1>2 DEF WalkInv, LinksLead, LinksFor, Shown
  <1>6. NoGap'
    BY <1>2 DEF NoGap
  <1>7. ReadUpTo' = ReadUpTo /\ ReadUpTo \in Nat /\ UpperLimit(request.query) \in Nat
    BY <1>1, PageFacts, RequestFacts DEF ReadUpTo, WalkInv, WellFormed
  <1>8. Onwards'
    <2> SUFFICES ASSUME request.direction = "forward",
                        walk.start.filter \in {"none", "since"}, NEW r \in Records
                 PROVE  (Behind(r) /\ (step = "served" /\ r \in answer.records => New(r)))'
      BY <1>1 DEF WalkInv, Onwards
    <2>1. Behind(r) /\ (step = "served" /\ r \in answer.records => New(r))
      BY DEF WalkInv, Onwards
    <2>2. r \in Listed(request)' => r \in Listed(request)
      BY <1>1, <1>2
    <2>3. Behind(r)'
      BY <1>1, <1>3, <1>7, <2>1, <2>2 DEF Behind
    <2>4. ASSUME step = "served", r \in answer.records PROVE New(r)'
      BY <1>1, <1>3, <1>7, <2>1, <2>2, <2>4 DEF New
    <2> QED BY <1>1, <2>3, <2>4
  <1> QED BY <1>4, <1>5, <1>6, <1>8

LEMMA InitWalkInv == Init => WalkInv
  <1> SUFFICES ASSUME Init PROVE WalkInv
    OBVIOUS
  <1>1. WellFormed
    BY NoRequestFacts, NeverReadFacts DEF Init, WellFormed, Steps
  <1>2. OwnAnswer /\ LinksLead /\ Onwards /\ NoGap
    BY NoRequestFacts DEF Init, OwnAnswer, LinksLead, Onwards, NoGap, NoAnswer
  <1> QED BY <1>1, <1>2 DEF WalkInv

LEMMA NextWalkInv == WalkInv /\ [Next]_vars => WalkInv'
  <1> SUFFICES ASSUME WalkInv, [Next]_vars PROVE WalkInv'
    OBVIOUS
  <1>1. WellFormed'
    BY NextWellFormed
  <1>2. CASE \/ Authorise \/ Forbid \/ WithAccessToken \/ Refresh \/ RefreshDenied
             \/ NoToken \/ Heal \/ GiveUp \/ Refuses \/ Hangs \/ EvaluationFails
             \/ RefreshLost \/ TokenExpires \/ Withdraw \/ UNCHANGED vars
    <2>1. /\ UNCHANGED <<total, window, request, answer, walk>>
          /\ \/ step' = step
             \/ {step, step'} \cap {"served", "answered"} = {}
      BY <1>2 DEF Authorise, Forbid, WithAccessToken, Refresh, NeedsRefresh,
                  RefreshDenied, NoToken, Heal, GiveUp, Refuses, Hangs, EvaluationFails,
                  RefreshLost, TokenExpires, Withdraw, vars, consent
    <2> QED BY <1>1, <2>1, QuietKeeps DEF WalkInv
  <1>3. CASE \E req \in Openings : Open(req)
    BY <1>1, <1>3, OpenKeeps DEF WalkInv
  <1>4. CASE Serves
    BY <1>1, <1>4, ServesKeeps DEF WalkInv
  <1>5. CASE AnswerLost
    BY <1>1, <1>5, AnswerLostKeeps DEF WalkInv
  <1>6. CASE Deliver
    BY <1>1, <1>6, DeliverKeeps DEF WalkInv
  <1>7. CASE Follow
    BY <1>1, <1>7, FollowKeeps DEF WalkInv
  <1>8. CASE FollowLast
    BY <1>1, <1>8, FollowLastKeeps DEF WalkInv
  <1>9. CASE Close
    BY <1>1, <1>9, CloseKeeps DEF WalkInv
  <1>10. CASE \E r \in window : Ages(r)
    BY <1>1, <1>10, AgesKeeps DEF WalkInv
  <1> QED BY <1>2, <1>3, <1>4, <1>5, <1>6, <1>7, <1>8, <1>9, <1>10
          DEF Next, Gateway, DataHolder, Backend

LEMMA WalkInvHolds == Spec => []WalkInv
  BY InitWalkInv, NextWalkInv, PTL DEF Spec

(* Every variable stays within its type, and the attempts and the routes   *)
(* within their bounds (GetWithHealing, the routes of both servers).       *)
THEOREM TypesKept == Spec => []TypeOK
  <1>1. ASSUME WalkInv, HealInv PROVE TypeOK
    <2>1. request.index \in DOMAIN GatewayRoutes
      BY <1>1, RequestFacts DEF WalkInv, WellFormed
    <2>2. answer.route \in 0 .. Len(DhRoutes)
      <3>1. Len(DhRoutes) = 18
        BY Tables
      <3>2. answer.route = ResourceOf[request.index] \/ answer.route = 0
        BY <1>1, <2>1, RouteTaken DEF WalkInv, OwnAnswer, NoAnswer
      <3> QED BY <2>1, <3>1, <3>2, RouteTaken
    <2> QED BY <1>1, <2>1, <2>2
            DEF WalkInv, WellFormed, OwnAnswer, HealInv, TypesGood, Attempts, TypeOK
  <1> QED BY <1>1, WalkInvHolds, HealInvHolds, PTL

(* No route swallows a request that is meant for another: who answers is   *)
(* the handler of the resource that the gateway's route forwards to, with  *)
(* its method and its scope (init of both servers).                        *)
THEOREM ResourcesReached == Spec => []ReachesItsResource
  <1>1. ASSUME WalkInv, answer.route # 0
        PROVE  answer.route = ResourceOf[request.index]
               /\ request.index \in DOMAIN GatewayRoutes
    <2>1. request.index \in DOMAIN GatewayRoutes
      BY <1>1, RequestFacts DEF WalkInv, WellFormed
    <2> QED BY <1>1, <2>1, RouteTaken DEF WalkInv, OwnAnswer, NoAnswer
  <1>2. WalkInv => ReachesItsResource
    BY <1>1, RouteTaken DEF ReachesItsResource
  <1> QED BY <1>2, WalkInvHolds, PTL

(* As long as a walk forwards goes on, it gets no record twice, even while *)
(* transactions drop out of the list between two pages (Paginate,          *)
(* ForwardRequest).                                                        *)
THEOREM NoRecordTwice == Spec => []ReadOnce
  <1>1. WalkInv => ReadOnce
    BY DEF WalkInv, Onwards, Behind, ReadOnce
  <1> QED BY <1>1, WalkInvHolds, PTL

(* A walk over a list that does not change has read at its end what it was *)
(* to read.                                                                *)
LEMMA WalkComplete ==
  ASSUME WalkInv, WalkEnds, Steady, NEW r \in Records
  PROVE  walk.times[r] = IF MustRead(r) THEN 1 ELSE 0
  <1>1. /\ step = "answered" /\ Paginated(request) /\ ~CanFollow
        /\ request.direction \in {"forward", "backward", "fromEnd"}
    BY DEF WalkEnds
  <1>2. /\ Cardinality(Listed(request)) \in Nat
        /\ Position(r) \in Nat /\ Position(r) <= Cardinality(Listed(request))
        /\ r \in Listed(request) => Position(r) >= 1
    BY ListFacts DEF WalkInv
  <1>3. /\ LowerLimit(walk.start) \in Nat /\ UpperLimit(walk.start) \in Nat
        /\ UpperLimit(request.query) \in Nat
    BY PageFacts, RequestFacts DEF WalkInv, WellFormed
  <1>4. CASE request.direction = "forward"
    <2>1. ReadBetween(LowerLimit(walk.start), UpperLimit(request.query))
      BY <1>1, <1>4 DEF WalkInv, NoGap, ReadUpTo
    <2>2. Cardinality(Listed(request)) <= UpperLimit(request.query)
      BY <1>1, <1>4, NoLinkLeft
    <2> QED BY <1>2, <1>3, <1>4, <2>1, <2>2 DEF ReadBetween, Between, MustRead
  <1>5. CASE request.direction \in {"backward", "fromEnd"}
    <2>1. ReadBetween(LowerLimit(request.query), UpperLimit(walk.start))
      BY <1>1, <1>5 DEF WalkInv, NoGap, ReadDownTo
    <2>2. LowerLimit(request.query) = 0
      BY <1>1, <1>5, NoLinkLeft
    <2>3. request.direction = "fromEnd"
            => Cardinality(Listed(request)) <= UpperLimit(walk.start)
      BY <1>1 DEF WalkInv, NoGap
    <2> QED BY <1>2, <1>3, <1>5, <2>1, <2>2, <2>3
            DEF ReadBetween, Between, MustRead
  <1> QED BY <1>1, <1>4, <1>5

(* A walk over a list that does not change, forwards, backwards or from    *)
(* its end, has read at its end every record it was to read exactly once   *)
(* (Paginate, metaUrl, ForwardRequest, DepaginateRequest).                 *)
THEOREM WalksAreComplete == Spec => []WalksReadEverything
  <1>1. WalkInv => WalksReadEverything
    BY WalkComplete DEF WalksReadEverything
  <1> QED BY <1>1, WalkInvHolds, PTL

-----------------------------------------------------------------------------
(* A walk over a list that does not change, and the reader of the list     *)
(* that it implements.                                                     *)
LEMMA PhaseFacts ==
  /\ ~Reads => Phase = "idle" /\ Unread = {} /\ Got = NeverRead
  /\ Reads => Got = walk.times
  /\ Reads /\ step = "refused" => Phase = "given up"
  /\ Reads /\ WalkEnds => Phase = "done"
  /\ Reads /\ step # "refused" /\ ~WalkEnds =>
       Phase = IF request.direction = "forward" THEN "forwards" ELSE "backwards"
  BY DEF Phase, Unread, Got, WalkEnds

(* The records later in the list have the higher positions.                *)
LEMMA PositionsGrow ==
  ASSUME WellFormed, NEW r \in Records, NEW s \in Records, Position(r) < Position(s)
  PROVE  r < s
  <1> DEFINE list == Listed(request)
             upto(p) == {t \in list : t <= p}
  <1>1. /\ r \in Int /\ s \in Int /\ IsFiniteSet(list)
        /\ Position(r) \in Int /\ Position(s) \in Int
    BY ListFacts DEF Records
  <1>2. Position(r) = Cardinality(upto(r)) /\ Position(s) = Cardinality(upto(s))
    BY DEF Position
  <1>3. list \subseteq Int
    BY ListFacts
  <1> HIDE DEF list
  <1>4. ASSUME s <= r PROVE FALSE
    <2>1. upto(s) \subseteq upto(r)
      <3>1. ASSUME NEW t \in list, t <= s PROVE t <= r
        BY <1>1, <1>3, <1>4, <3>1
      <3> QED BY <3>1
    <2>2. IsFiniteSet(upto(r))
      <3>1. upto(r) \subseteq list
        OBVIOUS
      <3> HIDE DEF upto
      <3> QED BY <1>1, <3>1, FS_Subset
    <2> HIDE DEF upto
    <2>3. Cardinality(upto(s)) <= Cardinality(upto(r))
      BY <2>1, <2>2, FS_Subset
    <2> QED BY <1>1, <1>2, <2>3
  <1> QED BY <1>1, <1>4

(* What a walk has not read yet lies ahead of where it has come to.        *)
LEMMA UnreadAhead ==
  ASSUME WalkInv, Reads
  PROVE  /\ request.direction = "forward" =>
              Unread = {r \in Records : r \in Listed(request) /\ ReadUpTo < Position(r)}
         /\ request.direction \in {"backward", "fromEnd"} =>
              Unread = {r \in Records : r \in Listed(request)
                                        /\ Position(r) <= ReadDownTo}
  <1>1. /\ Cardinality(Listed(request)) \in Nat
        /\ \A r \in Records :
             Position(r) \in Nat /\ Position(r) <= Cardinality(Listed(request))
    BY ListFacts DEF WalkInv
  <1>2. /\ LowerLimit(walk.start) \in Nat /\ UpperLimit(walk.start) \in Nat
        /\ LowerLimit(request.query) \in Nat /\ UpperLimit(request.query) \in Nat
    BY PageFacts, RequestFacts DEF WalkInv, WellFormed
  <1>3. ReadUpTo \in Nat /\ ReadDownTo \in Nat
    BY <1>2 DEF ReadUpTo, ReadDownTo
  <1>4. ASSUME request.direction = "forward", NEW r \in Records
        PROVE  MustRead(r) /\ walk.times[r] = 0
                 <=> r \in Listed(request) /\ ReadUpTo < Position(r)
    <2>1. ReadBetween(LowerLimit(walk.start), ReadUpTo)
      BY <1>4 DEF WalkInv, NoGap, Reads
    <2> QED BY <1>1, <1>2, <1>3, <1>4, <2>1 DEF ReadBetween, Between, MustRead
  <1>5. ASSUME request.direction \in {"backward", "fromEnd"}, NEW r \in Records
        PROVE  MustRead(r) /\ walk.times[r] = 0
                 <=> r \in Listed(request) /\ Position(r) <= ReadDownTo
    <2>1. /\ ReadBetween(ReadDownTo, UpperLimit(walk.start))
          /\ request.direction = "fromEnd"
               => Cardinality(Listed(request)) <= UpperLimit(walk.start)
      BY <1>5 DEF WalkInv, NoGap, Reads
    <2> QED BY <1>1, <1>2, <1>3, <1>5, <2>1 DEF ReadBetween, Between, MustRead
  <1> QED BY <1>4, <1>5 DEF Unread

LEMMA NothingUnread == WalkInv /\ Reads /\ WalkEnds => Unread = {}
  <1> SUFFICES ASSUME WalkInv, Reads, WalkEnds, NEW r \in Records, MustRead(r)
               PROVE  walk.times[r] # 0
    BY DEF Unread
  <1>1. walk.times[r] = 1
    BY WalkComplete DEF Reads
  <1> QED BY <1>1

LEMMA UnreadForwards ==
  WalkInv /\ Reads /\ request.direction = "forward" =>
    Unread = {r \in Records : r \in Listed(request) /\ ReadUpTo < Position(r)}
  BY UnreadAhead

LEMMA UnreadBackwards ==
  WalkInv /\ Reads /\ request.direction # "forward" =>
    Unread = {r \in Records : r \in Listed(request) /\ Position(r) <= ReadDownTo}
  BY UnreadAhead DEF Reads

-----------------------------------------------------------------------------
ReaderVars == <<total, Phase, Unread, Got>>

(* A walk that does not count is an idle reader.                           *)
LEMMA IdleReader ==
  ASSUME ~Reads, ~Reads', total' = total
  PROVE  UNCHANGED ReaderVars
  <1>1. Phase = "idle" /\ Unread = {} /\ Got = NeverRead
    BY PhaseFacts
  <1>2. (Phase = "idle" /\ Unread = {} /\ Got = NeverRead)'
    BY DEF Phase, Unread, Got
  <1>3. NeverRead' = NeverRead
    BY DEF NeverRead, Records
  <1> QED BY <1>1, <1>2, <1>3 DEF ReaderVars

(* What neither answers nor refuses a request does not concern the reader. *)
LEMMA ReaderWaits ==
  ASSUME UNCHANGED <<total, request, walk>>,
         step # "idle" <=> step' # "idle",
         Steady /\ Paginated(request) =>
           Listed(request)' = Listed(request),
         step # "refused" /\ step' # "refused",
         WalkEnds' <=> WalkEnds
  PROVE  UNCHANGED ReaderVars
  <1>1. Reads' = Reads
    BY DEF Reads, Steady, Paginated, DhRoute
  <1>2. CASE ~Reads
    BY <1>1, <1>2, IdleReader
  <1>3. CASE Reads
    <2>1. Records' = Records
      BY DEF Records
    <2>2. ASSUME NEW r \in Records PROVE MustRead(r)' = MustRead(r)
      BY <1>3 DEF MustRead, Position, Reads
    <2>3. Unread' = Unread
      BY <1>1, <2>1, <2>2 DEF Unread
    <2>4. Phase' = Phase
      BY <1>1 DEF Phase
    <2>5. Got' = Got
      BY <1>1, <1>3 DEF Got
    <2> QED BY <2>3, <2>4, <2>5 DEF ReaderVars
  <1> QED BY <1>2, <1>3

(* A walk begins: at its first page, or at the last one.                   *)
LEMMA ReaderBegins ==
  ASSUME ~Reads, total' = total, step' = "asked", walk'.times = NeverRead
  PROVE  Reader!Begin \/ UNCHANGED ReaderVars
  <1>1. CASE ~Reads'
    BY <1>1, IdleReader
  <1>2. CASE Reads'
    <2>1. Phase = "idle" /\ Got = NeverRead
      BY PhaseFacts
    <2>2. ~WalkEnds' /\ Phase' \in {"forwards", "backwards"}
      BY <1>2 DEF WalkEnds, Phase
    <2>3. Unread' \in SUBSET Records
      BY DEF Unread, Records
    <2>4. Got' = NeverRead
      BY <1>2 DEF Got
    <2> QED BY <2>1, <2>2, <2>3, <2>4 DEF Reader!Begin, Reader!Records, Records
  <1> QED BY <1>1, <1>2

(* A page arrives.                                                         *)
LEMMA ReaderTakes ==
  ASSUME WalkInv, WalkInv', Deliver
  PROVE  (\E page \in SUBSET Unread : Reader!Take(page)) \/ UNCHANGED ReaderVars
  <1> DEFINE q == request.query
             list == Listed(request)
             page == answer.records
  <1>1. /\ step = "served" /\ step' = "answered"
        /\ UNCHANGED <<total, window, request>> /\ Records' = Records
        /\ walk' = [walk EXCEPT !.times =
             [r \in Records |-> @[r] + (IF r \in page THEN 1 ELSE 0)]]
    BY DEF Deliver, consent, Records
  <1>2. /\ Listed(request)' = Listed(request)
        /\ Paginated(request)' = Paginated(request) /\ Steady' = Steady
        /\ \A r : Position(r)' = Position(r)
    BY <1>1, SameList
  <1>3. Reads' = Reads
    BY <1>1, <1>2 DEF Reads
  <1>4. CASE ~Reads
    BY <1>1, <1>3, <1>4, IdleReader
  <1>5. CASE Reads
    <2>1. /\ q \in Asked /\ LowerLimit(q) \in Nat /\ UpperLimit(q) \in Nat
          /\ LowerLimit(q) <= UpperLimit(q)
      <3>1. q \in Asked
        BY RequestFacts DEF WalkInv, WellFormed
      <3> QED BY <3>1, PageFacts
    <2>2. /\ Cardinality(list) \in Nat
          /\ \A r \in Records :
               /\ Position(r) \in Nat /\ Position(r) <= Cardinality(list)
               /\ r \in list => Position(r) >= 1
      BY ListFacts DEF WalkInv
    <2>3. /\ ReadUpTo = LowerLimit(q) /\ ReadUpTo' = UpperLimit(q)
          /\ ReadDownTo = UpperLimit(q) /\ ReadDownTo' = LowerLimit(q)
      BY <1>1 DEF ReadUpTo, ReadDownTo
    <2>4. /\ list \subseteq Records
          /\ page = Page(list, q)
      BY <1>1, <1>5, ListFacts DEF WalkInv, NoGap, Reads, Records
    <2> HIDE DEF q, list
    <2>5. \A r \in Records :
            r \in page <=> r \in list /\ LowerLimit(q) < Position(r)
                             /\ Position(r) <= UpperLimit(q)
      <3>1. ASSUME NEW r \in Records
            PROVE  r \in Page(list, q)
                     <=> r \in list /\ Position(r) \in Positions(q, Cardinality(list))
        BY <2>4 DEF Page, Position, list
      <3>2. ASSUME NEW p \in Nat, p <= Cardinality(list)
            PROVE  p \in Positions(q, Cardinality(list))
                     <=> LowerLimit(q) < p /\ p <= UpperLimit(q)
        BY <2>1, <2>2, <3>2 DEF Positions
      <3> QED BY <2>2, <2>4, <3>1, <3>2
    <2>6. page \subseteq Records
      BY DEF WalkInv, OwnAnswer
    <2>7. Phase = IF request.direction = "forward" THEN "forwards" ELSE "backwards"
      BY <1>1, <1>5, PhaseFacts DEF WalkEnds
    <2>8. /\ page \subseteq Unread
          /\ Unread' = Unread \ page
          /\ \A r \in page, s \in Unread \ page : Reader!Before(r, s)
      <3>1. CASE request.direction = "forward"
        <4>1. Unread = {r \in Records : r \in list /\ LowerLimit(q) < Position(r)}
          BY <1>5, <2>3, <3>1, UnreadForwards DEF list
        <4>2. (Unread = {r \in Records : r \in Listed(request)
                                         /\ ReadUpTo < Position(r)})'
          <5>1. (WalkInv /\ Reads /\ request.direction = "forward")'
            BY <1>1, <1>3, <1>5, <3>1
          <5> QED BY <5>1, UnreadForwards, PTL
        <4>3. Unread' = {r \in Records : r \in list /\ UpperLimit(q) < Position(r)}
          BY <1>1, <1>2, <2>3, <4>2 DEF list
        <4>4. page \subseteq Unread /\ Unread' = Unread \ page
          BY <2>1, <2>2, <2>5, <2>6, <4>1, <4>3
        <4>5. ASSUME NEW r \in page, NEW s \in Unread \ page
              PROVE  Reader!Before(r, s)
          <5>1. /\ r \in Records /\ s \in Records /\ Position(r) < Position(s)
            BY <2>1, <2>2, <2>5, <2>6, <4>1
          <5>2. r < s
            BY <5>1, PositionsGrow DEF WalkInv
          <5> QED BY <2>7, <3>1, <5>2 DEF Reader!Before
        <4> QED BY <4>4, <4>5
      <3>2. CASE request.direction # "forward"
        <4>1. Unread = {r \in Records : r \in list /\ Position(r) <= UpperLimit(q)}
          BY <1>5, <2>3, <3>2, UnreadBackwards DEF list
        <4>2. (Unread = {r \in Records : r \in Listed(request)
                                         /\ Position(r) <= ReadDownTo})'
          <5>1. (WalkInv /\ Reads /\ request.direction # "forward")'
            BY <1>1, <1>3, <1>5, <3>2
          <5> QED BY <5>1, UnreadBackwards, PTL
        <4>3. Unread' = {r \in Records : r \in list /\ Position(r) <= LowerLimit(q)}
          BY <1>1, <1>2, <2>3, <4>2 DEF list
        <4>4. page \subseteq Unread /\ Unread' = Unread \ page
          BY <2>1, <2>2, <2>5, <2>6, <4>1, <4>3
        <4>5. ASSUME NEW r \in page, NEW s \in Unread \ page
              PROVE  Reader!Before(r, s)
          <5>1. /\ r \in Records /\ s \in Records /\ Position(s) < Position(r)
            BY <2>1, <2>2, <2>5, <2>6, <4>1
          <5>2. s < r
            BY <5>1, PositionsGrow DEF WalkInv
          <5> QED BY <2>7, <3>2, <5>2 DEF Reader!Before
        <4> QED BY <4>4, <4>5
      <3> QED BY <3>1, <3>2
    <2>9. /\ Got = walk.times /\ Got' = walk'.times
          /\ walk'.times = [r \in Records |-> walk.times[r]
                                               + (IF r \in page THEN 1 ELSE 0)]
      BY <1>1, <1>3, <1>5 DEF Got, WalkInv, WellFormed
    <2>10. \/ Phase' = Phase
           \/ Phase' = "done" /\ Unread' = {}
      <3>1. CASE WalkEnds'
        <4>1. (WalkInv /\ Reads /\ WalkEnds)'
          BY <1>3, <1>5, <3>1
        <4>2. (Unread = {})'
          BY <4>1, NothingUnread, PTL
        <4>3. (Phase = "done")'
          BY <4>1, PhaseFacts, PTL
        <4> QED BY <4>2, <4>3
      <3>2. CASE ~WalkEnds'
        <4>1. Phase' = IF request.direction = "forward" THEN "forwards" ELSE "backwards"
          BY <1>1, <1>3, <1>5, <3>2 DEF Phase
        <4> QED BY <2>7, <4>1
      <3> QED BY <3>1, <3>2
    <2>11. Reader!Take(page)
      BY <1>1, <2>7, <2>8, <2>9, <2>10
         DEF Reader!Take, Reader!Reading, Reader!Records, Records
    <2> QED BY <2>8, <2>11
  <1> QED BY <1>4, <1>5

(* The next page is asked for, which the reader does not notice.           *)
LEMMA ReaderFollows ==
  ASSUME WalkInv, Follow
  PROVE  UNCHANGED ReaderVars
  <1> DEFINE q == request.query
             u == answer.links[NextLink(request.direction)]
             direction == request.direction
  <1>1. /\ step = "answered" /\ CanFollow /\ Ask(u, direction)
        /\ direction \in {"forward", "backward", "fromEnd"}
        /\ walk' = walk /\ step' = "asked"
        /\ UNCHANGED <<total, window>>
    BY DEF Follow, Ask, consent
  <1>2. /\ Paginated(request) /\ u \in Asked
        /\ u.filter = IF q.filter = "offset" THEN "garbled" ELSE q.filter
    BY <1>1, LinkFollowed
  <1>3. /\ request'.index = request.index /\ request'.query = u
        /\ request'.direction = direction
    BY <1>1, <1>2, RequestFacts, AskWellFormed DEF WalkInv, WellFormed
  <1> HIDE DEF q, u, direction
  <1>4. DhRoute(request)' = DhRoute(request)
    BY <1>3 DEF DhRoute
  <1>5. Steady' <=> Steady
    BY <1>2, <1>3, <1>4 DEF Steady, q
  <1>6. Reads' <=> Reads
    BY <1>1, <1>3, <1>4, <1>5 DEF Reads, Paginated, direction
  <1>7. CASE ~Reads
    BY <1>1, <1>6, <1>7, IdleReader
  <1>8. CASE Reads
    <2>1. /\ Listed(request)' = Listed(request)
          /\ \A s : Position(s)' = Position(s)
      <3>1. CASE DhRoute(request).kind = "list"
        BY <1>1, <1>4, <3>1 DEF Listed, Position, Records
      <3>2. CASE q.filter = "since"
        BY <1>1, <1>2, <1>3, <3>2, SameList DEF q
      <3> QED BY <1>8, <3>1, <3>2 DEF Reads, Steady, q
    <2>2. Unread' = Unread
      BY <1>1, <1>3, <1>6, <2>1 DEF Unread, MustRead, Records, direction
    <2>3. Phase' = Phase
      BY <1>1, <1>3, <1>6, <1>8 DEF Phase, WalkEnds, direction
    <2>4. Got' = Got
      BY <1>1, <1>6, <1>8 DEF Got
    <2> QED BY <1>1, <2>2, <2>3, <2>4 DEF ReaderVars
  <1> QED BY <1>7, <1>8

(* A request is refused, and the backend gives up; or it closes the walk.  *)
LEMMA ReaderGivesUp ==
  ASSUME Forbid \/ GiveUp
  PROVE  Reader!GiveUp \/ UNCHANGED ReaderVars
  <1>1. /\ step \in {"asked", "failed"} /\ step' = "refused"
        /\ UNCHANGED <<total, window, request, walk>>
    BY DEF Forbid, GiveUp, consent
  <1>2. /\ Reads' = Reads /\ \A r : MustRead(r)' = MustRead(r)
        /\ Records' = Records
    BY <1>1, SameList DEF Reads, MustRead, Records
  <1>3. CASE ~Reads
    BY <1>1, <1>2, <1>3, IdleReader
  <1>4. CASE Reads
    <2>1. Phase \in {"forwards", "backwards"}
      BY <1>1, <1>4, PhaseFacts DEF WalkEnds
    <2>2. (Phase = "given up")'
      <3>1. (Reads /\ step = "refused")'
        BY <1>1, <1>2, <1>4
      <3> QED BY <3>1, PhaseFacts, PTL
    <2>3. Unread' = Unread /\ Got' = Got
      BY <1>1, <1>2, <1>4 DEF Unread, Got
    <2> QED BY <1>1, <2>1, <2>2, <2>3 DEF Reader!GiveUp, Reader!Reading
  <1> QED BY <1>3, <1>4

LEMMA ReaderCloses ==
  ASSUME Close
  PROVE  Reader!Close \/ UNCHANGED ReaderVars
  <1>1. /\ step \in {"answered", "refused"}
        /\ step = "answered" => ~CanFollow
        /\ step' = "idle" /\ total' = total
    BY DEF Close, consent
  <1>2. ~Reads'
    BY <1>1 DEF Reads
  <1>3. CASE ~Reads
    BY <1>1, <1>2, <1>3, IdleReader
  <1>4. CASE Reads
    <2>1. Phase \in {"done", "given up"}
      <3>1. step = "refused" \/ WalkEnds
        BY <1>1, <1>4 DEF WalkEnds, Reads
      <3> QED BY <1>4, <3>1, PhaseFacts
    <2>2. Phase' = "idle" /\ Unread' = {} /\ Got' = NeverRead'
      BY <1>2 DEF Phase, Unread, Got
    <2>3. NeverRead' = Reader!Nothing
      BY <1>1 DEF NeverRead, Records, Reader!Nothing, Reader!Records
    <2> QED BY <1>1, <2>1, <2>2, <2>3 DEF Reader!Close
  <1> QED BY <1>3, <1>4

LEMMA NextReads ==
  WalkInv /\ WalkInv' /\ [Next]_vars => [Reader!Next]_ReaderVars
  <1> SUFFICES ASSUME WalkInv, WalkInv', [Next]_vars
               PROVE  [Reader!Next]_ReaderVars
    OBVIOUS
  <1>1. CASE \/ Authorise \/ WithAccessToken \/ Refresh \/ RefreshDenied
             \/ NoToken \/ Heal \/ Serves \/ Refuses \/ Hangs \/ EvaluationFails
             \/ RefreshLost \/ AnswerLost
    <2>1. /\ UNCHANGED <<total, window, request, walk>>
          /\ {step, step'} \cap {"idle", "answered", "refused"} = {}
      BY <1>1 DEF Authorise, WithAccessToken, Refresh, NeedsRefresh, RefreshDenied,
                  NoToken, Heal, Serves, Refuses, Hangs, EvaluationFails,
                  RefreshLost, AnswerLost, consent
    <2>2. Listed(request)' = Listed(request)
      BY <2>1, SameList
    <2> QED BY <2>1, <2>2, ReaderWaits DEF WalkEnds
  <1>2. CASE TokenExpires \/ Withdraw \/ UNCHANGED vars
    <2>1. UNCHANGED <<total, window, step, request, answer, walk>>
      BY <1>2 DEF TokenExpires, Withdraw, vars, consent
    <2> QED BY <2>1
            DEF ReaderVars, Phase, Unread, Got, Reads, Steady, Paginated, DhRoute,
                WalkEnds, CanFollow, MustRead, Position, Listed, Records, NeverRead
  <1>3. CASE \E r \in window : Ages(r)
    <2>1. /\ UNCHANGED <<total, step, request, answer, walk>>
          /\ request.query.filter = "none"
          /\ DhRoute(request).kind = "transactions"
      BY <1>3 DEF Ages, consent
    <2>2. ~Steady /\ ~Steady'
      BY <2>1 DEF Steady, DhRoute
    <2> QED BY <2>1, <2>2, IdleReader DEF Reads
  <1>4. CASE \E req \in Openings : Open(req)
    <2>1. /\ step = "idle" /\ total' = total /\ step' = "asked"
          /\ walk'.times = NeverRead
      BY <1>4 DEF Open, consent
    <2> QED BY <2>1, ReaderBegins DEF Reads, Reader!Next
  <1>5. CASE FollowLast
    <2>1. /\ request.direction = "toEnd" /\ total' = total /\ step' = "asked"
          /\ walk'.times = NeverRead
      BY <1>5 DEF FollowLast, Ask, consent
    <2> QED BY <2>1, ReaderBegins DEF Reads, Reader!Next
  <1>6. CASE Deliver
    BY <1>6, ReaderTakes DEF Reader!Next
  <1>7. CASE Follow
    BY <1>7, ReaderFollows
  <1>8. CASE Forbid \/ GiveUp
    BY <1>8, ReaderGivesUp DEF Reader!Next
  <1>9. CASE Close
    BY <1>9, ReaderCloses DEF Reader!Next
  <1> QED BY <1>1, <1>2, <1>3, <1>4, <1>5, <1>6, <1>7, <1>8, <1>9
          DEF Next, Gateway, DataHolder, Backend

(* For every page size, list, first request and number of faults and       *)
(* iterations, a walk implements a reader of the list: the records come in *)
(* order, without a gap, and each once, and whoever finds no other link    *)
(* has all of them (Paginate, metaUrl, ForwardRequest, GetWithHealing,     *)
(* DepaginateRequest).                                                     *)
THEOREM WalksImplementReader == Spec => ReadsTheList
  <1>1. Init => Reader!Init
    <2> SUFFICES ASSUME Init PROVE Reader!Init
      OBVIOUS
    <2>1. total \in Nat /\ step = "idle"
      BY LengthsAssumption DEF Init
    <2>2. Phase = "idle" /\ Unread = {} /\ Got = NeverRead
      BY <2>1, PhaseFacts DEF Reads
    <2> QED BY <2>1, <2>2
            DEF Reader!Init, Reader!Nothing, Reader!Records, NeverRead, Records
  <1>2. WalkInv /\ WalkInv' /\ [Next]_vars => [Reader!Next]_<<total, Phase, Unread, Got>>
    BY NextReads DEF ReaderVars
  <1> QED BY <1>1, <1>2, WalkInvHolds, PTL DEF Spec, ReadsTheList, Reader!Spec
=============================================================================
