----------------------------- MODULE ConsentLog -----------------------------
(***************************************************************************)
(* The life of consents in the gateway: the table of consents, the request *)
(* handlers of the backend and of the frontend that work on it, the        *)
(* housekeeper that propagates revocations, and the data holder at the     *)
(* other end of their calls.                                               *)
(*                                                                         *)
(* A handler loads a row, decides on its copy, awaits calls to the data    *)
(* holder and to the database and saves a copy.  A save is two steps       *)
(* (TypeORM): it selects the row, and then updates those columns in which  *)
(* the copy differed from it.  One step of a handler is what it does       *)
(* between two awaits that another handler can notice.                     *)
(***************************************************************************)
EXTENDS ConsentRow, DhConsent

CONSTANTS
  Consents,                \* primary keys of the consent table
  Handlers,                \* requests under way at a time, in any process
  Housekeeper,             \* the PropagateConsents task
  DataHolders,
  DhOf,                    \* the data holder of each consent
  Durations,               \* sharing durations asked for, 0 = once-off access
  UseArrangementEndpoint,  \* UseDhArrangementEndpoint and the holder has one
  PropagationWindow,       \* the 7 days of NextRevocationToPropagate
  SyncTTL,                 \* maxAge of SyncRefreshTokenStatus
  MaxHealing,              \* MAXIMUM_HEALING_ITERATIONS
  \* bounds of the model
  LastTime,                \* a consent is followed until LastTime[c]
  MaxFaults

ASSUME ConsentsAssumption == Consents \subseteq Nat \ {0}
ASSUME HousekeeperAssumption == Housekeeper \notin Handlers
ASSUME DataHolderAssumption == DhOf \in [Consents -> DataHolders]
ASSUME LastTimeAssumption == LastTime \in [Consents -> Nat]
ASSUME DurationAssumption == Durations \subseteq Nat
ASSUME SwitchAssumption == UseArrangementEndpoint \in BOOLEAN
ASSUME NumberAssumption ==
  /\ PropagationWindow \in Nat
  /\ SyncTTL \in Nat
  /\ MaxHealing \in Nat \ {0}
  /\ MaxFaults \in Nat

Actors == Handlers \cup {Housekeeper}

VARIABLES
  now,        \* the clock
  row,        \* the table: row[c] is the row of consent c
  dh,         \* the data holders' side of each consent
  h,          \* what each actor holds while it works
  syncCache,  \* until when the result of SyncRefreshTokenStatus is cached
  cursor,     \* the last consent the housekeeper took in this round
  broken,     \* data holders that failed in this round
  faults,     \* calls, saves and processes that have failed
  mixed       \* for the properties: rows in which the columns of two
              \* overlapping saves have met

vars == <<now, row, dh, h, syncCache, cursor, broken, faults, mixed>>

(* What a handler is doing.  "token" is the evaluation of                  *)
(* ConsentCurrentAccessToken, "data" that of ConsumerDataAccessCredentials *)
(* or UserInfoAccessCredentials, each with its healing iterations.         *)
Ops == {"none", "confirm", "token", "data", "delete", "withdraw", "propagate"}

(* A save is at "save..." before it selects the row, and at "update..."    *)
(* before it updates it.                                                   *)
PCs == {"idle", "credentials", "sync", "saveSync", "updateSync", "request",
        "load", "save", "update", "forward", "saveRevoked", "updateRevoked",
        "propagate", "saveMarked", "updateMarked"}

(* copy: the entity passed to the evaluation, kept over its iterations     *)
(* work: the entity UpdateTokens has loaded                                *)
(* sent: tokenRequestTime;  iter: the healing iteration                    *)
(* columns: those that a save is about to update                           *)
Local == [pc : PCs, op : Ops, cid : Consents \cup {0}, copy : Row, work : Row,
          reply : Reply, sent : Nat, iter : Nat, columns : SUBSET Columns]

Idle == [pc |-> "idle", op |-> "none", cid |-> 0, copy |-> NoRow,
         work |-> NoRow, reply |-> NoReply, sent |-> 0, iter |-> 0,
         columns |-> {}]

Init ==
  /\ now = 1
  /\ row = [c \in Consents |-> NoRow]
  /\ dh = [c \in Consents |-> NoDhRow]
  /\ h = [a \in Actors |-> Idle]
  /\ syncCache = [c \in Consents |-> 0]
  /\ cursor = 0
  /\ broken = {}
  /\ faults = 0
  /\ mixed = {}

-----------------------------------------------------------------------------
At(a, pc) == h[a].pc = pc

Set(a, local) == h' = [h EXCEPT ![a] = local]

Finish(a) == Set(a, Idle)

(* The handler starts working on a copy of the row it has just loaded.     *)
Start(a, op, pc, c, copy) ==
  /\ At(a, "idle")
  /\ row[c].logged
  /\ Set(a, [Idle EXCEPT !.pc = pc, !.op = op, !.cid = c, !.copy = copy])

(* Where the evaluation of an operation begins again when it is healed     *)
Restart(op) ==
  CASE op \in {"token", "data"} -> "credentials"
    [] op = "confirm"           -> "sync"
    [] OTHER                    -> "propagate"

(* CommsDependencyEvaluator.get: the next iteration starts over with the   *)
(* same parameters, that is with the same copy, as the failed iteration    *)
(* left it.                                                                *)
NextIteration(l) ==
  IF l.iter < MaxHealing
  THEN [Idle EXCEPT !.pc = Restart(l.op), !.op = l.op, !.cid = l.cid,
                    !.copy = l.copy, !.iter = l.iter + 1]
  ELSE Idle

(* The iteration has failed with local state l.  A housekeeper that runs   *)
(* out of iterations notes the data holder as broken for this round.       *)
Retry(a, l) ==
  /\ Set(a, NextIteration(l))
  /\ broken' = IF a = Housekeeper /\ l.iter >= MaxHealing
               THEN broken \cup {DhOf[l.cid]} ELSE broken

(* The entity that a handler saves, and the place behind the SELECT        *)
Saved(l) == IF l.pc \in {"save", "update"} THEN l.work ELSE l.copy

SavePCs == {"saveSync", "save", "saveRevoked", "saveMarked"}

AfterSelect(pc) ==
  CASE pc = "saveSync"    -> "updateSync"
    [] pc = "save"        -> "update"
    [] pc = "saveRevoked" -> "updateRevoked"
    [] pc = "saveMarked"  -> "updateMarked"

(* The SELECT of a save, in no transaction with its UPDATE                 *)
Select(a) ==
  /\ h[a].pc \in SavePCs
  /\ Set(a, [h[a] EXCEPT !.pc = AfterSelect(@),
                         !.columns = Differing(row[h[a].cid], Saved(h[a]))])
  /\ UNCHANGED <<now, row, dh, syncCache, cursor, broken, faults, mixed>>

(* The UPDATE: columns that another has written since the SELECT stay, and *)
(* the row is what neither of the two has meant to save.                   *)
Update(a) ==
  LET c == h[a].cid
      copy == Saved(h[a])
      result == Updated(row[c], copy, h[a].columns)
  IN  /\ row' = [row EXCEPT ![c] = result]
      /\ mixed' = IF result = copy THEN mixed ELSE mixed \cup {c}

-----------------------------------------------------------------------------
(* Mistakes the runs must notice.                                          *)

(* every iteration of an evaluation uses the cache *)
SyncAlwaysCached(l) == now < syncCache[l.cid]

(* the revocation endpoint is used although the arrangement endpoint is    *)
(* configured                                                              *)
TellHolderToken(copy, c) ==
  dh' = [dh EXCEPT ![c] = RevokeRefreshToken(@, copy.refresh)]

-----------------------------------------------------------------------------
(* Consent requests and the consumer at the data holder.                   *)

(* GetAuthorizationRequest ends with LogAuthRequest                        *)
RequestConsent(c) ==
  /\ ~row[c].logged
  /\ now <= LastTime[c]
  /\ row' = [row EXCEPT ![c] = PendingRow]
  /\ UNCHANGED <<now, dh, h, syncCache, cursor, broken, faults, mixed>>

(* The consumer authorises the request; the redirect carries the code.     *)
DhGrant(c) ==
  /\ row[c].logged
  /\ dh[c].code = "none"
  /\ \E duration \in Durations :
       dh' = [dh EXCEPT ![c] = Grant(@, duration, now)]
  /\ UNCHANGED <<now, row, h, syncCache, cursor, broken, faults, mixed>>

(* The consumer withdraws the consent at the data holder.                  *)
DhWithdraw(c) ==
  /\ dh[c].code = "consumed"
  /\ ~dh[c].revoked
  /\ dh' = [dh EXCEPT ![c] = RevokeArrangement(@)]
  /\ UNCHANGED <<now, row, h, syncCache, cursor, broken, faults, mixed>>

-----------------------------------------------------------------------------
(* Requests to the backend and to the frontend.                            *)

(* ValidateAuthorizeResponse turns a copy away that has an id token already.*)
AuthorizeResponseValid(c) == dh[c].code # "none" /\ ~row[c].finalised

(* PATCH /cdr/consents/:id with the code that the redirect has brought      *)
ConfirmStart(a, c) ==
  /\ AuthorizeResponseValid(c)
  /\ Start(a, "confirm", "sync", c, row[c])
  /\ UNCHANGED <<now, row, dh, syncCache, cursor, broken, faults, mixed>>

(* GET of consumer data or of user info: without a current token of either *)
(* kind the answer is 403.                                                 *)
AccessStart(a, c) ==
  /\ \/ /\ HasCurrentAccessToken(row[c], now)
        /\ Start(a, "data", "credentials", c, row[c])
     \/ /\ ~HasCurrentAccessToken(row[c], now)
        /\ HasCurrentRefreshToken(row[c], now)
        /\ Start(a, "token", "credentials", c, row[c])
  /\ UNCHANGED <<now, row, dh, syncCache, cursor, broken, faults, mixed>>

(* DELETE /cdr/consents/:id *)
DeleteStart(a, c) ==
  /\ IsCurrent(row[c], now)
  /\ Start(a, "delete", "saveRevoked", c,
           RevokeConsent(row[c], "DataRecipient", now))
  /\ UNCHANGED <<now, row, dh, syncCache, cursor, broken, faults, mixed>>

(* POST /revoke finds the row by the refresh token, whatever its status.    *)
FoundByRefreshToken(c) == row[c].refresh # 0 /\ row[c].refresh = dh[c].refresh

(* POST /arrangements/revoke finds the row by its arrangement and keeps it  *)
(* only if it is current.                                                   *)
FoundByArrangement(c) == IsCurrent(row[c], now)

(* The data holder reports a withdrawn consent, in one way or the other.    *)
(* A row that is not found is not changed.                                  *)
WithdrawStart(a, c) ==
  /\ dh[c].revoked
  /\ FoundByRefreshToken(c) \/ FoundByArrangement(c)
  /\ Start(a, "withdraw", "saveRevoked", c,
           RevokeConsent(row[c], "DataHolder", now))
  /\ UNCHANGED <<now, row, dh, syncCache, cursor, broken, faults, mixed>>

(* The UPDATE of consent.save() in RevokeConsent.  The backend answers 200 *)
(* and goes on to propagate the revocation, unawaited.                     *)
SaveRevoked(a) ==
  /\ At(a, "updateRevoked")
  /\ Update(a)
  /\ IF h[a].op = "delete"
     THEN Set(a, [h[a] EXCEPT !.pc = "propagate", !.columns = {}])
     ELSE Finish(a)
  /\ UNCHANGED <<now, dh, syncCache, cursor, broken, faults>>

-----------------------------------------------------------------------------
(* ConsentCurrentAccessToken and what it depends on.                       *)

(* An access token has been obtained and sits in r: the evaluation of      *)
(* ConsentCurrentAccessToken returns it to the handler, the evaluation of  *)
(* the credentials uses it and keeps the copy it was called with.          *)
Obtained(a, r) ==
  Set(a, [Idle EXCEPT !.cid = h[a].cid, !.op = "data",
            !.pc = IF h[a].op = "token" THEN "credentials" ELSE "forward",
            !.copy = IF h[a].op = "token" THEN r ELSE h[a].copy,
            !.work = IF h[a].op = "token" THEN NoRow ELSE r,
            !.iter = IF h[a].op = "token" THEN 0 ELSE h[a].iter])

(* ConsentRefreshTokens is evaluated when the copy has a refresh token and *)
(* no access token.  With neither, no iteration can succeed.               *)
Credentials(a) ==
  /\ At(a, "credentials")
  /\ LET copy == h[a].copy IN
       \/ /\ HasCurrentAccessToken(copy, now)
          /\ Obtained(a, copy)
       \/ /\ ~HasCurrentAccessToken(copy, now)
          /\ HasCurrentRefreshToken(copy, now)
          /\ Set(a, [h[a] EXCEPT !.pc = "sync"])
       \/ /\ ~HasCurrentAccessToken(copy, now)
          /\ ~HasCurrentRefreshToken(copy, now)
          /\ Finish(a)
  /\ UNCHANGED <<now, row, dh, syncCache, cursor, broken, faults, mixed>>

CacheSync(c) == syncCache' = [syncCache EXCEPT ![c] = now + SyncTTL]

(* Iteration 0 uses every cache; this dependency is the last of every      *)
(* cache trail, so that no later iteration uses its cache.                 *)
SyncCached(l) == l.iter = 0 /\ now < syncCache[l.cid]

(* FetchTokens notes the time and sends the token request.                 *)
SendRequest(a, l) ==
  Set(a, [l EXCEPT !.pc = "request", !.sent = now, !.columns = {}])

(* SyncRefreshTokenStatus with its introspection call.  An inactive token  *)
(* revokes the copy.                                                       *)
Sync(a) ==
  LET l == h[a]
      c == h[a].cid
      active == HasCurrentRefreshToken(l.copy, now)
                  /\ TokenActive(dh[c], l.copy.refresh, now)
  IN
  /\ At(a, "sync")
  /\ \/ /\ SyncCached(l)
        /\ SendRequest(a, l)
        /\ UNCHANGED syncCache
     \/ /\ ~SyncCached(l)
        /\ l.copy.refresh = 0 \/ active
        /\ CacheSync(c)
        /\ SendRequest(a, l)
     \/ /\ ~SyncCached(l)
        /\ l.copy.refresh # 0 /\ ~active
        /\ Set(a, [l EXCEPT !.pc = "saveSync",
                            !.copy = RevokeConsent(@, "DataHolder", now)])
        /\ UNCHANGED syncCache
  /\ UNCHANGED <<now, row, dh, cursor, broken, faults, mixed>>

(* The revoked copy is saved.  The status that is returned is not looked   *)
(* at: FetchTokens is evaluated all the same.                              *)
SaveSync(a) ==
  /\ At(a, "updateSync")
  /\ Update(a)
  /\ CacheSync(h[a].cid)
  /\ SendRequest(a, h[a])
  /\ UNCHANGED <<now, dh, cursor, broken, faults>>

(* What the data holder makes of the token request of a                    *)
TokenGranted(a) ==
  LET d == dh[h[a].cid] IN
    IF h[a].op = "confirm" THEN CodeAccepted(d, now)
                           ELSE TokenActive(d, h[a].copy.refresh, now)

IssueTokens(c) == dh' = [dh EXCEPT ![c] = Regenerate(@, now)]

Request(a) ==
  /\ At(a, "request")
  /\ \/ /\ TokenGranted(a)
        /\ IssueTokens(h[a].cid)
        /\ Set(a, [h[a] EXCEPT !.pc = "load",
                    !.reply = TokenReply(Regenerate(dh[h[a].cid], now))])
        /\ UNCHANGED broken
     \/ /\ ~TokenGranted(a)
        /\ Retry(a, h[a])
        /\ UNCHANGED dh
  /\ UNCHANGED <<now, row, syncCache, cursor, faults, mixed>>

(* UpdateClaims, and UpdateTokens up to its save: it loads a row of its    *)
(* own, and leaves the copy alone.                                         *)
Load(a) ==
  LET l == h[a] IN
  /\ At(a, "load")
  /\ Set(a, [l EXCEPT !.pc = "save", !.reply = NoReply, !.sent = 0,
               !.work = UpdateTokens(row[l.cid], l.reply, l.sent, now)])
  /\ UNCHANGED <<now, row, dh, syncCache, cursor, broken, faults, mixed>>

(* The save of UpdateTokens, then the validator of                         *)
(* ConsentCurrentAccessToken.                                              *)
SaveTokens(a) ==
  LET work == h[a].work IN
  /\ At(a, "update")
  /\ Update(a)
  /\ \/ /\ h[a].op = "confirm"
        /\ Finish(a)
        /\ UNCHANGED broken
     \/ /\ h[a].op # "confirm"
        /\ HasCurrentAccessToken(work, now)
        /\ Obtained(a, work)
        /\ UNCHANGED broken
     \/ /\ h[a].op # "confirm"
        /\ ~HasCurrentAccessToken(work, now)
        /\ Retry(a, h[a])
  /\ UNCHANGED <<now, dh, syncCache, cursor, faults>>

(* ForwardRequest is the validator of the evaluation: any answer other     *)
(* than success, also one that the caller's own parameters have earned,    *)
(* starts the next iteration.                                              *)
Forward(a) ==
  /\ At(a, "forward")
  /\ \/ /\ ServesAccessToken(dh[h[a].cid], h[a].work.access, now)
        /\ Finish(a)
        /\ UNCHANGED broken
     \/ Retry(a, h[a])
  /\ UNCHANGED <<now, row, dh, syncCache, cursor, faults, mixed>>

-----------------------------------------------------------------------------
(* Propagation of a revocation to the data holder.                         *)

(* The call of PropagateRevokedConsent reaches the data holder.            *)
TellHolder(copy, c) ==
  dh' = [dh EXCEPT ![c] =
           IF UseArrangementEndpoint /\ copy.finalised
           THEN RevokeArrangement(@)
           ELSE RevokeRefreshToken(@, copy.refresh)]

(* Without a refresh token every iteration throws.                         *)
Propagate(a) ==
  /\ At(a, "propagate")
  /\ \/ /\ h[a].copy.refresh # 0
        /\ TellHolder(h[a].copy, h[a].cid)
        /\ Set(a, [h[a] EXCEPT !.pc = "saveMarked", !.copy = MarkRevoked(@)])
     \/ /\ h[a].copy.refresh = 0
        /\ Finish(a)
        /\ UNCHANGED dh
  /\ UNCHANGED <<now, row, syncCache, cursor, broken, faults, mixed>>

SaveMarked(a) ==
  /\ At(a, "updateMarked")
  /\ Update(a)
  /\ Finish(a)
  /\ UNCHANGED <<now, dh, syncCache, cursor, broken, faults>>

(* NextRevocationToPropagate(cursor) may return any of these *)
ToPropagate ==
  {c \in Consents :
     /\ c > cursor
     /\ row[c].revokedAt = "DataRecipient"
     /\ ~row[c].propagated
     /\ Revoked(row[c]) /\ now < row[c].revokedOn + PropagationWindow
     /\ row[c].refresh # 0}

(* PropagateConsents takes the next consent, or passes over it.            *)
TakeRevocation(c) ==
  /\ c \in ToPropagate
  /\ \/ /\ DhOf[c] \in broken
        /\ At(Housekeeper, "idle")
        /\ UNCHANGED h
     \/ /\ DhOf[c] \notin broken
        /\ Start(Housekeeper, "propagate", "propagate", c, row[c])
  /\ cursor' = c
  /\ UNCHANGED <<now, row, dh, syncCache, broken, faults, mixed>>

(* Mistake the runs must notice: brokenDataholders outlives the round.     *)
EndRoundKeepsBroken ==
  /\ At(Housekeeper, "idle")
  /\ ToPropagate = {}
  /\ cursor # 0
  /\ cursor' = 0
  /\ UNCHANGED <<now, row, dh, h, syncCache, broken, faults, mixed>>

(* Nothing left: OnInterval will start another round.                      *)
EndRound ==
  /\ At(Housekeeper, "idle")
  /\ ToPropagate = {}
  /\ cursor # 0 \/ broken # {}
  /\ cursor' = 0
  /\ broken' = {}
  /\ UNCHANGED <<now, row, dh, h, syncCache, faults, mixed>>

-----------------------------------------------------------------------------
(* What can go wrong, at most MaxFaults times.                             *)

Fault == faults < MaxFaults /\ faults' = faults + 1

(* A call fails before it has an effect, and may do so in every iteration  *)
(* up to the i-th.                                                         *)
CallFails(a) ==
  /\ h[a].pc \in {"sync", "request", "propagate"}
  /\ Fault
  /\ \E i \in h[a].iter .. MaxHealing : Retry(a, [h[a] EXCEPT !.iter = i])
  /\ UNCHANGED <<now, row, dh, syncCache, cursor, mixed>>

(* A call has its effect and the answer is lost. *)
AnswerLost(a) ==
  /\ \/ At(a, "request") /\ TokenGranted(a) /\ IssueTokens(h[a].cid)
     \/ /\ At(a, "propagate")
        /\ h[a].copy.refresh # 0
        /\ TellHolder(h[a].copy, h[a].cid)
  /\ Fault
  /\ Retry(a, h[a])
  /\ UNCHANGED <<now, row, syncCache, cursor, mixed>>

(* The database fails.  RevokeConsent of a handler is not evaluated again; *)
(* the other saves are part of an evaluation.                              *)
SaveFails(a) ==
  /\ \/ /\ h[a].pc \in {"saveRevoked", "updateRevoked"}
        /\ Finish(a)
        /\ UNCHANGED broken
     \/ /\ h[a].pc \in {"saveSync", "updateSync", "load", "save", "update",
                       "saveMarked", "updateMarked"}
        /\ Retry(a, h[a])
  /\ Fault
  /\ UNCHANGED <<now, row, dh, syncCache, cursor, mixed>>

(* The gateway's processes stop and start again. *)
ProcessRestart ==
  /\ Fault
  /\ h # [a \in Actors |-> Idle]
  /\ h' = [a \in Actors |-> Idle]
  /\ syncCache' = [c \in Consents |-> 0]
  /\ cursor' = 0
  /\ broken' = {}
  /\ UNCHANGED <<now, row, dh, mixed>>

(* The clock goes no further than the consents there are, are followed.    *)
Tick ==
  /\ \E c \in Consents : row[c].logged
  /\ \A c \in Consents : row[c].logged => now < LastTime[c]
  /\ now' = now + 1
  /\ UNCHANGED <<row, dh, h, syncCache, cursor, broken, faults, mixed>>

-----------------------------------------------------------------------------
(* An actor goes on with what it is doing. *)
Work(a) ==
  \/ Credentials(a) \/ Sync(a) \/ SaveSync(a) \/ Request(a)
  \/ Load(a) \/ SaveTokens(a) \/ Forward(a)
  \/ SaveRevoked(a) \/ Propagate(a) \/ SaveMarked(a) \/ Select(a)

Arrive(a, c) ==
  \/ ConfirmStart(a, c) \/ AccessStart(a, c)
  \/ DeleteStart(a, c) \/ WithdrawStart(a, c)

Failure == \E a \in Actors : CallFails(a) \/ AnswerLost(a) \/ SaveFails(a)

Next ==
  \/ \E c \in Consents : RequestConsent(c) \/ DhGrant(c) \/ DhWithdraw(c)
  \/ \E a \in Handlers, c \in Consents : Arrive(a, c)
  \/ \E a \in Actors : Work(a)
  \/ \E c \in Consents : TakeRevocation(c)
  \/ EndRound
  \/ Failure
  \/ ProcessRestart
  \/ Tick

Spec == Init /\ [][Next]_vars

(* Calls are answered or time out, the event loop resumes every handler    *)
(* whose call was answered, and OnInterval starts round after round.       *)
(* The query of the housekeeper has no ORDER BY: a row it is to find again *)
(* and again is found some time.  Nobody is bound to send a request, and   *)
(* the clock need not pass.                                                *)
FairSpec ==
  /\ Spec
  /\ \A a \in Actors : WF_vars(Work(a))
  /\ \A c \in Consents : SF_vars(TakeRevocation(c))
  /\ WF_vars(EndRound)

-----------------------------------------------------------------------------
(* Every variable has the shape the code gives it. *)
TypeOK ==
  /\ now \in Nat \ {0}
  /\ row \in [Consents -> Row]
  /\ dh \in [Consents -> DhRow]
  /\ h \in [Actors -> Local]
  /\ syncCache \in [Consents -> Nat]
  /\ cursor \in Consents \cup {0}
  /\ broken \subseteq DataHolders
  /\ faults \in Nat
  /\ mixed \subseteq Consents

(* Copies of the row of c: the table's own and those under way.            *)
CopiesOf(c) ==
  {row[c]} \cup {h[a].copy : a \in {b \in Actors : h[b].cid = c}}
           \cup {h[a].work : a \in {b \in Actors : h[b].cid = c}}

(* The three columns of a revocation agree in every row and in every copy  *)
(* that may yet be saved over one, a date exactly when there is a place,   *)
(* and propagation only of what the data recipient revoked, as long as the *)
(* UPDATE of a save has not met columns that another save has written      *)
(* since its SELECT: handlers that decide on stale copies and save them    *)
(* over each other do not part the columns, only overlapping saves do      *)
(* (RevokeConsent, MarkRevoked, UpdateTokens).                             *)
RevocationAgrees(r) ==
  /\ r.revokedAt = "none" <=> r.revokedOn = 0
  /\ r.propagated => r.revokedAt = "DataRecipient"

RevocationColumnsAgree ==
  \A c \in Consents \ mixed : \A r \in CopiesOf(c) : RevocationAgrees(r)

(* The gateway never takes a token for longer lived than the data holder   *)
(* does, although it works with expires_in and the holder with its own     *)
(* clock at the time of issue (tokenRequestTime in FetchTokens,            *)
(* refreshTokenExpiry in UpdateClaims).                                    *)
ExpiryNotOverestimated ==
  \A c \in Consents :
    /\ row[c].access # 0 /\ row[c].access = dh[c].access =>
         row[c].accessExp <= dh[c].accessExp
    /\ row[c].refresh # 0 /\ row[c].refresh = dh[c].refresh =>
         row[c].refreshExp <= dh[c].refreshExp

(* With the arrangement endpoint, a revocation marked as propagated has    *)
(* reached the data holder, whatever calls were lost and repeated          *)
(* (PropagateRevokedConsent).                                              *)
PropagatedIsWithdrawn ==
  UseArrangementEndpoint =>
    \A c \in Consents : row[c].propagated => dh[c].revoked

(* A revoked row whose revocation every handler at work knows of.          *)
CopyKnows(r) == r.logged => Revoked(r)

Settled(c) ==
  /\ Revoked(row[c])
  /\ \A a \in Actors : h[a].cid = c => CopyKnows(h[a].copy) /\ CopyKnows(h[a].work)

(* Once no handler is at work on a copy from before the revocation, the    *)
(* revocation is there for good: nothing unsets it and nothing makes a     *)
(* stale copy again (ConsentRequestLog.ts, every writer of the table).     *)
RevocationSettles ==
  [][\A c \in Consents : Settled(c) => Settled(c)']_vars

(* An authorisation code finalises its consent once: concurrent            *)
(* confirmations do not replace tokens that one of them has stored         *)
(* (ValidateAuthorizeResponse reads a copy, the holder consumes the code). *)
FinalisedOnce ==
  [][\A a \in Handlers :
       (SaveTokens(a) /\ h[a].op = "confirm") => ~row[h[a].cid].finalised]_vars

(* The comment in RevokeConsent: "may be called multiple times, so put     *)
(* values only if they don't already exist".  The values are those of the  *)
(* copy, and the save does not look at the row.                            *)
RevokedOnlyOnce ==
  [][\A c \in Consents :
       Revoked(row[c]) => /\ row'[c].revokedOn = row[c].revokedOn
                          /\ row'[c].revokedAt = row[c].revokedAt]_vars

(* The comment on SyncRefreshTokenStatus: consents become revoked at the   *)
(* data holder when their refresh tokens "have expired or unknowingly      *)
(* revoked", so that sharing has ended there too.                          *)
SyncRevokesEndedConsents ==
  [][\A a \in Handlers :
       LET c == h[a].cid IN
         (SaveSync(a) /\ row[c].revokedAt = "none" /\ row'[c].revokedAt = "DataHolder")
           => dh[c].revoked \/ dh[c].refreshExp <= now]_vars

-----------------------------------------------------------------------------
(* A revocation by the data recipient is propagated by the housekeeper in  *)
(* the end, unless the 7 days pass, a stale copy overwrites it or the      *)
(* consumer has withdrawn at the holder meanwhile (PropagateConsents).     *)
AwaitsPropagation(c) ==
  /\ row[c].revokedAt = "DataRecipient"
  /\ ~row[c].propagated
  /\ row[c].refresh # 0
  /\ Revoked(row[c]) /\ now < row[c].revokedOn + PropagationWindow

RevocationsPropagate == \A c \in Consents : AwaitsPropagation(c) ~> ~AwaitsPropagation(c)

(* A handler whose refresh the data holder turns down because the consent  *)
(* was withdrawn finds out: as long as it has an iteration left, the row   *)
(* ends up without a usable refresh token.  The first iteration may trust  *)
(* the cached status, a later one may not (SyncRefreshTokenStatus, get).   *)
DenialIsRecorded ==
  \A a \in Handlers, c \in Consents :
    (/\ At(a, "request")
     /\ h[a].cid = c
     /\ h[a].op \in {"token", "data"}
     /\ h[a].iter < MaxHealing
     /\ dh[c].revoked)
      ~> (~HasCurrentRefreshToken(row[c], now) \/ faults > 0)
=============================================================================
