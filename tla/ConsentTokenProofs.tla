------------------------- MODULE ConsentTokenProofs -------------------------
(***************************************************************************)
(* What the gateway's copies say of tokens, against what the data holder   *)
(* has issued:  no copy promises a token a longer life than it has, and an *)
(* authorisation code brings tokens into its row once.                     *)
(***************************************************************************)
EXTENDS ConsentLineageProofs

USE DEF Actors

-----------------------------------------------------------------------------
(* At time t, the data holder issues tokens of one number at a time, and a *)
(* refresh token with each if the consumer shares for more than once; none *)
(* lives longer than one issued at t.                                      *)
Orderly(d, t) ==
  /\ d.code # "consumed" => d.access = 0
  /\ d.refresh = IF d.sharingEnd # 0 THEN d.access ELSE 0
  /\ d.access = 0 => d.refreshExp = 0
  /\ d.accessExp <= t + AccessTTL
  /\ d.sharingEnd # 0 => /\ d.refreshExp <= d.sharingEnd
                         /\ d.refreshExp <= t + RefreshTTL

(* d1 is d one step later: the tokens of the next issue live as long as    *)
(* those of the last or longer, and whether there are refresh tokens is    *)
(* settled with the first.                                                 *)
Later(d1, d) ==
  /\ d.access <= d1.access
  /\ d.accessExp <= d1.accessExp
  /\ d.access # 0 => /\ d1.sharingEnd = d.sharingEnd
                     /\ d.sharingEnd # 0 => d.refreshExp <= d1.refreshExp

(* A copy speaks of tokens that were issued, and has no expiry that is     *)
(* later than the last one the data holder has set.  Every part of this is *)
(* about one column, so that it holds of a row in which saves have met.    *)
Backed(r, d) ==
  /\ r.access <= d.access
  /\ r.refresh <= d.access
  /\ r.accessExp <= d.accessExp
  /\ r.refresh # 0 => d.sharingEnd # 0
  /\ r.refreshExp # 0 => d.access # 0
  /\ d.sharingEnd # 0 => r.refreshExp <= d.refreshExp

(* So does an answer that is not yet in a copy.                            *)
Promised(l, d) ==
  /\ l.reply.access # 0 /\ l.reply.access <= d.access
  /\ l.reply.refresh = IF d.sharingEnd # 0 THEN l.reply.access ELSE 0
  /\ l.sent + l.reply.expiresIn <= d.accessExp
  /\ d.sharingEnd # 0 => /\ l.reply.refreshExp # 0
                         /\ l.reply.refreshExp <= d.refreshExp

HoldersOrderly == \A c \in Consents : Orderly(dh[c], now)
CopiesBacked == \A c \in Consents : \A r \in CopiesOf(c) : Backed(r, dh[c])
RequestsSent == \A a \in Actors : h[a].pc = "request" => h[a].sent <= now
RepliesPromised == \A a \in Actors : h[a].pc = "load" => Promised(h[a], dh[h[a].cid])

TokenInv == HoldersOrderly /\ CopiesBacked /\ RequestsSent /\ RepliesPromised

-----------------------------------------------------------------------------
(* The holder's operators.                                                 *)

LEMMA RegeneratedFields ==
  ASSUME NEW d \in DhRow, NEW t \in Nat
  PROVE  LET e == Regenerate(d, t) IN
         /\ e.code = "consumed"
         /\ e.access = d.access + 1
         /\ e.accessExp = t + AccessTTL
         /\ e.sharingEnd = d.sharingEnd
         /\ e.refresh = IF d.sharingEnd # 0 THEN d.access + 1 ELSE d.refresh
         /\ d.sharingEnd # 0 =>
              /\ e.refreshExp # 0
              /\ e.refreshExp <= d.sharingEnd /\ e.refreshExp <= t + RefreshTTL
              /\ e.refreshExp \in {d.sharingEnd, t + RefreshTTL}
  <1>1. t + RefreshTTL # 0 /\ t + RefreshTTL \in Nat /\ d.sharingEnd \in Nat
    BY TTLAssumption DEF DhRow
  <1> QED BY <1>1 DEF Regenerate, DhRow

LEMMA HolderChanges ==
  ASSUME NEW d \in DhRow, NEW t \in Nat, Orderly(d, t)
  PROVE  /\ Later(d, d)
         /\ Orderly(Regenerate(d, t), t) /\ Later(Regenerate(d, t), d)
         /\ Orderly(RevokeArrangement(d), t) /\ Later(RevokeArrangement(d), d)
         /\ \A token \in Nat : /\ Orderly(RevokeRefreshToken(d, token), t)
                               /\ Later(RevokeRefreshToken(d, token), d)
         /\ d.code = "none" => \A duration \in Nat :
              Orderly(Grant(d, duration, t), t) /\ Later(Grant(d, duration, t), d)
  <1>0. /\ d.access \in Nat /\ d.accessExp \in Nat
        /\ d.refreshExp \in Nat /\ d.sharingEnd \in Nat
        /\ AccessTTL \in Nat /\ RefreshTTL \in Nat
    BY TTLAssumption DEF DhRow
  <1>1. Later(d, d)
    BY <1>0 DEF Later
  <1>2. Orderly(Regenerate(d, t), t) /\ Later(Regenerate(d, t), d)
    <2> DEFINE e == Regenerate(d, t)
    <2>1. /\ e.code = "consumed"
          /\ e.access = d.access + 1
          /\ e.accessExp = t + AccessTTL
          /\ e.sharingEnd = d.sharingEnd
          /\ e.refresh = IF d.sharingEnd # 0 THEN d.access + 1 ELSE d.refresh
          /\ d.sharingEnd # 0 =>
               /\ e.refreshExp <= d.sharingEnd /\ e.refreshExp <= t + RefreshTTL
               /\ e.refreshExp \in {d.sharingEnd, t + RefreshTTL}
      BY RegeneratedFields
    <2> HIDE DEF e
    <2>2. Orderly(e, t)
      BY <1>0, <2>1 DEF Orderly
    <2>3. Later(e, d)
      BY <1>0, <2>1 DEF Orderly, Later
    <2> QED BY <2>2, <2>3 DEF e
  <1>3. Orderly(RevokeArrangement(d), t) /\ Later(RevokeArrangement(d), d)
    BY <1>0 DEF RevokeArrangement, DhRow, Orderly, Later
  <1>4. ASSUME d.code = "none", NEW duration \in Nat
        PROVE  Orderly(Grant(d, duration, t), t) /\ Later(Grant(d, duration, t), d)
    <2> DEFINE e == Grant(d, duration, t)
               end == IF duration = 0 THEN 0 ELSE t + duration
    <2>0. e = [d EXCEPT !.code = "ready", !.sharingEnd = end]
      BY Zenon DEF Grant
    <2>1. end \in Nat
      OBVIOUS
    <2> HIDE DEF end
    <2>2. /\ e.code = "ready" /\ e.access = d.access /\ e.accessExp = d.accessExp
          /\ e.refresh = d.refresh /\ e.refreshExp = d.refreshExp
          /\ e.sharingEnd = end
      BY <2>0 DEF DhRow
    <2>3. d.access = 0 /\ d.refresh = 0 /\ d.refreshExp = 0
      BY <1>4 DEF Orderly
    <2> HIDE DEF e
    <2>4. Orderly(e, t) /\ Later(e, d)
      BY <1>0, <2>1, <2>2, <2>3 DEF Orderly, Later
    <2> QED BY <2>4 DEF e
  <1> QED BY <1>1, <1>2, <1>3, <1>4 DEF RevokeRefreshToken

(* The clock does not go back. *)
LEMMA TimePasses ==
  ASSUME IInv, [Next]_vars PROVE now <= now'
  <1>1. now \in Nat
    BY DEF IInv, TypeOK
  <1>2. now' \in {now, now + 1}
    BY Zenon DEF Next, Arrive, Work, Failure, RequestConsent, DhGrant, DhWithdraw,
       ConfirmStart, AccessStart, DeleteStart, WithdrawStart, Credentials, Sync,
       SaveSync, Request, Load, SaveTokens, Forward, SaveRevoked, Propagate,
       SaveMarked, Select, TakeRevocation, EndRound, CallFails, AnswerLost, SaveFails,
       ProcessRestart, Tick, vars
  <1> QED BY <1>1, <1>2

LEMMA HoldersGoOn ==
  ASSUME IInv, HoldersOrderly, [Next]_vars
  PROVE  \A c \in Consents : Orderly(dh'[c], now) /\ Later(dh'[c], dh[c])
  <1> DEFINE GoOn == \A c \in Consents : Orderly(dh'[c], now) /\ Later(dh'[c], dh[c])
  <1>0. /\ dh \in [Consents -> DhRow] /\ now \in Nat
        /\ \A c \in Consents : dh[c] \in DhRow /\ Orderly(dh[c], now)
    BY DEF IInv, TypeOK, HoldersOrderly
  <1>1. ASSUME NEW c \in Consents, NEW d, dh' = [dh EXCEPT ![c] = d],
               Orderly(d, now), Later(d, dh[c])
        PROVE  GoOn
    BY <1>0, <1>1, HolderChanges
  <1>2. ASSUME UNCHANGED dh PROVE GoOn
    BY <1>0, <1>2, HolderChanges
  <1>3. ASSUME NEW a \in Actors, h[a].pc # "idle",
               IssueTokens(h[a].cid) \/ TellHolder(h[a].copy, h[a].cid)
        PROVE  GoOn
    <2>1. h[a].cid \in Consents /\ h[a].copy.refresh \in Nat
      BY <1>3, AtWork DEF GoodRow, Row
    <2>2. PICK d : /\ dh' = [dh EXCEPT ![h[a].cid] = d]
                   /\ Orderly(d, now) /\ Later(d, dh[h[a].cid])
      BY <1>0, <1>3, <2>1, HolderChanges DEF IssueTokens, TellHolder
    <2> QED BY <1>1, <2>1, <2>2
  <1>4. ASSUME NEW c \in Consents, RequestConsent(c) \/ DhGrant(c) \/ DhWithdraw(c)
        PROVE  GoOn
    <2>1. CASE RequestConsent(c)
      BY <1>2, <2>1 DEF RequestConsent
    <2>2. CASE DhGrant(c)
      <3>1. PICK duration \in Durations : dh' = [dh EXCEPT ![c] = Grant(@, duration, now)]
        BY <2>2 DEF DhGrant
      <3>2. dh[c].code = "none" /\ duration \in Nat
        BY <2>2, DurationAssumption DEF DhGrant
      <3> QED BY <1>0, <1>1, <3>1, <3>2, HolderChanges
    <2>3. CASE DhWithdraw(c)
      BY <1>0, <1>1, <2>3, HolderChanges DEF DhWithdraw
    <2> QED BY <1>4, <2>1, <2>2, <2>3
  <1>5. ASSUME NEW a \in Actors, Work(a) PROVE GoOn
    <2>1. \/ UNCHANGED dh
          \/ h[a].pc # "idle" /\ IssueTokens(h[a].cid)
          \/ h[a].pc # "idle" /\ TellHolder(h[a].copy, h[a].cid)
      BY <1>5 DEF Work, At, Credentials, Sync, SaveSync, Request, Load, SaveTokens,
                  Forward, SaveRevoked, Propagate, SaveMarked, Select, SavePCs
    <2> QED BY <1>2, <1>3, <2>1
  <1>6. ASSUME NEW a \in Actors, CallFails(a) \/ AnswerLost(a) \/ SaveFails(a)
        PROVE  GoOn
    BY <1>2, <1>3, <1>6 DEF CallFails, AnswerLost, SaveFails, At
  <1>7. ASSUME NEW a \in Handlers, NEW c \in Consents, Arrive(a, c) PROVE GoOn
    BY <1>2, <1>7 DEF Arrive, ConfirmStart, AccessStart, DeleteStart, WithdrawStart
  <1>8. ASSUME \/ \E c \in Consents : TakeRevocation(c)
               \/ EndRound \/ ProcessRestart \/ Tick \/ UNCHANGED vars
        PROVE  GoOn
    BY <1>2, <1>8 DEF TakeRevocation, EndRound, ProcessRestart, Tick, vars
  <1> QED BY <1>4, <1>5, <1>6, <1>7, <1>8 DEF Next, Failure
-----------------------------------------------------------------------------
(* The copies.                                                             *)

LEMMA BackedLater ==
  ASSUME NEW r \in Row, NEW d \in DhRow, NEW d1 \in DhRow,
         Backed(r, d), Later(d1, d)
  PROVE  Backed(r, d1)
  <1>1. /\ r.access \in Nat /\ r.refresh \in Nat
        /\ r.accessExp \in Nat /\ r.refreshExp \in Nat
        /\ d.access \in Nat /\ d1.access \in Nat
        /\ d.accessExp \in Nat /\ d1.accessExp \in Nat
        /\ d.refreshExp \in Nat /\ d1.refreshExp \in Nat
    BY DEF Row, DhRow
  <1>2. CASE d.access = 0
    BY <1>1, <1>2 DEF Backed, Later
  <1>3. CASE d.access # 0
    BY <1>1, <1>3 DEF Backed, Later
  <1> QED BY <1>2, <1>3

LEMMA PromisedLater ==
  ASSUME NEW l \in Local, NEW d \in DhRow, NEW d1 \in DhRow,
         Promised(l, d), Later(d1, d)
  PROVE  Promised(l, d1)
  <1>1. /\ l.reply.access \in Nat /\ d.access \in Nat /\ d1.access \in Nat
        /\ d.accessExp \in Nat /\ d1.accessExp \in Nat
        /\ d.refreshExp \in Nat /\ d1.refreshExp \in Nat
        /\ l.reply.refreshExp \in Nat
        /\ l.sent + l.reply.expiresIn \in Nat
    BY DEF Local, Reply, DhRow
  <1>2. d1.sharingEnd = d.sharingEnd /\ l.reply.access <= d1.access
    BY <1>1 DEF Promised, Later
  <1> QED BY <1>1, <1>2 DEF Promised, Later

(* The assignments of the manager. *)
LEMMA BackedUpdate ==
  ASSUME NEW r \in Row, NEW d \in DhRow, NEW l \in Local, NEW t \in Nat,
         Backed(r, d), Promised(l, d)
  PROVE  Backed(UpdateTokens(r, l.reply, l.sent, t), d)
  <1> DEFINE s == UpdateTokens(r, l.reply, l.sent, t)
  <1>1. /\ s.access = l.reply.access
        /\ s.accessExp = l.sent + l.reply.expiresIn
        /\ s.refresh = IF l.reply.refresh # 0 THEN l.reply.refresh ELSE r.refresh
        /\ s.refreshExp = RefreshTokenExpiry(l.reply, t)
    BY DEF UpdateTokens, Row
  <1>2. /\ l.reply.refreshExp \in Nat /\ l.reply.sharingEnd \in Nat
        /\ l.reply.access \in Nat /\ d.access \in Nat /\ d.refreshExp \in Nat
        /\ r.refresh \in Nat
    BY DEF Local, Reply, Row, DhRow
  <1>3. l.reply.refreshExp # 0 => RefreshTokenExpiry(l.reply, t) <= l.reply.refreshExp
    BY <1>2 DEF RefreshTokenExpiry
  <1>4. RefreshTokenExpiry(l.reply, t) \in Nat
    BY <1>2, DefaultTTLAssumption DEF RefreshTokenExpiry
  <1> HIDE DEF s
  <1>5. ASSUME d.sharingEnd # 0 PROVE Backed(s, d)
    <2>1. s.refresh = l.reply.access
      BY <1>1, <1>5 DEF Promised
    <2>2. s.refreshExp <= d.refreshExp
      BY <1>1, <1>2, <1>3, <1>4, <1>5, <2>1 DEF Promised
    <2>3. d.access # 0
      BY <1>2 DEF Promised
    <2> QED BY <1>1, <1>5, <2>1, <2>2, <2>3 DEF Backed, Promised
  <1>6. ASSUME d.sharingEnd = 0 PROVE Backed(s, d)
    <2>1. s.refresh = 0
      BY <1>1, <1>6 DEF Backed, Promised
    <2>2. d.access # 0
      BY <1>2 DEF Promised
    <2> QED BY <1>1, <1>2, <1>6, <2>1, <2>2 DEF Backed, Promised
  <1> QED BY <1>5, <1>6 DEF s

LEMMA BackedDescends ==
  ASSUME IInv, RepliesPromised, NEW c \in Consents, NEW r \in Row, NEW r1,
         Descends(r1, r, c), Backed(r, dh[c])
  PROVE  Backed(r1, dh[c])
  <1>0. dh[c] \in DhRow /\ now \in Nat
    BY DEF IInv, TypeOK
  <1>1. CASE r1 = r
    BY <1>1
  <1>2. ASSUME NEW place \in {"DataHolder", "DataRecipient"},
               r1 = RevokeConsent(r, place, now)
        PROVE  Backed(r1, dh[c])
    <2>1. /\ r1.access = r.access /\ r1.accessExp = r.accessExp
          /\ r1.refresh = r.refresh /\ r1.refreshExp = r.refreshExp
      BY <1>2 DEF RevokeConsent, Row
    <2> QED BY <2>1 DEF Backed
  <1>3. ASSUME NEW a \in Actors, h[a].pc = "load", h[a].cid = c,
               r1 = UpdateTokens(r, h[a].reply, h[a].sent, now)
        PROVE  Backed(r1, dh[c])
    <2>1. h[a] \in Local /\ Promised(h[a], dh[c])
      BY <1>3 DEF RepliesPromised, IInv, TypeOK
    <2> QED BY <1>0, <1>3, <2>1, BackedUpdate
  <1>4. CASE r1 = MarkRevoked(r)
    <2>1. /\ r1.access = r.access /\ r1.accessExp = r.accessExp
          /\ r1.refresh = r.refresh /\ r1.refreshExp = r.refreshExp
      BY <1>4 DEF MarkRevoked, Row
    <2> QED BY <2>1 DEF Backed
  <1> QED BY <1>1, <1>2, <1>3, <1>4 DEF Descends

LEMMA CopiesStayBacked ==
  ASSUME IInv, TokenInv, [Next]_vars
  PROVE  CopiesBacked'
  <1> SUFFICES ASSUME NEW c \in Consents, NEW r1 \in CopiesOf(c)'
               PROVE  Backed(r1, dh'[c])
    BY DEF CopiesBacked
  <1>1. dh[c] \in DhRow /\ dh'[c] \in DhRow /\ Later(dh'[c], dh[c])
    BY HoldersGoOn, OthersKeepTypes DEF TokenInv, IInv, TypeOK, OthersTyped
  <1>2. \A r \in Heritage(c) : r \in Row /\ Backed(r, dh[c])
    <2>1. \A r \in CopiesOf(c) : r \in Row /\ Backed(r, dh[c])
      BY CopiesAreRows DEF TokenInv, CopiesBacked
    <2>2. \A r \in {NoRow, PendingRow} : r \in Row /\ Backed(r, dh[c])
      <3>1. NoRow \in Row /\ PendingRow \in Row
        BY DEF Row, Places, NoRow, PendingRow
      <3>2. dh[c].access \in Nat
        BY <1>1 DEF DhRow
      <3>3. \A r \in {NoRow, PendingRow} : /\ r.access = 0 /\ r.refresh = 0
                                          /\ r.accessExp = 0 /\ r.refreshExp = 0
        BY DEF NoRow, PendingRow
      <3>4. dh[c].accessExp \in Nat /\ dh[c].refreshExp \in Nat
        BY <1>1 DEF DhRow
      <3> QED BY <3>1, <3>2, <3>3, <3>4 DEF Backed
    <2> QED BY <2>1, <2>2 DEF Heritage
  <1>3. ASSUME NEW r \in Heritage(c), Descends(r1, r, c) PROVE Backed(r1, dh[c])
    BY <1>2, <1>3, BackedDescends DEF TokenInv
  <1>6. ASSUME Blend(r1, c) PROVE Backed(r1, dh[c])
    <2>1. PICK copy \in CopiesOf(c) :
            /\ r1.access \in {copy.access, row[c].access}
            /\ r1.accessExp \in {copy.accessExp, row[c].accessExp}
            /\ r1.refresh \in {copy.refresh, row[c].refresh}
            /\ r1.refreshExp \in {copy.refreshExp, row[c].refreshExp}
      BY <1>6, BlendColumns
    <2>2. Backed(copy, dh[c]) /\ Backed(row[c], dh[c])
      BY RowsCopy DEF TokenInv, CopiesBacked
    <2> QED BY <2>1, <2>2 DEF Backed
  <1>4. Backed(r1, dh[c])
    BY <1>3, <1>6, StepLineage DEF Lineage, Ancestor
  <1>5. r1 \in Row
    <2>1. IInv'
      BY NextIInv
    <2> QED BY <2>1 DEF IInv, CopiesOf, RowsGood, ActorsGood, Good, GoodRow
  <1> QED BY <1>1, <1>4, <1>5, BackedLater

-----------------------------------------------------------------------------
(* The requests and their replies.                                         *)

Granted(a) ==
  /\ h[a].pc = "request"
  /\ TokenGranted(a)
  /\ IssueTokens(h[a].cid)
  /\ Set(a, [h[a] EXCEPT !.pc = "load",
               !.reply = TokenReply(Regenerate(dh[h[a].cid], now))])
  /\ UNCHANGED now

Waits(l) == l.pc \in {"request", "load", "save", "update"}

(* An actor comes to wait for an answer, for its row or in its save in     *)
(* one of these ways only.                                                 *)
Turns(a) ==
  \/ h'[a] = h[a]
  \/ ~Waits(h'[a])
  \/ h'[a].pc = "request" /\ h'[a].sent = now
  \/ Granted(a)
  \/ Load(a) /\ h'[a].pc = "save"
  \/ Select(a) /\ h'[a].pc = "update"

LEMMA TurnsByOne ==
  ASSUME IInv, NEW a \in Actors, NEW l, Set(a, l),
         \/ ~Waits(l)
         \/ l.pc = "request" /\ l.sent = now
         \/ Granted(a)
         \/ Load(a) /\ l.pc = "save"
         \/ Select(a) /\ l.pc = "update"
  PROVE  \A b \in Actors : Turns(b)
  <1>1. \A b \in Actors : h'[b] = IF b = a THEN l ELSE h[b]
    BY DEF IInv, TypeOK, Set
  <1> QED BY <1>1 DEF Turns

LEMMA TurnsByRetry ==
  ASSUME IInv, NEW a \in Actors, NEW l, Retry(a, l) \/ Finish(a)
  PROVE  \A b \in Actors : Turns(b)
  <1>1. ~Waits(NextIteration(l)) /\ ~Waits(Idle)
    BY DEF NextIteration, Idle, Restart, Waits
  <1> QED BY <1>1, TurnsByOne DEF Retry, Finish

LEMMA ActorsTurn ==
  ASSUME IInv, [Next]_vars
  PROVE  \A b \in Actors : Turns(b)
  <1> DEFINE Turn == \A b \in Actors : Turns(b)
  <1>1. ASSUME UNCHANGED h PROVE Turn
    BY <1>1 DEF Turns
  <1>2. ASSUME NEW a \in Actors, NEW op, NEW pc, NEW c, NEW copy,
               Start(a, op, pc, c, copy), pc \notin {"request", "load", "save", "update"}
        PROVE  Turn
    <2> DEFINE l == [Idle EXCEPT !.pc = pc, !.op = op, !.cid = c, !.copy = copy]
    <2>1. Set(a, l) /\ ~Waits(l)
      BY <1>2 DEF Start, Idle, Waits
    <2> HIDE DEF l
    <2> QED BY <2>1, TurnsByOne
  <1>3. ASSUME NEW a \in Handlers, NEW c \in Consents, Arrive(a, c) PROVE Turn
    BY <1>2, <1>3 DEF Arrive, ConfirmStart, AccessStart, DeleteStart, WithdrawStart
  <1>4. ASSUME NEW c \in Consents, TakeRevocation(c) PROVE Turn
    BY <1>1, <1>2, <1>4 DEF TakeRevocation
  <1>5. ASSUME NEW a \in Actors, Work(a) PROVE Turn
    <2>0. h[a].pc # "idle"
      BY <1>5 DEF Work, At, Credentials, Sync, SaveSync, Request, Load, SaveTokens,
             Forward, SaveRevoked, Propagate, SaveMarked, Select, SavePCs
    <2>1. h[a] \in Local
      BY <2>0, AtWork
    <2>2. SendRequest(a, h[a]) => Turn
      <3> DEFINE l == [h[a] EXCEPT !.pc = "request", !.sent = now, !.columns = {}]
      <3>1. l.pc = "request" /\ l.sent = now
        BY <2>1 DEF Local
      <3> HIDE DEF l
      <3>2. SendRequest(a, h[a]) => Set(a, l)
        BY DEF SendRequest, l
      <3> QED BY <3>1, <3>2, TurnsByOne
    <2>3. \A r : Obtained(a, r) => Turn
      <3> SUFFICES ASSUME NEW r, Obtained(a, r) PROVE Turn
        OBVIOUS
      <3> DEFINE l == [Idle EXCEPT !.cid = h[a].cid, !.op = "data",
                !.pc = IF h[a].op = "token" THEN "credentials" ELSE "forward",
                !.copy = IF h[a].op = "token" THEN r ELSE h[a].copy,
                !.work = IF h[a].op = "token" THEN NoRow ELSE r,
                !.iter = IF h[a].op = "token" THEN 0 ELSE h[a].iter]
      <3>1. Set(a, l)
        BY Zenon DEF Obtained
      <3>2. ~Waits(l)
        BY DEF Idle, Waits
      <3> HIDE DEF l
      <3> QED BY <3>1, <3>2, TurnsByOne
    <2>4. \A pc : pc \notin {"request", "load", "save", "update"} /\ Set(a, [h[a] EXCEPT !.pc = pc]) => Turn
      <3> SUFFICES ASSUME NEW pc, pc \notin {"request", "load", "save", "update"},
                          Set(a, [h[a] EXCEPT !.pc = pc])
                   PROVE  Turn
        OBVIOUS
      <3> DEFINE l == [h[a] EXCEPT !.pc = pc]
      <3>1. ~Waits(l) /\ Set(a, l)
        BY <2>1 DEF Local, Waits
      <3> HIDE DEF l
      <3> QED BY <3>1, TurnsByOne
    <2>5. \A pc, s : pc \notin {"request", "load", "save", "update"}
                       /\ Set(a, [h[a] EXCEPT !.pc = pc, !.copy = s]) => Turn
      <3> SUFFICES ASSUME NEW pc, NEW s, pc \notin {"request", "load", "save", "update"},
                          Set(a, [h[a] EXCEPT !.pc = pc, !.copy = s])
                   PROVE  Turn
        OBVIOUS
      <3> DEFINE l == [h[a] EXCEPT !.pc = pc, !.copy = s]
      <3>1. ~Waits(l) /\ Set(a, l)
        BY <2>1 DEF Local, Waits
      <3> HIDE DEF l
      <3> QED BY <3>1, TurnsByOne
    <2>6. CASE Credentials(a)
      BY <2>3, <2>4, <2>6, TurnsByRetry DEF Credentials
    <2>7. CASE Sync(a)
      <3> DEFINE s == RevokeConsent(h[a].copy, "DataHolder", now)
      <3>1. \/ SendRequest(a, h[a])
            \/ Set(a, [h[a] EXCEPT !.pc = "saveSync", !.copy = s])
        BY <2>7, Zenon DEF Sync
      <3> HIDE DEF s
      <3>2. "saveSync" \notin {"request", "load", "save", "update"}
        OBVIOUS
      <3> QED BY <2>2, <2>5, <3>1, <3>2, Zenon
    <2>8. CASE SaveSync(a)
      BY <2>2, <2>8 DEF SaveSync
    <2>9. CASE Request(a)
      <3> DEFINE l == [h[a] EXCEPT !.pc = "load",
                         !.reply = TokenReply(Regenerate(dh[h[a].cid], now))]
      <3>1. (Set(a, l) /\ Granted(a)) \/ Retry(a, h[a])
        BY <2>9, Zenon DEF Request, Granted, At
      <3> HIDE DEF l
      <3> QED BY <3>1, TurnsByOne, TurnsByRetry
    <2>10. CASE Load(a)
      <3> DEFINE w == UpdateTokens(row[h[a].cid], h[a].reply, h[a].sent, now)
                 l == [h[a] EXCEPT !.pc = "save", !.reply = NoReply, !.sent = 0,
                                   !.work = w]
      <3>1. Set(a, l)
        BY <2>10, Zenon DEF Load
      <3> HIDE DEF w
      <3>2. l.pc = "save"
        BY <2>1 DEF Local
      <3> HIDE DEF l
      <3> QED BY <2>10, <3>1, <3>2, TurnsByOne
    <2>11. CASE SaveTokens(a)
      BY <2>3, <2>11, TurnsByRetry DEF SaveTokens
    <2>12. CASE Forward(a)
      BY <2>12, TurnsByRetry DEF Forward
    <2>13. CASE SaveRevoked(a)
      <3> DEFINE l == [h[a] EXCEPT !.pc = "propagate", !.columns = {}]
      <3>1. ~Waits(l)
        BY <2>1 DEF Local, Waits
      <3>2. Set(a, l) \/ Finish(a)
        BY <2>13, Zenon DEF SaveRevoked
      <3> HIDE DEF l
      <3> QED BY <3>1, <3>2, TurnsByOne, TurnsByRetry
    <2>14. CASE Propagate(a)
      <3> DEFINE s == MarkRevoked(h[a].copy)
      <3>1. \/ Set(a, [h[a] EXCEPT !.pc = "saveMarked", !.copy = s])
            \/ Finish(a)
        BY <2>14, Zenon DEF Propagate
      <3> HIDE DEF s
      <3>2. "saveMarked" \notin {"request", "load", "save", "update"}
        OBVIOUS
      <3> QED BY <2>5, <3>1, <3>2, TurnsByRetry, Zenon
    <2>15. CASE SaveMarked(a)
      BY <2>15, TurnsByRetry DEF SaveMarked
    <2>16. CASE Select(a)
      <3> DEFINE different == Differing(row[h[a].cid], Saved(h[a]))
                 l == [h[a] EXCEPT !.pc = AfterSelect(@), !.columns = different]
      <3>1. Set(a, l) /\ h[a].pc \in SavePCs
        BY <2>16, Zenon DEF Select
      <3> HIDE DEF different
      <3>2. l.pc = AfterSelect(h[a].pc)
        BY <2>1 DEF Local
      <3> HIDE DEF l
      <3>3. ~Waits(l) \/ l.pc = "update"
        BY <3>1, <3>2 DEF SavePCs, AfterSelect, Waits
      <3> QED BY <2>16, <3>1, <3>3, TurnsByOne
    <2> QED BY <1>5, <2>6, <2>7, <2>8, <2>9, <2>10, <2>11, <2>12, <2>13, <2>14,
               <2>15, <2>16 DEF Work
  <1>6. ASSUME NEW a \in Actors, CallFails(a) \/ AnswerLost(a) \/ SaveFails(a)
        PROVE  Turn
    BY <1>6, TurnsByRetry DEF CallFails, AnswerLost, SaveFails
  <1>7. ASSUME ProcessRestart PROVE Turn
    <2>1. \A b \in Actors : h'[b] = Idle
      BY <1>7 DEF ProcessRestart
    <2> QED BY <2>1 DEF Turns, Waits, Idle
  <1>8. ASSUME \/ \E c \in Consents : RequestConsent(c) \/ DhGrant(c) \/ DhWithdraw(c)
               \/ EndRound \/ Tick \/ UNCHANGED vars
        PROVE  Turn
    BY <1>1, <1>8 DEF RequestConsent, DhGrant, DhWithdraw, EndRound, Tick, vars
  <1> QED BY <1>3, <1>4, <1>5, <1>6, <1>7, <1>8 DEF Next, Failure

(* An answer says what the data holder says at the time. *)
LEMMA PromisedByGrant ==
  ASSUME IInv, TokenInv, NEW a \in Actors, Granted(a)
  PROVE  h'[a].pc = "load" /\ Promised(h'[a], dh'[h'[a].cid])
  <1> DEFINE c == h[a].cid
             e == Regenerate(dh[c], now)
             reply == TokenReply(e)
             l == [h[a] EXCEPT !.pc = "load", !.reply = reply]
  <1>1. /\ c \in Consents /\ h[a] \in Local /\ now \in Nat
        /\ dh \in [Consents -> DhRow] /\ h \in [Actors -> Local]
        /\ dh[c] \in DhRow
    <2>1. h[a].pc # "idle"
      BY DEF Granted
    <2> QED BY <2>1, AtWork DEF IInv, TypeOK
  <1>2. /\ e.access = dh[c].access + 1
        /\ e.accessExp = now + AccessTTL
        /\ e.sharingEnd = dh[c].sharingEnd
        /\ e.refresh = IF dh[c].sharingEnd # 0 THEN dh[c].access + 1
                                                ELSE dh[c].refresh
        /\ dh[c].sharingEnd # 0 => e.refreshExp # 0
    BY <1>1, RegeneratedFields
  <1>3. e \in DhRow /\ dh'[c] = e
    BY <1>1, DhTypes DEF Granted, IssueTokens
  <1>4. h'[a] = l
    BY <1>1, Zenon DEF Granted, Set
  <1> HIDE DEF e
  <1>5. /\ reply.access = e.access /\ reply.expiresIn = AccessTTL
        /\ reply.refresh = e.refresh /\ reply.refreshExp = e.refreshExp
    BY DEF TokenReply
  <1> HIDE DEF reply
  <1>6. l.pc = "load" /\ l.cid = c /\ l.reply = reply /\ l.sent = h[a].sent
    BY <1>1 DEF Local
  <1> HIDE DEF l
  <1>7. h[a].sent <= now /\ h[a].sent \in Nat
    BY <1>1 DEF TokenInv, RequestsSent, Granted, Local
  <1>8. dh[c].sharingEnd = 0 => dh[c].refresh = 0
    BY <1>1 DEF TokenInv, HoldersOrderly, Orderly
  <1>9. dh[c].access \in Nat /\ e.refreshExp \in Nat
    BY <1>1, <1>3 DEF DhRow
  <1>10. /\ reply.access # 0 /\ reply.access <= e.access
         /\ reply.refresh = IF e.sharingEnd # 0 THEN reply.access ELSE 0
         /\ e.sharingEnd # 0 => reply.refreshExp # 0
         /\ e.sharingEnd # 0 => reply.refreshExp <= e.refreshExp
    BY <1>2, <1>5, <1>8, <1>9
  <1>11. h[a].sent + reply.expiresIn <= e.accessExp
    BY <1>1, <1>2, <1>5, <1>7, TTLAssumption
  <1> QED BY <1>3, <1>4, <1>6, <1>10, <1>11 DEF Promised

LEMMA RepliesStayPromised ==
  ASSUME IInv, TokenInv, [Next]_vars
  PROVE  RequestsSent' /\ RepliesPromised'
  <1> SUFFICES ASSUME NEW a \in Actors
               PROVE  /\ h'[a].pc = "request" => h'[a].sent <= now'
                      /\ h'[a].pc = "load" => Promised(h'[a], dh'[h'[a].cid])
    BY DEF RequestsSent, RepliesPromised
  <1>1. /\ now \in Nat /\ now' \in Nat /\ now <= now' /\ h[a] \in Local
    BY TimePasses, OthersKeepTypes DEF IInv, TypeOK, OthersTyped
  <1>2. CASE h'[a] = h[a]
    <2>1. ASSUME h[a].pc = "load" PROVE Promised(h[a], dh'[h[a].cid])
      <3>1. h[a].cid \in Consents
        BY <2>1, AtWork
      <3>2. /\ dh[h[a].cid] \in DhRow /\ dh'[h[a].cid] \in DhRow
            /\ Later(dh'[h[a].cid], dh[h[a].cid])
        BY <3>1, HoldersGoOn, OthersKeepTypes
           DEF TokenInv, IInv, TypeOK, OthersTyped
      <3> QED BY <1>1, <2>1, <3>2, PromisedLater DEF TokenInv, RepliesPromised
    <2>2. h[a].sent \in Nat
      BY <1>1 DEF Local
    <2> QED BY <1>1, <1>2, <2>1, <2>2 DEF TokenInv, RequestsSent
  <1>3. CASE ~Waits(h'[a])
    BY <1>3 DEF Waits
  <1>4. CASE h'[a].pc = "request" /\ h'[a].sent = now
    BY <1>1, <1>4
  <1>5. CASE Granted(a)
    BY <1>5, PromisedByGrant
  <1>6. CASE h'[a].pc \in {"save", "update"}
    BY <1>6
  <1> QED BY <1>2, <1>3, <1>4, <1>5, <1>6, ActorsTurn DEF Turns

-----------------------------------------------------------------------------
LEMMA InitTokenInv == Init => TokenInv
  <1> SUFFICES ASSUME Init PROVE TokenInv
    OBVIOUS
  <1>1. HoldersOrderly
    BY TTLAssumption DEF Init, HoldersOrderly, Orderly, NoDhRow
  <1>2. CopiesBacked
    <2>1. \A c \in Consents : CopiesOf(c) = {NoRow}
      BY GoodIdle DEF Init, CopiesOf
    <2>2. Backed(NoRow, NoDhRow)
      BY DEF Backed, NoRow, NoDhRow
    <2> QED BY <2>1, <2>2 DEF Init, CopiesBacked
  <1>3. RequestsSent /\ RepliesPromised
    BY DEF Init, RequestsSent, RepliesPromised, Idle
  <1> QED BY <1>1, <1>2, <1>3 DEF TokenInv

LEMMA NextTokenInv == IInv /\ TokenInv /\ [Next]_vars => TokenInv'
  <1> SUFFICES ASSUME IInv, TokenInv, [Next]_vars PROVE TokenInv'
    OBVIOUS
  <1>1. HoldersOrderly'
    <2> SUFFICES ASSUME NEW c \in Consents PROVE Orderly(dh'[c], now')
      BY DEF HoldersOrderly
    <2>1. Orderly(dh'[c], now)
      BY HoldersGoOn DEF TokenInv
    <2>2. now \in Nat /\ now' \in Nat /\ now <= now' /\ dh'[c] \in DhRow
      BY TimePasses, OthersKeepTypes DEF IInv, TypeOK, OthersTyped
    <2>3. /\ dh'[c].accessExp \in Nat /\ dh'[c].refreshExp \in Nat
          /\ AccessTTL \in Nat /\ RefreshTTL \in Nat
      BY <2>2, TTLAssumption DEF DhRow
    <2> QED BY <2>1, <2>2, <2>3 DEF Orderly
  <1> QED BY <1>1, CopiesStayBacked, RepliesStayPromised DEF TokenInv

(* No copy believes a token to live longer than the data holder does,      *)
(* whatever is lost, repeated or saved from a stale copy, and however long *)
(* an answer takes (tokenRequestTime, refreshTokenExpiry).                 *)
THEOREM ExpiryIsBacked == Spec => []ExpiryNotOverestimated
  <1>1. TokenInv => ExpiryNotOverestimated
    <2> SUFFICES ASSUME TokenInv, NEW c \in Consents
                 PROVE  /\ row[c].access # 0 /\ row[c].access = dh[c].access =>
                             row[c].accessExp <= dh[c].accessExp
                        /\ row[c].refresh # 0 /\ row[c].refresh = dh[c].refresh =>
                             row[c].refreshExp <= dh[c].refreshExp
      BY DEF ExpiryNotOverestimated
    <2>1. Backed(row[c], dh[c]) /\ Orderly(dh[c], now)
      BY RowsCopy DEF TokenInv, CopiesBacked, HoldersOrderly
    <2> QED BY <2>1 DEF Backed, Orderly
  <1> QED BY <1>1, InitTokenInv, NextTokenInv, Invariance, PTL DEF Spec

-----------------------------------------------------------------------------
(* One exchange of a code.  Before it, nobody has a copy with tokens; and  *)
(* while its tokens are on the way to the row, nobody else can get any.    *)

Bare(l) == /\ ~l.copy.finalised /\ ~l.work.finalised
           /\ l.pc \notin {"load", "save", "update", "forward"}

BareFor(a, c) == h[a].cid = c => Bare(h[a])

UnusedCodes ==
  \A c \in Consents :
    dh[c].code # "consumed" =>
      ~row[c].finalised /\ \A a \in Actors : BareFor(a, c)

Confirms(a) == h[a].op = "confirm" /\ h[a].pc \in {"load", "save", "update"}

ConfirmsAlone ==
  \A a \in Actors : Confirms(a) =>
    LET c == h[a].cid IN
    /\ dh[c].code = "consumed"
    /\ ~row[c].finalised
    /\ \A b \in Actors \ {a} : BareFor(b, c)

OnceInv == UnusedCodes /\ ConfirmsAlone

-----------------------------------------------------------------------------
(* Only the first exchange of a code finds it ready. *)
FirstExchange(a) ==
  /\ Granted(a)
  /\ h[a].op = "confirm"
  /\ dh[h[a].cid].code = "ready"

(* What an actor at work can change. *)
Moves(a) ==
  /\ \A b \in Actors \ {a} : h'[b] = h[b]
  /\ h'[a].cid \in {0, h[a].cid}
  /\ \A c \in Consents \ {h[a].cid} : row'[c] = row[c]

(* What it does on a consent that has no tokens. *)
StaysBare(a) ==
  Bare(h[a]) /\ ~row[h[a].cid].finalised =>
    /\ ~row'[h[a].cid].finalised
    /\ Bare(h'[a]) \/ FirstExchange(a)

(* A row or copy without tokens does not pass for one that has them. *)
LEMMA BareIsNotCurrent ==
  ASSUME NEW r, ~r.finalised
  PROVE  /\ ~IsCurrent(r, now)
         /\ ~HasCurrentAccessToken(r, now) /\ ~HasCurrentRefreshToken(r, now)
  BY DEF IsCurrent, HasCurrentAccessToken, HasCurrentRefreshToken

LEMMA BareHasNoToken ==
  ASSUME IInv, NEW a \in Actors, h[a].pc # "idle", Bare(h[a])
  PROVE  h[a].copy.refresh = 0
  BY AtWork DEF GoodRow, Bare

LEMMA RowHasNoToken ==
  ASSUME IInv, NEW c \in Consents, ~row[c].finalised
  PROVE  row[c].refresh = 0
  BY DEF IInv, RowsGood, GoodRow

LEMMA MovesByOne ==
  ASSUME IInv, NEW a \in Actors, NEW l, Set(a, l), l.cid \in {0, h[a].cid},
         h[a].cid \in Consents,
         UNCHANGED row \/ Update(a)
  PROVE  Moves(a) /\ h'[a] = l
  <1>1. h \in [Actors -> Local] /\ row \in [Consents -> Row]
    BY DEF IInv, TypeOK
  <1> QED BY <1>1 DEF Moves, Set, Update

(* The general case: l keeps the copies of h[a], or has none. *)
LEMMA BareByOne ==
  ASSUME IInv, NEW a \in Actors, NEW l, Set(a, l), h[a].cid \in Consents,
         l.cid \in {0, h[a].cid},
         UNCHANGED row \/ Update(a),
         Bare(h[a]) => Bare(l)
  PROVE  Moves(a) /\ StaysBare(a)
  <1>1. Moves(a) /\ h'[a] = l
    BY MovesByOne
  <1>2. row'[h[a].cid].finalised \in {row[h[a].cid].finalised, Saved(h[a]).finalised}
    BY DEF IInv, TypeOK, Update, Updated
  <1>3. Saved(h[a]).finalised \in {h[a].copy.finalised, h[a].work.finalised}
    BY DEF Saved
  <1> QED BY <1>1, <1>2, <1>3 DEF StaysBare, Bare

LEMMA BareIdle == Bare(Idle) /\ Idle.cid = 0
  BY DEF Bare, Idle, NoRow

LEMMA BareByRetry ==
  ASSUME IInv, NEW a \in Actors, NEW l, Retry(a, l), h[a].cid \in Consents,
         l.cid = h[a].cid, l.copy = h[a].copy,
         UNCHANGED row \/ Update(a)
  PROVE  Moves(a) /\ StaysBare(a)
  <1> DEFINE n == NextIteration(l)
  <1>1. \/ n = Idle
        \/ /\ n.cid = l.cid /\ n.copy = l.copy /\ n.work = NoRow
           /\ n.pc = Restart(l.op)
    BY DEF NextIteration, Idle
  <1>2. Restart(l.op) \notin {"load", "save", "update", "forward"}
    BY DEF Restart
  <1>3. Bare(h[a]) => Bare(n)
    BY <1>1, <1>2, BareIdle DEF Bare, NoRow
  <1>4. n.cid \in {0, h[a].cid}
    BY <1>1, BareIdle
  <1>5. Set(a, n)
    BY DEF Retry
  <1> HIDE DEF n
  <1> QED BY <1>3, <1>4, <1>5, BareByOne

LEMMA BareByFinish ==
  ASSUME IInv, NEW a \in Actors, Finish(a), h[a].cid \in Consents,
         UNCHANGED row \/ Update(a)
  PROVE  Moves(a) /\ StaysBare(a)
  BY BareIdle, BareByOne DEF Finish

(* A step of an actor that keeps its copies. *)
LEMMA BareByPlace ==
  ASSUME IInv, NEW a \in Actors, NEW l, Set(a, l), h[a].cid \in Consents,
         l.cid = h[a].cid, l.copy = h[a].copy, l.work = h[a].work,
         l.pc \notin {"load", "save", "update", "forward"},
         UNCHANGED row \/ Update(a)
  PROVE  Moves(a) /\ StaysBare(a)
  BY BareByOne DEF Bare

(* A step that an actor without tokens cannot take. *)
LEMMA MovesWithTokens ==
  ASSUME IInv, NEW a \in Actors, ~Bare(h[a]), Moves(a)
  PROVE  Moves(a) /\ StaysBare(a)
  BY DEF StaysBare

LEMMA MovesByObtained ==
  ASSUME IInv, NEW a \in Actors, NEW r, Obtained(a, r), h[a].cid \in Consents,
         UNCHANGED row \/ Update(a)
  PROVE  Moves(a)
  <1> DEFINE l == [Idle EXCEPT !.cid = h[a].cid, !.op = "data",
            !.pc = IF h[a].op = "token" THEN "credentials" ELSE "forward",
            !.copy = IF h[a].op = "token" THEN r ELSE h[a].copy,
            !.work = IF h[a].op = "token" THEN NoRow ELSE r,
            !.iter = IF h[a].op = "token" THEN 0 ELSE h[a].iter]
  <1>1. Set(a, l)
    BY Zenon DEF Obtained
  <1>2. l.cid = h[a].cid
    BY DEF Idle
  <1> HIDE DEF l
  <1> QED BY <1>1, <1>2, MovesByOne

LEMMA SendStaysBare ==
  ASSUME IInv, NEW a \in Actors, h[a].pc # "idle", SendRequest(a, h[a]),
         UNCHANGED row \/ Update(a)
  PROVE  Moves(a) /\ StaysBare(a)
  <1> DEFINE l == [h[a] EXCEPT !.pc = "request", !.sent = now, !.columns = {}]
  <1>1. h[a] \in Local /\ h[a].cid \in Consents
    BY AtWork
  <1>2. /\ l.pc = "request" /\ l.cid = h[a].cid
        /\ l.copy = h[a].copy /\ l.work = h[a].work
    BY <1>1 DEF Local
  <1>3. Set(a, l)
    BY DEF SendRequest
  <1> HIDE DEF l
  <1> QED BY <1>1, <1>2, <1>3, BareByPlace

LEMMA WorkStaysBare ==
  ASSUME IInv, NEW a \in Actors, Work(a)
  PROVE  Moves(a) /\ StaysBare(a)
  <1>0. h[a].pc # "idle"
    BY DEF Work, At, Credentials, Sync, SaveSync, Request, Load, SaveTokens,
           Forward, SaveRevoked, Propagate, SaveMarked, Select, SavePCs
  <1>1. h[a] \in Local /\ h[a].cid \in Consents
    BY <1>0, AtWork
  <1>2. Bare(h[a]) => /\ h[a].copy.refresh = 0
                      /\ ~HasCurrentAccessToken(h[a].copy, now)
                      /\ ~HasCurrentRefreshToken(h[a].copy, now)
    BY <1>0, BareHasNoToken, BareIsNotCurrent DEF Bare
  <1>3. CASE Credentials(a)
    <2>1. CASE Finish(a)
      BY <1>1, <1>3, <2>1, BareByFinish DEF Credentials
    <2>2. CASE ~Bare(h[a]) /\ Obtained(a, h[a].copy)
      BY <1>1, <1>3, <2>2, MovesByObtained, MovesWithTokens DEF Credentials
    <2>3. CASE ~Bare(h[a]) /\ Set(a, [h[a] EXCEPT !.pc = "sync"])
      <3> DEFINE l == [h[a] EXCEPT !.pc = "sync"]
      <3>1. l.cid = h[a].cid
        BY <1>1 DEF Local
      <3>2. Set(a, l) /\ UNCHANGED row
        BY <1>3, <2>3 DEF Credentials
      <3> HIDE DEF l
      <3> QED BY <1>1, <2>3, <3>1, <3>2, MovesByOne, MovesWithTokens
    <2> QED BY <1>2, <1>3, <2>1, <2>2, <2>3 DEF Credentials
  <1>4. CASE Sync(a)
    <2> DEFINE s == RevokeConsent(h[a].copy, "DataHolder", now)
               l == [h[a] EXCEPT !.pc = "saveSync", !.copy = s]
    <2>1. UNCHANGED row /\ (SendRequest(a, h[a]) \/ (h[a].copy.refresh # 0 /\ Set(a, l)))
      BY <1>4, Zenon DEF Sync
    <2> HIDE DEF s
    <2>2. l.cid = h[a].cid
      BY <1>1 DEF Local
    <2> HIDE DEF l
    <2>3. CASE h[a].copy.refresh # 0 /\ Set(a, l)
      BY <1>1, <1>2, <2>1, <2>2, <2>3, MovesByOne, MovesWithTokens
    <2> QED BY <1>0, <2>1, <2>3, SendStaysBare
  <1>5. CASE SaveSync(a)
    BY <1>0, <1>5, SendStaysBare DEF SaveSync
  <1>6. CASE Request(a)
    <2> DEFINE reply == TokenReply(Regenerate(dh[h[a].cid], now))
               l == [h[a] EXCEPT !.pc = "load", !.reply = reply]
    <2>1. UNCHANGED row /\ ((Set(a, l) /\ Granted(a)) \/ Retry(a, h[a]))
      BY <1>6, Zenon DEF Request, Granted, At
    <2> HIDE DEF reply
    <2>2. l.cid = h[a].cid
      BY <1>1 DEF Local
    <2> HIDE DEF l
    <2>3. CASE Set(a, l) /\ Granted(a)
      <3>1. Moves(a)
        BY <1>1, <2>1, <2>2, <2>3, MovesByOne
      <3>2. Bare(h[a]) => FirstExchange(a)
        BY <1>2, <2>3 DEF Granted, FirstExchange, TokenGranted, CodeAccepted,
                          TokenActive
      <3> QED BY <2>1, <3>1, <3>2 DEF StaysBare
    <2> QED BY <1>1, <2>1, <2>3, BareByRetry
  <1>7. CASE Load(a)
    <2> DEFINE w == UpdateTokens(row[h[a].cid], h[a].reply, h[a].sent, now)
               l == [h[a] EXCEPT !.pc = "save", !.reply = NoReply, !.sent = 0,
                                 !.work = w]
    <2>1. Set(a, l) /\ UNCHANGED row /\ h[a].pc = "load"
      BY <1>7, Zenon DEF Load, At
    <2> HIDE DEF w
    <2>2. l.cid = h[a].cid
      BY <1>1 DEF Local
    <2> HIDE DEF l
    <2>3. ~Bare(h[a])
      BY <2>1 DEF Bare
    <2> QED BY <1>1, <2>1, <2>2, <2>3, MovesByOne, MovesWithTokens
  <1>8. CASE SaveTokens(a)
    <2>1. ~Bare(h[a]) /\ Update(a)
      BY <1>8 DEF SaveTokens, At, Bare
    <2>2. Finish(a) => Moves(a)
      BY <1>1, <2>1, BareIdle, MovesByOne DEF Finish
    <2>3. Retry(a, h[a]) => Moves(a)
      <3>1. NextIteration(h[a]).cid \in {0, h[a].cid}
        BY DEF NextIteration, Idle
      <3> QED BY <1>1, <2>1, <3>1, MovesByOne DEF Retry
    <2>4. Obtained(a, h[a].work) => Moves(a)
      BY <1>1, <2>1, MovesByObtained
    <2> QED BY <1>8, <2>1, <2>2, <2>3, <2>4, MovesWithTokens DEF SaveTokens
  <1>9. CASE Forward(a)
    BY <1>1, <1>9, BareByFinish, BareByRetry DEF Forward
  <1>10. CASE SaveRevoked(a)
    <2> DEFINE l == [h[a] EXCEPT !.pc = "propagate", !.columns = {}]
    <2>1. /\ l.pc = "propagate" /\ l.cid = h[a].cid
          /\ l.copy = h[a].copy /\ l.work = h[a].work
      BY <1>1 DEF Local
    <2>2. Update(a) /\ (Set(a, l) \/ Finish(a))
      BY <1>10, Zenon DEF SaveRevoked
    <2> HIDE DEF l
    <2> QED BY <1>1, <2>1, <2>2, BareByPlace, BareByFinish
  <1>11. CASE Propagate(a)
    <2> DEFINE s == MarkRevoked(h[a].copy)
               l == [h[a] EXCEPT !.pc = "saveMarked", !.copy = s]
    <2>1. UNCHANGED row /\ ((h[a].copy.refresh # 0 /\ Set(a, l)) \/ Finish(a))
      BY <1>11, Zenon DEF Propagate
    <2> HIDE DEF s
    <2>2. l.cid = h[a].cid
      BY <1>1 DEF Local
    <2> HIDE DEF l
    <2>3. CASE h[a].copy.refresh # 0 /\ Set(a, l)
      BY <1>1, <1>2, <2>1, <2>2, <2>3, MovesByOne, MovesWithTokens
    <2> QED BY <1>1, <2>1, <2>3, BareByFinish
  <1>12. CASE SaveMarked(a)
    BY <1>1, <1>12, BareByFinish DEF SaveMarked
  <1>13. CASE Select(a)
    <2> DEFINE different == Differing(row[h[a].cid], Saved(h[a]))
               l == [h[a] EXCEPT !.pc = AfterSelect(@), !.columns = different]
    <2>1. Set(a, l) /\ UNCHANGED row /\ h[a].pc \in SavePCs
      BY <1>13, Zenon DEF Select
    <2> HIDE DEF different
    <2>2. /\ l.pc = AfterSelect(h[a].pc) /\ l.cid = h[a].cid
          /\ l.copy = h[a].copy /\ l.work = h[a].work
      BY <1>1 DEF Local
    <2> HIDE DEF l
    <2>3. Bare(h[a]) => Bare(l)
      BY <2>1, <2>2 DEF Bare, SavePCs, AfterSelect
    <2> QED BY <1>1, <2>1, <2>2, <2>3, BareByOne
  <1> QED BY <1>3, <1>4, <1>5, <1>6, <1>7, <1>8, <1>9, <1>10, <1>11, <1>12, <1>13
          DEF Work

LEMMA FailureStaysBare ==
  ASSUME IInv, NEW a \in Actors, CallFails(a) \/ AnswerLost(a) \/ SaveFails(a)
  PROVE  Moves(a) /\ StaysBare(a)
  <1>1. h[a].pc # "idle" /\ UNCHANGED row
    BY DEF CallFails, AnswerLost, SaveFails, At
  <1>2. h[a] \in Local /\ h[a].cid \in Consents
    BY <1>1, AtWork
  <1>3. CASE CallFails(a)
    <2>1. PICK i : Retry(a, [h[a] EXCEPT !.iter = i])
      BY <1>3 DEF CallFails
    <2> DEFINE l == [h[a] EXCEPT !.iter = i]
    <2>2. l.cid = h[a].cid /\ l.copy = h[a].copy
      BY <1>2 DEF Local
    <2>3. Retry(a, l)
      BY <2>1
    <2> HIDE DEF l
    <2> QED BY <1>1, <1>2, <2>2, <2>3, BareByRetry
  <1>4. CASE AnswerLost(a)
    BY <1>1, <1>2, <1>4, BareByRetry DEF AnswerLost
  <1>5. CASE SaveFails(a)
    BY <1>1, <1>2, <1>5, BareByRetry, BareByFinish DEF SaveFails
  <1> QED BY <1>3, <1>4, <1>5

-----------------------------------------------------------------------------
(* What is left: the requests that begin, and everything else.             *)

Begins(a) ==
  /\ \A b \in Actors \ {a} : h'[b] = h[b]
  /\ UNCHANGED row
  /\ ~row[h'[a].cid].finalised => Bare(h'[a])

Rests ==
  /\ \A a \in Actors : h'[a] \in {h[a], Idle}
  /\ \A c \in Consents : row'[c].finalised => row[c].finalised

LEMMA StartBegins ==
  ASSUME IInv, NEW a \in Actors, NEW op, NEW pc, NEW c, NEW copy,
         Start(a, op, pc, c, copy), UNCHANGED row,
         pc \notin {"load", "save", "update", "forward"},
         ~row[c].finalised => ~copy.finalised
  PROVE  Begins(a)
  <1> DEFINE l == [Idle EXCEPT !.pc = pc, !.op = op, !.cid = c, !.copy = copy]
  <1>1. l.pc = pc /\ l.cid = c /\ l.copy = copy /\ l.work = NoRow
    BY DEF Idle
  <1>2. Set(a, l)
    BY DEF Start
  <1> HIDE DEF l
  <1>3. \A b \in Actors : h'[b] = IF b = a THEN l ELSE h[b]
    BY <1>2 DEF IInv, TypeOK, Set
  <1> QED BY <1>1, <1>3 DEF Begins, Bare, NoRow

LEMMA ArriveBegins ==
  ASSUME IInv, NEW a \in Handlers, NEW c \in Consents, Arrive(a, c)
  PROVE  Begins(a)
  <1>1. UNCHANGED row
    BY DEF Arrive, ConfirmStart, AccessStart, DeleteStart, WithdrawStart
  <1>2. ~row[c].finalised => /\ ~IsCurrent(row[c], now)
                             /\ row[c].refresh = 0
    BY BareIsNotCurrent, RowHasNoToken
  <1>3. \A place : RevokeConsent(row[c], place, now).finalised = row[c].finalised
    BY DEF RevokeConsent, IInv, TypeOK, Row
  <1>4. CASE ConfirmStart(a, c)
    BY <1>1, <1>4, StartBegins DEF ConfirmStart
  <1>5. CASE AccessStart(a, c)
    BY <1>1, <1>5, StartBegins DEF AccessStart
  <1>6. CASE DeleteStart(a, c)
    BY <1>1, <1>3, <1>6, StartBegins DEF DeleteStart
  <1>7. CASE WithdrawStart(a, c)
    BY <1>1, <1>3, <1>7, StartBegins DEF WithdrawStart
  <1> QED BY <1>4, <1>5, <1>6, <1>7 DEF Arrive

LEMMA StepMoves ==
  ASSUME IInv, [Next]_vars
  PROVE  \/ \E a \in Actors : /\ Work(a) \/ UNCHANGED row
                             /\ Moves(a) /\ StaysBare(a)
         \/ \E a \in Actors : Begins(a)
         \/ Rests
  <1>1. ASSUME UNCHANGED <<row, h>> PROVE Rests
    BY <1>1 DEF Rests
  <1>2. ASSUME NEW c \in Consents, RequestConsent(c) \/ DhGrant(c) \/ DhWithdraw(c)
        PROVE  Rests
    <2>1. CASE RequestConsent(c)
      <3>1. /\ UNCHANGED h
            /\ row' = [row EXCEPT ![c] = PendingRow]
        BY <2>1 DEF RequestConsent
      <3>2. row \in [Consents -> Row] /\ ~PendingRow.finalised
        BY DEF IInv, TypeOK, PendingRow, NoRow
      <3> QED BY <3>1, <3>2 DEF Rests
    <2> QED BY <1>1, <1>2, <2>1 DEF DhGrant, DhWithdraw
  <1>3. ASSUME NEW c \in Consents, TakeRevocation(c)
        PROVE  Rests \/ Begins(Housekeeper)
    <2>1. \/ UNCHANGED h
          \/ Start(Housekeeper, "propagate", "propagate", c, row[c])
      BY <1>3 DEF TakeRevocation
    <2>2. UNCHANGED row
      BY <1>3 DEF TakeRevocation
    <2> QED BY <1>1, <2>1, <2>2, StartBegins
  <1>4. ASSUME ProcessRestart PROVE Rests
    BY <1>4 DEF ProcessRestart, Rests
  <1>5. ASSUME EndRound \/ Tick \/ UNCHANGED vars PROVE Rests
    BY <1>1, <1>5 DEF EndRound, Tick, vars
  <1>6. ASSUME Failure
        PROVE  \E a \in Actors : UNCHANGED row /\ Moves(a) /\ StaysBare(a)
    <2>1. PICK a \in Actors : CallFails(a) \/ AnswerLost(a) \/ SaveFails(a)
      BY <1>6 DEF Failure
    <2>2. UNCHANGED row
      BY <2>1 DEF CallFails, AnswerLost, SaveFails
    <2> QED BY <2>1, <2>2, FailureStaysBare
  <1> QED BY <1>2, <1>3, <1>4, <1>5, <1>6, ArriveBegins, WorkStaysBare DEF Next

(* An actor without tokens of a consent that has none gets them by the     *)
(* first exchange only.                                                    *)
LEMMA ActorStaysBare ==
  ASSUME IInv, [Next]_vars, NEW c \in Consents, NEW b \in Actors,
         ~row[c].finalised, BareFor(b, c)
  PROVE  BareFor(b, c)' \/ (FirstExchange(b) /\ h[b].cid = c)
  <1>1. c # 0
    BY GoodIdle
  <1>2. CASE \E a \in Actors : Moves(a) /\ StaysBare(a)
    BY <1>1, <1>2 DEF Moves, StaysBare, BareFor, Bare
  <1>3. CASE \E a \in Actors : Begins(a)
    BY <1>3 DEF Begins, BareFor, Bare
  <1>4. CASE Rests
    BY <1>1, <1>4, BareIdle DEF Rests, BareFor, Bare
  <1> QED BY <1>2, <1>3, <1>4, StepMoves

(* A row gets its tokens from an actor that has them, at work on them.     *)
LEMMA RowStaysBare ==
  ASSUME IInv, [Next]_vars, NEW c \in Consents,
         ~row[c].finalised, row'[c].finalised
  PROVE  \E a \in Actors : Work(a) /\ h[a].cid = c /\ ~Bare(h[a])
  <1>1. CASE \E a \in Actors : (Work(a) \/ UNCHANGED row) /\ Moves(a) /\ StaysBare(a)
    BY <1>1 DEF Moves, StaysBare
  <1>2. CASE \E a \in Actors : Begins(a)
    BY <1>2 DEF Begins
  <1>3. CASE Rests
    BY <1>3 DEF Rests
  <1> QED BY <1>1, <1>2, <1>3, StepMoves

LEMMA SaveEndsConfirmation ==
  ASSUME IInv, NEW a \in Actors, SaveTokens(a)
  PROVE  h'[a].pc # "update"
  <1>1. h \in [Actors -> Local]
    BY DEF IInv, TypeOK
  <1>2. Finish(a) => h'[a].pc # "update"
    BY <1>1 DEF Finish, Set, Idle
  <1>3. Retry(a, h[a]) => h'[a].pc # "update"
    <2>1. NextIteration(h[a]).pc # "update"
      BY DEF NextIteration, Idle, Restart
    <2> QED BY <1>1, <2>1 DEF Retry, Set
  <1>4. Obtained(a, h[a].work) => h'[a].pc # "update"
    <2> DEFINE l == [Idle EXCEPT !.cid = h[a].cid, !.op = "data",
              !.pc = IF h[a].op = "token" THEN "credentials" ELSE "forward",
              !.copy = IF h[a].op = "token" THEN h[a].work ELSE h[a].copy,
              !.work = IF h[a].op = "token" THEN NoRow ELSE h[a].work,
              !.iter = IF h[a].op = "token" THEN 0 ELSE h[a].iter]
    <2>1. l.pc # "update"
      BY DEF Idle
    <2>2. Obtained(a, h[a].work) => Set(a, l)
      BY Zenon DEF Obtained
    <2> HIDE DEF l
    <2> QED BY <1>1, <2>1, <2>2 DEF Set
  <1> QED BY <1>2, <1>3, <1>4 DEF SaveTokens

(* A code that has been used stays used. *)
LEMMA CodesStayUsed ==
  ASSUME IInv, [Next]_vars, NEW c \in Consents, dh[c].code = "consumed"
  PROVE  dh'[c].code = "consumed"
  <1> DEFINE Used == dh'[c].code = "consumed"
  <1>0. /\ dh \in [Consents -> DhRow] /\ now \in Nat
    BY DEF IInv, TypeOK
  <1>1. ASSUME NEW d \in Consents, NEW x, dh' = [dh EXCEPT ![d] = x],
               d = c => x.code = "consumed"
        PROVE  Used
    BY <1>0, <1>1
  <1>2. ASSUME UNCHANGED dh PROVE Used
    BY <1>2
  <1>3. /\ Regenerate(dh[c], now).code = "consumed"
        /\ RevokeArrangement(dh[c]).code = "consumed"
        /\ \A token : RevokeRefreshToken(dh[c], token).code = "consumed"
    BY <1>0, RegeneratedFields DEF RevokeArrangement, RevokeRefreshToken, DhRow
  <1>4. ASSUME NEW a \in Actors, h[a].pc # "idle",
               IssueTokens(h[a].cid) \/ TellHolder(h[a].copy, h[a].cid)
        PROVE  Used
    <2>1. h[a].cid \in Consents
      BY <1>4, AtWork
    <2> QED BY <1>1, <1>3, <1>4, <2>1 DEF IssueTokens, TellHolder
  <1>5. ASSUME NEW d \in Consents, RequestConsent(d) \/ DhGrant(d) \/ DhWithdraw(d)
        PROVE  Used
    <2>1. CASE DhGrant(d)
      <3>1. d # c
        BY <2>1 DEF DhGrant
      <3>2. PICK x : dh' = [dh EXCEPT ![d] = x]
        BY <2>1 DEF DhGrant
      <3> QED BY <1>1, <3>1, <3>2
    <2>2. CASE DhWithdraw(d)
      BY <1>1, <1>3, <2>2 DEF DhWithdraw
    <2> QED BY <1>2, <1>5, <2>1, <2>2 DEF RequestConsent
  <1>6. ASSUME NEW a \in Actors, Work(a) PROVE Used
    <2>1. \/ UNCHANGED dh
          \/ h[a].pc # "idle" /\ IssueTokens(h[a].cid)
          \/ h[a].pc # "idle" /\ TellHolder(h[a].copy, h[a].cid)
      BY <1>6 DEF Work, At, Credentials, Sync, SaveSync, Request, Load, SaveTokens,
                  Forward, SaveRevoked, Propagate, SaveMarked, Select, SavePCs
    <2> QED BY <1>2, <1>4, <2>1
  <1>7. ASSUME NEW a \in Actors, CallFails(a) \/ AnswerLost(a) \/ SaveFails(a)
        PROVE  Used
    BY <1>2, <1>4, <1>7 DEF CallFails, AnswerLost, SaveFails, At
  <1>8. ASSUME \/ \E a \in Handlers, d \in Consents : Arrive(a, d)
               \/ \E d \in Consents : TakeRevocation(d)
               \/ EndRound \/ ProcessRestart \/ Tick \/ UNCHANGED vars
        PROVE  Used
    BY <1>2, <1>8 DEF Arrive, ConfirmStart, AccessStart, DeleteStart, WithdrawStart,
                      TakeRevocation, EndRound, ProcessRestart, Tick, vars
  <1> QED BY <1>5, <1>6, <1>7, <1>8 DEF Next, Failure

LEMMA GrantUsesCode ==
  ASSUME IInv, NEW a \in Actors, Granted(a)
  PROVE  /\ h[a].cid \in Consents
         /\ dh'[h[a].cid].code = "consumed"
         /\ h'[a].op = h[a].op /\ h'[a].cid = h[a].cid
         /\ \A b \in Actors \ {a} : h'[b] = h[b]
  <1>1. /\ h[a].cid \in Consents /\ h[a] \in Local /\ now \in Nat
        /\ dh \in [Consents -> DhRow] /\ h \in [Actors -> Local]
    BY AtWork DEF Granted, IInv, TypeOK
  <1>2. dh'[h[a].cid].code = "consumed"
    BY <1>1, RegeneratedFields DEF Granted, IssueTokens
  <1> DEFINE reply == TokenReply(Regenerate(dh[h[a].cid], now))
             l == [h[a] EXCEPT !.pc = "load", !.reply = reply]
  <1>3. Set(a, l)
    BY Zenon DEF Granted
  <1> HIDE DEF reply
  <1>4. l.op = h[a].op /\ l.cid = h[a].cid
    BY <1>1 DEF Local
  <1> HIDE DEF l
  <1> QED BY <1>1, <1>2, <1>3, <1>4 DEF Set

LEMMA LoadKeepsPurpose ==
  ASSUME IInv, NEW a \in Actors, Load(a)
  PROVE  /\ h[a].pc = "load" /\ UNCHANGED row
         /\ h'[a].op = h[a].op /\ h'[a].cid = h[a].cid
         /\ \A b \in Actors \ {a} : h'[b] = h[b]
  <1>1. h \in [Actors -> Local] /\ h[a] \in Local
    BY DEF IInv, TypeOK
  <1> DEFINE w == UpdateTokens(row[h[a].cid], h[a].reply, h[a].sent, now)
             l == [h[a] EXCEPT !.pc = "save", !.reply = NoReply, !.sent = 0,
                               !.work = w]
  <1>2. Set(a, l) /\ UNCHANGED row /\ h[a].pc = "load"
    BY Zenon DEF Load, At
  <1> HIDE DEF w
  <1>3. l.op = h[a].op /\ l.cid = h[a].cid
    BY <1>1 DEF Local
  <1> HIDE DEF l
  <1> QED BY <1>1, <1>2, <1>3 DEF Set

LEMMA SelectKeepsPurpose ==
  ASSUME IInv, NEW a \in Actors, Select(a)
  PROVE  /\ UNCHANGED row
         /\ h'[a].op = h[a].op /\ h'[a].cid = h[a].cid
         /\ h'[a].pc = "update" => h[a].pc = "save"
         /\ \A b \in Actors \ {a} : h'[b] = h[b]
  <1>1. h \in [Actors -> Local] /\ h[a] \in Local
    BY DEF IInv, TypeOK
  <1> DEFINE different == Differing(row[h[a].cid], Saved(h[a]))
             l == [h[a] EXCEPT !.pc = AfterSelect(@), !.columns = different]
  <1>2. Set(a, l) /\ UNCHANGED row /\ h[a].pc \in SavePCs
    BY Zenon DEF Select
  <1> HIDE DEF different
  <1>3. l.op = h[a].op /\ l.cid = h[a].cid /\ l.pc = AfterSelect(h[a].pc)
    BY <1>1 DEF Local
  <1> HIDE DEF l
  <1>4. l.pc = "update" => h[a].pc = "save"
    BY <1>2, <1>3 DEF SavePCs, AfterSelect
  <1> QED BY <1>1, <1>2, <1>3, <1>4 DEF Set

-----------------------------------------------------------------------------
LEMMA InitOnceInv == Init => OnceInv
  <1> SUFFICES ASSUME Init PROVE OnceInv
    OBVIOUS
  <1>1. \A a \in Actors : h[a] = Idle
    BY DEF Init
  <1>2. UnusedCodes
    BY <1>1, BareIdle DEF Init, UnusedCodes, BareFor, NoRow
  <1>3. ConfirmsAlone
    BY <1>1 DEF ConfirmsAlone, Confirms, Idle
  <1> QED BY <1>2, <1>3 DEF OnceInv

LEMMA UnusedCodesStay ==
  ASSUME IInv, OnceInv, [Next]_vars
  PROVE  UnusedCodes'
  <1> SUFFICES ASSUME NEW c \in Consents, dh'[c].code # "consumed"
               PROVE  ~row'[c].finalised /\ \A a \in Actors : BareFor(a, c)'
    BY DEF UnusedCodes, BareFor
  <1>1. ~row[c].finalised /\ \A a \in Actors : BareFor(a, c)
    BY CodesStayUsed DEF OnceInv, UnusedCodes
  <1>2. ~row'[c].finalised
    BY <1>1, RowStaysBare DEF BareFor
  <1>3. ASSUME NEW a \in Actors PROVE BareFor(a, c)'
    <2>1. ~(FirstExchange(a) /\ h[a].cid = c)
      BY GrantUsesCode DEF FirstExchange
    <2> QED BY <1>1, <2>1, ActorStaysBare
  <1> QED BY <1>2, <1>3

LEMMA ConfirmsStayAlone ==
  ASSUME IInv, OnceInv, [Next]_vars
  PROVE  ConfirmsAlone'
  <1> SUFFICES ASSUME NEW a \in Actors, Confirms(a)',
                      NEW c, c = h'[a].cid
               PROVE  /\ dh'[c].code = "consumed"
                      /\ ~row'[c].finalised
                      /\ \A b \in Actors \ {a} : BareFor(b, c)'
    BY DEF ConfirmsAlone, BareFor
  <1>0. h'[a].op = "confirm" /\ h'[a].pc \in {"load", "save", "update"}
    BY DEF Confirms
  <1>1. CASE h'[a] = h[a]
    <2>1. /\ dh[c].code = "consumed" /\ ~row[c].finalised
          /\ \A b \in Actors \ {a} : BareFor(b, c)
      BY <1>0, <1>1 DEF OnceInv, ConfirmsAlone, Confirms
    <2>2. c \in Consents
      BY <1>0, <1>1, AtWork
    <2>3. dh'[c].code = "consumed"
      BY <2>1, <2>2, CodesStayUsed
    <2>4. ~row'[c].finalised
      <3> SUFFICES ASSUME row'[c].finalised PROVE FALSE
        OBVIOUS
      <3>1. PICK b \in Actors : Work(b) /\ h[b].cid = c /\ ~Bare(h[b])
        BY <2>1, <2>2, RowStaysBare
      <3>2. b = a
        BY <2>1, <3>1 DEF BareFor
      <3>3. Load(a) \/ Select(a) \/ SaveTokens(a)
        BY <1>0, <1>1, <3>1, <3>2
           DEF Work, At, Credentials, Sync, SaveSync, Request, Forward,
               SaveRevoked, Propagate, SaveMarked
      <3>4. ~Load(a) /\ ~Select(a)
        BY <2>1, LoadKeepsPurpose, SelectKeepsPurpose
      <3>5. ~SaveTokens(a)
        BY <1>1, SaveEndsConfirmation DEF SaveTokens, At
      <3> QED BY <3>3, <3>4, <3>5
    <2>5. ASSUME NEW b \in Actors \ {a} PROVE BareFor(b, c)'
      <3>1. ~(FirstExchange(b) /\ h[b].cid = c)
        BY <2>1 DEF FirstExchange
      <3> QED BY <2>1, <2>2, <3>1, ActorStaysBare
    <2> QED BY <2>3, <2>4, <2>5
  <1>2. CASE Granted(a)
    <2>1. /\ c \in Consents /\ dh'[c].code = "consumed"
          /\ h[a].op = "confirm" /\ h[a].cid = c
          /\ \A b \in Actors \ {a} : h'[b] = h[b]
      BY <1>0, <1>2, GrantUsesCode
    <2>2. dh[c].code = "ready"
      BY <1>2, <2>1 DEF Granted, TokenGranted, CodeAccepted
    <2>3. ~row[c].finalised /\ \A b \in Actors : BareFor(b, c)
      BY <2>1, <2>2 DEF OnceInv, UnusedCodes
    <2>4. ~row'[c].finalised
      BY <2>1, <2>3, RowStaysBare DEF BareFor
    <2> QED BY <2>1, <2>3, <2>4 DEF BareFor, Bare
  <1>3. CASE Load(a) \/ (Select(a) /\ h'[a].pc = "update")
    <2>1. /\ h[a].pc \in {"load", "save"} /\ UNCHANGED row
          /\ h[a].op = "confirm" /\ h[a].cid = c
          /\ \A b \in Actors \ {a} : h'[b] = h[b]
      BY <1>0, <1>3, LoadKeepsPurpose, SelectKeepsPurpose
    <2>2. /\ dh[c].code = "consumed" /\ ~row[c].finalised
          /\ \A b \in Actors \ {a} : BareFor(b, c)
      BY <2>1 DEF OnceInv, ConfirmsAlone, Confirms
    <2>3. c \in Consents
      BY <2>1, AtWork
    <2> QED BY <2>1, <2>2, <2>3, CodesStayUsed DEF BareFor, Bare
  <1>4. ~(h'[a].pc = "request") /\ Waits(h'[a])
    BY <1>0 DEF Waits
  <1> QED BY <1>1, <1>2, <1>3, <1>4, ActorsTurn DEF Turns

LEMMA NextOnceInv == IInv /\ OnceInv /\ [Next]_vars => OnceInv'
  BY UnusedCodesStay, ConfirmsStayAlone DEF OnceInv

(* However many confirmations of a consent are under way, in whichever     *)
(* processes, and whatever fails: only the first save of tokens that an    *)
(* authorisation code has brought finds the row without tokens, and no     *)
(* other such save follows (ValidateAuthorizeResponse, FetchTokens).       *)
THEOREM CodeFinalisesOnce == Spec => FinalisedOnce
  <1>1. ASSUME IInv, OnceInv, NEW a \in Handlers, SaveTokens(a), h[a].op = "confirm"
        PROVE  ~row[h[a].cid].finalised
    BY <1>1 DEF OnceInv, ConfirmsAlone, Confirms, SaveTokens, At
  <1>2. IInv /\ OnceInv /\ [Next]_vars =>
          [\A a \in Handlers :
             (SaveTokens(a) /\ h[a].op = "confirm") => ~row[h[a].cid].finalised]_vars
    BY <1>1
  <1> QED BY <1>2, InitOnceInv, NextOnceInv, Invariance,
             PTL DEF Spec, FinalisedOnce
=============================================================================
