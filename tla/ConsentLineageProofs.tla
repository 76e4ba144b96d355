------------------------ MODULE ConsentLineageProofs ------------------------
(***************************************************************************)
(* Where the copies of a row come from, and what follows for revocations:  *)
(* every row and every copy of it under way is a copy that was there one   *)
(* step before, or one assignment of the manager away from it, or what an  *)
(* UPDATE has made of a row and a copy.                                    *)
(***************************************************************************)
EXTENDS ConsentLogProofs

USE DEF Actors

(* r1 comes from r in a step that works on consent c. *)
Descends(r1, r, c) ==
  \/ r1 = r
  \/ \E place \in {"DataHolder", "DataRecipient"} :
       r1 = RevokeConsent(r, place, now)
  \/ \E a \in Actors :
       /\ h[a].pc = "load" /\ h[a].cid = c
       /\ r1 = UpdateTokens(r, h[a].reply, h[a].sent, now)
  \/ /\ r1 = MarkRevoked(r)
     /\ r.refresh # 0
     /\ UseArrangementEndpoint /\ r.finalised => dh'[c].revoked

(* r1 is what an UPDATE makes of the row of c. *)
Blend(r1, c) ==
  \E a \in Actors :
    /\ h[a].pc \in UpdatePCs /\ h[a].cid = c
    /\ r1 = Updated(row[c], Saved(h[a]), h[a].columns)

(* A new row may only be logged where there is none. *)
Heritage(c) ==
  CopiesOf(c) \cup {NoRow} \cup {r \in {PendingRow} : ~row[c].logged}

Ancestor(r1, c) == Blend(r1, c) \/ \E r \in Heritage(c) : Descends(r1, r, c)

Lineage ==
  \A c \in Consents : \A r1 \in CopiesOf(c)' : Ancestor(r1, c)

-----------------------------------------------------------------------------
LEMMA OldCopy ==
  ASSUME NEW c, NEW r \in CopiesOf(c) \cup {NoRow} PROVE Ancestor(r, c)
  BY DEF Ancestor, Heritage, Descends

LEMMA ActorsCopies ==
  ASSUME NEW a \in Actors
  PROVE  h[a].copy \in CopiesOf(h[a].cid) /\ h[a].work \in CopiesOf(h[a].cid)
  BY DEF CopiesOf

LEMMA RowsCopy == ASSUME NEW c PROVE row[c] \in CopiesOf(c)
  BY DEF CopiesOf

(* It is enough to look at the row and at the actor that moves. *)
LEMMA LineageOfActor ==
  ASSUME IInv, NEW a \in Actors, NEW l, Set(a, l),
         l.cid \in Consents => Ancestor(l.copy, l.cid) /\ Ancestor(l.work, l.cid),
         \A c \in Consents : Ancestor(row'[c], c)
  PROVE  Lineage
  <1> SUFFICES ASSUME NEW c \in Consents, NEW r1 \in CopiesOf(c)'
               PROVE  Ancestor(r1, c)
    BY DEF Lineage
  <1>1. \A b \in Actors : h'[b] = IF b = a THEN l ELSE h[b]
    BY DEF IInv, TypeOK, Set
  <1>2. \/ r1 = row'[c]
        \/ \E b \in Actors : h'[b].cid = c /\ r1 \in {h'[b].copy, h'[b].work}
    BY DEF CopiesOf
  <1>3. CASE r1 = row'[c]
    BY <1>3
  <1>4. ASSUME NEW b \in Actors, h'[b].cid = c, r1 \in {h'[b].copy, h'[b].work}
        PROVE  Ancestor(r1, c)
    <2>1. CASE b = a
      BY <1>1, <1>4, <2>1
    <2>2. CASE b # a
      <3>1. r1 \in CopiesOf(c)
        BY <1>1, <1>4, <2>2, ActorsCopies
      <3> QED BY <3>1, OldCopy
    <2> QED BY <2>1, <2>2
  <1> QED BY <1>2, <1>3, <1>4

LEMMA LineageUnchanged ==
  ASSUME IInv, UNCHANGED h, \A c \in Consents : Ancestor(row'[c], c)
  PROVE  Lineage
  <1> SUFFICES ASSUME NEW c \in Consents, NEW r1 \in CopiesOf(c)'
               PROVE  Ancestor(r1, c)
    BY DEF Lineage
  <1>1. r1 = row'[c] \/ r1 \in CopiesOf(c)
    BY DEF CopiesOf
  <1> QED BY <1>1, OldCopy

LEMMA RowsAncestors ==
  ASSUME IInv, UNCHANGED row PROVE \A c \in Consents : Ancestor(row'[c], c)
  BY RowsCopy, OldCopy

LEMMA SavedAncestors ==
  ASSUME IInv, NEW c \in Consents, NEW r, Ancestor(r, c), row' = [row EXCEPT ![c] = r]
  PROVE  \A d \in Consents : Ancestor(row'[d], d)
  <1>1. \A d \in Consents : row'[d] = IF d = c THEN r ELSE row[d]
    BY DEF IInv, TypeOK
  <1> QED BY <1>1, RowsCopy, OldCopy

LEMMA UpdatedAncestors ==
  ASSUME IInv, NEW a \in Actors, h[a].cid \in Consents, h[a].pc \in UpdatePCs, Update(a)
  PROVE  \A d \in Consents : Ancestor(row'[d], d)
  <1> DEFINE c == h[a].cid
             result == Updated(row[c], Saved(h[a]), h[a].columns)
  <1>1. Ancestor(result, c)
    BY DEF Ancestor, Blend
  <1>2. row' = [row EXCEPT ![c] = result]
    BY DEF Update
  <1> HIDE DEF result
  <1> QED BY <1>1, <1>2, SavedAncestors

LEMMA LineageOfRetry ==
  ASSUME IInv, NEW a \in Actors, NEW l, Retry(a, l), Ancestor(l.copy, l.cid),
         \A c \in Consents : Ancestor(row'[c], c)
  PROVE  Lineage
  <1> DEFINE n == NextIteration(l)
  <1>1. Set(a, n)
    BY DEF Retry
  <1>2. \/ n = Idle
        \/ n.cid = l.cid /\ n.copy = l.copy /\ n.work = NoRow
    BY DEF NextIteration, Idle
  <1>3. n.cid \in Consents => Ancestor(n.copy, n.cid) /\ Ancestor(n.work, n.cid)
    BY <1>2, OldCopy, GoodIdle
  <1> HIDE DEF n
  <1> QED BY <1>1, <1>3, LineageOfActor

LEMMA LineageOfFinish ==
  ASSUME IInv, NEW a \in Actors, Finish(a), \A c \in Consents : Ancestor(row'[c], c)
  PROVE  Lineage
  BY GoodIdle, LineageOfActor DEF Finish

LEMMA LineageOfStart ==
  ASSUME IInv, NEW a \in Actors, NEW c \in Consents, NEW op, NEW pc, NEW copy,
         Start(a, op, pc, c, copy), UNCHANGED row, Ancestor(copy, c)
  PROVE  Lineage
  <1> DEFINE l == [Idle EXCEPT !.pc = pc, !.op = op, !.cid = c, !.copy = copy]
  <1>1. Set(a, l) /\ l.cid = c /\ l.copy = copy /\ l.work = NoRow
    BY DEF Start, Idle
  <1> HIDE DEF l
  <1> QED BY <1>1, RowsAncestors, OldCopy, LineageOfActor

LEMMA LineageOfObtained ==
  ASSUME IInv, NEW a \in Actors, h[a].cid \in Consents,
         NEW r \in {h[a].copy, h[a].work}, Obtained(a, r),
         \A c \in Consents : Ancestor(row'[c], c)
  PROVE  Lineage
  <1> DEFINE l == [Idle EXCEPT !.cid = h[a].cid, !.op = "data",
            !.pc = IF h[a].op = "token" THEN "credentials" ELSE "forward",
            !.copy = IF h[a].op = "token" THEN r ELSE h[a].copy,
            !.work = IF h[a].op = "token" THEN NoRow ELSE r,
            !.iter = IF h[a].op = "token" THEN 0 ELSE h[a].iter]
  <1>1. Set(a, l)
    BY Zenon DEF Obtained
  <1>2. /\ l.cid = h[a].cid
        /\ l.copy \in {h[a].copy, h[a].work}
        /\ l.work \in {h[a].copy, h[a].work, NoRow}
    BY DEF Idle
  <1> HIDE DEF l
  <1>3. Ancestor(l.copy, l.cid) /\ Ancestor(l.work, l.cid)
    BY <1>2, ActorsCopies, OldCopy
  <1> QED BY <1>1, <1>3, LineageOfActor

(* The actor keeps its consent and its copies or replaces them by          *)
(* descendants.                                                            *)
LEMMA LineageOfChange ==
  ASSUME IInv, NEW a \in Actors, NEW l, Set(a, l), l.cid = h[a].cid,
         h[a].cid \in Consents,
         l.copy = h[a].copy \/ Ancestor(l.copy, l.cid),
         l.work = h[a].work \/ Ancestor(l.work, l.cid),
         \A c \in Consents : Ancestor(row'[c], c)
  PROVE  Lineage
  BY ActorsCopies, OldCopy, LineageOfActor

-----------------------------------------------------------------------------
LEMMA ArriveLineage ==
  ASSUME IInv, NEW a \in Handlers, NEW c \in Consents, Arrive(a, c)
  PROVE  Lineage
  <1>1. Ancestor(row[c], c)
    BY RowsCopy, OldCopy
  <1>2. \A place \in {"DataHolder", "DataRecipient"} :
          Ancestor(RevokeConsent(row[c], place, now), c)
    BY RowsCopy DEF Ancestor, Heritage, Descends
  <1>3. CASE ConfirmStart(a, c)
    BY <1>1, <1>3, LineageOfStart DEF ConfirmStart
  <1>4. CASE AccessStart(a, c)
    BY <1>1, <1>4, LineageOfStart DEF AccessStart
  <1>5. CASE DeleteStart(a, c)
    BY <1>2, <1>5, LineageOfStart DEF DeleteStart
  <1>6. CASE WithdrawStart(a, c)
    BY <1>2, <1>6, LineageOfStart DEF WithdrawStart
  <1> QED BY <1>3, <1>4, <1>5, <1>6 DEF Arrive

(* An actor at work, its consent and its copies. *)
LEMMA AtWorkCopies ==
  ASSUME IInv, NEW a \in Actors, h[a].pc # "idle"
  PROVE  /\ h[a].cid \in Consents /\ h[a] \in Local
         /\ row[h[a].cid] \in CopiesOf(h[a].cid)
         /\ Ancestor(h[a].copy, h[a].cid) /\ Ancestor(h[a].work, h[a].cid)
  BY AtWork, ActorsCopies, RowsCopy, OldCopy

LEMMA WorkLineage ==
  ASSUME IInv, NEW a \in Actors, Work(a)
  PROVE  Lineage
  <1> DEFINE c == h[a].cid
  <1>0. h[a].pc # "idle"
    BY DEF Work, At, Credentials, Sync, SaveSync, Request, Load, SaveTokens,
           Forward, SaveRevoked, Propagate, SaveMarked, Select, SavePCs
  <1>1. /\ c \in Consents /\ h[a] \in Local /\ row[c] \in CopiesOf(c)
        /\ Ancestor(h[a].copy, c) /\ Ancestor(h[a].work, c)
    BY <1>0, AtWorkCopies
  <1>2. UNCHANGED row => \A d \in Consents : Ancestor(row'[d], d)
    BY RowsAncestors
  <1>3. h[a].pc \in UpdatePCs /\ Update(a) => \A d \in Consents : Ancestor(row'[d], d)
    BY <1>1, UpdatedAncestors
  <1>4. CASE Credentials(a)
    <2>1. CASE Obtained(a, h[a].copy)
      BY <1>1, <1>2, <1>4, <2>1, LineageOfObtained DEF Credentials
    <2>2. CASE Set(a, [h[a] EXCEPT !.pc = "sync"])
      <3> DEFINE l == [h[a] EXCEPT !.pc = "sync"]
      <3>1. l.cid = c /\ l.copy = h[a].copy /\ l.work = h[a].work
        BY <1>1 DEF Local
      <3> QED BY <1>1, <1>2, <1>4, <2>2, <3>1, LineageOfChange DEF Credentials
    <2>3. CASE Finish(a)
      BY <1>2, <1>4, <2>3, LineageOfFinish DEF Credentials
    <2> QED BY <1>4, <2>1, <2>2, <2>3 DEF Credentials
  <1>5. SendRequest(a, h[a]) /\ (\A d \in Consents : Ancestor(row'[d], d)) => Lineage
    <2> DEFINE l == [h[a] EXCEPT !.pc = "request", !.sent = now, !.columns = {}]
    <2>1. l.cid = c /\ l.copy = h[a].copy /\ l.work = h[a].work
      BY <1>1 DEF Local
    <2> QED BY <1>1, <2>1, LineageOfChange DEF SendRequest
  <1>6. CASE Sync(a)
    <2> DEFINE s == RevokeConsent(h[a].copy, "DataHolder", now)
               l == [h[a] EXCEPT !.pc = "saveSync", !.copy = s]
    <2>1. SendRequest(a, h[a]) \/ Set(a, l)
      BY <1>6, Zenon DEF Sync
    <2>2. CASE SendRequest(a, h[a])
      BY <1>2, <1>5, <1>6, <2>2 DEF Sync
    <2>3. CASE Set(a, l)
      <3>1. Ancestor(s, c)
        BY ActorsCopies DEF Ancestor, Heritage, Descends
      <3> HIDE DEF s
      <3>2. l.cid = c /\ l.copy = s /\ l.work = h[a].work
        BY <1>1 DEF Local
      <3> QED BY <1>1, <1>2, <1>6, <2>3, <3>1, <3>2, LineageOfChange DEF Sync
    <2> QED BY <2>1, <2>2, <2>3
  <1>7. CASE SaveSync(a)
    BY <1>3, <1>5, <1>7 DEF SaveSync, At, UpdatePCs
  <1>8. CASE Request(a)
    <2> DEFINE answer == TokenReply(Regenerate(dh[c], now))
               l == [h[a] EXCEPT !.pc = "load", !.reply = answer]
    <2>1. Set(a, l) \/ Retry(a, h[a])
      BY <1>8, Zenon DEF Request
    <2>2. CASE Set(a, l)
      <3>1. l.cid = c /\ l.copy = h[a].copy /\ l.work = h[a].work
        BY <1>1 DEF Local
      <3> QED BY <1>1, <1>2, <1>8, <2>2, <3>1, LineageOfChange DEF Request
    <2>3. CASE Retry(a, h[a])
      BY <1>1, <1>2, <1>8, <2>3, LineageOfRetry DEF Request
    <2> QED BY <2>1, <2>2, <2>3
  <1>9. CASE Load(a)
    <2> DEFINE w == UpdateTokens(row[c], h[a].reply, h[a].sent, now)
               l == [h[a] EXCEPT !.pc = "save", !.reply = NoReply, !.sent = 0,
                                 !.work = w]
    <2>1. Set(a, l)
      BY <1>9, Zenon DEF Load
    <2>2. h[a].pc = "load"
      BY <1>9 DEF Load, At
    <2>3. Ancestor(w, c)
      BY <1>1, <2>2 DEF Ancestor, Heritage, Descends
    <2> HIDE DEF w
    <2>4. l.cid = c /\ l.copy = h[a].copy /\ l.work = w
      BY <1>1 DEF Local
    <2> QED BY <1>1, <1>2, <1>9, <2>1, <2>3, <2>4, LineageOfChange DEF Load
  <1>10. CASE SaveTokens(a)
    <2>1. \A d \in Consents : Ancestor(row'[d], d)
      BY <1>3, <1>10 DEF SaveTokens, At, UpdatePCs
    <2> QED BY <1>1, <1>10, <2>1, LineageOfFinish, LineageOfObtained, LineageOfRetry
            DEF SaveTokens
  <1>11. CASE Forward(a)
    BY <1>1, <1>2, <1>11, LineageOfFinish, LineageOfRetry DEF Forward
  <1>12. CASE SaveRevoked(a)
    <2> DEFINE l == [h[a] EXCEPT !.pc = "propagate", !.columns = {}]
    <2>1. \A d \in Consents : Ancestor(row'[d], d)
      BY <1>3, <1>12 DEF SaveRevoked, At, UpdatePCs
    <2>2. Set(a, l) \/ Finish(a)
      BY <1>12 DEF SaveRevoked
    <2>3. l.cid = c /\ l.copy = h[a].copy /\ l.work = h[a].work
      BY <1>1 DEF Local
    <2> HIDE DEF l
    <2> QED BY <1>1, <2>1, <2>2, <2>3, LineageOfChange, LineageOfFinish
  <1>13. CASE Propagate(a)
    <2> DEFINE s == MarkRevoked(h[a].copy)
               l == [h[a] EXCEPT !.pc = "saveMarked", !.copy = s]
    <2>1. \/ Set(a, l) /\ h[a].copy.refresh # 0 /\ TellHolder(h[a].copy, c)
          \/ Finish(a)
      BY <1>13, Zenon DEF Propagate
    <2>2. CASE Set(a, l) /\ h[a].copy.refresh # 0 /\ TellHolder(h[a].copy, c)
      <3>1. UseArrangementEndpoint /\ h[a].copy.finalised => dh'[c].revoked
        BY <1>1, <2>2 DEF TellHolder, RevokeArrangement, IInv, TypeOK, DhRow
      <3>2. Ancestor(s, c)
        BY <2>2, <3>1, ActorsCopies DEF Ancestor, Heritage, Descends
      <3> HIDE DEF s
      <3>3. l.cid = c /\ l.copy = s /\ l.work = h[a].work
        BY <1>1 DEF Local
      <3> QED BY <1>1, <1>2, <1>13, <2>2, <3>2, <3>3, LineageOfChange DEF Propagate
    <2>3. CASE Finish(a)
      BY <1>2, <1>13, <2>3, LineageOfFinish DEF Propagate
    <2> QED BY <2>1, <2>2, <2>3
  <1>14. CASE SaveMarked(a)
    BY <1>3, <1>14, LineageOfFinish DEF SaveMarked, At, UpdatePCs
  <1>15. CASE Select(a)
    <2> DEFINE different == Differing(row[c], Saved(h[a]))
               l == [h[a] EXCEPT !.pc = AfterSelect(@), !.columns = different]
    <2>1. Set(a, l) /\ UNCHANGED row
      BY <1>15, Zenon DEF Select
    <2> HIDE DEF different
    <2>2. l.cid = c /\ l.copy = h[a].copy /\ l.work = h[a].work
      BY <1>1 DEF Local
    <2> HIDE DEF l
    <2> QED BY <1>1, <1>2, <2>1, <2>2, LineageOfChange
  <1> QED BY <1>4, <1>6, <1>7, <1>8, <1>9, <1>10, <1>11, <1>12, <1>13, <1>14,
             <1>15 DEF Work

LEMMA FailureLineage ==
  ASSUME IInv, Failure
  PROVE  Lineage
  <1>1. PICK a \in Actors : CallFails(a) \/ AnswerLost(a) \/ SaveFails(a)
    BY DEF Failure
  <1>2. h[a].pc # "idle" /\ UNCHANGED row
    BY <1>1 DEF CallFails, AnswerLost, SaveFails, At
  <1>3. /\ h[a] \in Local
        /\ Ancestor(h[a].copy, h[a].cid)
        /\ \A d \in Consents : Ancestor(row'[d], d)
    BY <1>2, AtWorkCopies, RowsAncestors
  <1>4. CASE CallFails(a)
    <2>1. PICK i : Retry(a, [h[a] EXCEPT !.iter = i])
      BY <1>4 DEF CallFails
    <2> DEFINE l == [h[a] EXCEPT !.iter = i]
    <2>2. l.cid = h[a].cid /\ l.copy = h[a].copy
      BY <1>3 DEF Local
    <2>3. Retry(a, l)
      BY <2>1
    <2> HIDE DEF l
    <2> QED BY <1>3, <2>2, <2>3, LineageOfRetry
  <1>5. CASE AnswerLost(a)
    BY <1>3, <1>5, LineageOfRetry DEF AnswerLost
  <1>6. CASE SaveFails(a)
    BY <1>3, <1>6, LineageOfRetry, LineageOfFinish DEF SaveFails
  <1> QED BY <1>1, <1>4, <1>5, <1>6

LEMMA StepLineage ==
  ASSUME IInv, [Next]_vars
  PROVE  Lineage
  <1>1. UNCHANGED row => \A d \in Consents : Ancestor(row'[d], d)
    BY RowsAncestors
  <1>2. ASSUME NEW c \in Consents, RequestConsent(c) PROVE Lineage
    <2>1. Ancestor(PendingRow, c)
      BY <1>2 DEF RequestConsent, Ancestor, Heritage, Descends
    <2>2. \A d \in Consents : Ancestor(row'[d], d)
      BY <1>2, <2>1, SavedAncestors DEF RequestConsent
    <2> QED BY <1>2, <2>2, LineageUnchanged DEF RequestConsent
  <1>3. ASSUME NEW c \in Consents, DhGrant(c) \/ DhWithdraw(c) PROVE Lineage
    BY <1>1, <1>3, LineageUnchanged DEF DhGrant, DhWithdraw
  <1>4. ASSUME NEW a \in Handlers, NEW c \in Consents, Arrive(a, c) PROVE Lineage
    BY <1>4, ArriveLineage
  <1>5. ASSUME NEW a \in Actors, Work(a) PROVE Lineage
    BY <1>5, WorkLineage
  <1>6. ASSUME NEW c \in Consents, TakeRevocation(c) PROVE Lineage
    <2>1. Ancestor(row[c], c) /\ UNCHANGED row
      BY <1>6, RowsCopy, OldCopy DEF TakeRevocation
    <2>2. CASE UNCHANGED h
      BY <1>1, <2>1, <2>2, LineageUnchanged
    <2>3. CASE Start(Housekeeper, "propagate", "propagate", c, row[c])
      BY <2>1, <2>3, LineageOfStart
    <2> QED BY <1>6, <2>2, <2>3 DEF TakeRevocation
  <1>7. CASE EndRound
    BY <1>1, <1>7, LineageUnchanged DEF EndRound
  <1>8. CASE Failure
    BY <1>8, FailureLineage
  <1>9. CASE ProcessRestart
    <2>1. UNCHANGED row /\ h' = [a \in Actors |-> Idle]
      BY <1>9 DEF ProcessRestart
    <2>2. ASSUME NEW c \in Consents, NEW r1 \in CopiesOf(c)' PROVE Ancestor(r1, c)
      <3>1. \A b \in Actors : h'[b].cid \notin Consents
        BY <2>1, GoodIdle
      <3>2. r1 = row'[c]
        BY <3>1 DEF CopiesOf
      <3> QED BY <1>1, <2>1, <3>2
    <2> QED BY <2>2 DEF Lineage
  <1>10. CASE Tick
    BY <1>1, <1>10, LineageUnchanged DEF Tick
  <1>11. CASE UNCHANGED vars
    BY <1>1, <1>11, LineageUnchanged DEF vars
  <1> QED BY <1>2, <1>3, <1>4, <1>5, <1>6, <1>7, <1>8, <1>9, <1>10, <1>11 DEF Next

-----------------------------------------------------------------------------
(* A revocation that every copy knows of.                                  *)

LEMMA KnowledgeDescends ==
  ASSUME IInv, NEW r \in Row, NEW r1, NEW c, Descends(r1, r, c), CopyKnows(r)
  PROVE  CopyKnows(r1)
  <1>0. now \in Nat \ {0}
    BY DEF IInv, TypeOK
  <1>1. CASE r1 = r
    BY <1>1
  <1>2. ASSUME NEW place \in {"DataHolder", "DataRecipient"},
               r1 = RevokeConsent(r, place, now)
        PROVE  CopyKnows(r1)
    BY <1>0, <1>2 DEF RevokeConsent, CopyKnows, Revoked, Row
  <1>3. ASSUME NEW a \in Actors, r1 = UpdateTokens(r, h[a].reply, h[a].sent, now)
        PROVE  CopyKnows(r1)
    <2>1. r1.logged = r.logged /\ r1.revokedOn = r.revokedOn
      BY <1>3 DEF UpdateTokens, Row
    <2> QED BY <2>1 DEF CopyKnows, Revoked
  <1>4. CASE r1 = MarkRevoked(r)
    BY <1>4 DEF MarkRevoked, CopyKnows, Revoked, Row
  <1> QED BY <1>1, <1>2, <1>3, <1>4 DEF Descends

LEMMA CopiesAreRows ==
  ASSUME IInv, NEW c \in Consents PROVE CopiesOf(c) \subseteq Row
  BY DEF IInv, CopiesOf, RowsGood, ActorsGood, Good, GoodRow

(* The columns of a blend are those of the row or those of a copy. *)
LEMMA BlendColumns ==
  ASSUME IInv, NEW c \in Consents, NEW r1, Blend(r1, c)
  PROVE  \E copy \in CopiesOf(c) :
           /\ copy \in Row /\ row[c] \in Row /\ copy.logged
           /\ r1.logged = row[c].logged
           /\ r1.access \in {copy.access, row[c].access}
           /\ r1.accessExp \in {copy.accessExp, row[c].accessExp}
           /\ r1.refresh \in {copy.refresh, row[c].refresh}
           /\ r1.refreshExp \in {copy.refreshExp, row[c].refreshExp}
           /\ r1.revokedOn \in {copy.revokedOn, row[c].revokedOn}
           /\ r1.propagated \in {copy.propagated, row[c].propagated}
  <1>1. PICK a \in Actors : /\ h[a].pc \in UpdatePCs /\ h[a].cid = c
                           /\ r1 = Updated(row[c], Saved(h[a]), h[a].columns)
    BY DEF Blend
  <1>2. Saved(h[a]) \in CopiesOf(c) /\ row[c] \in CopiesOf(c)
    BY <1>1, ActorsCopies, RowsCopy DEF Saved
  <1>3. Saved(h[a]) \in Row /\ row[c] \in Row
    BY <1>2, CopiesAreRows
  <1>4. Saved(h[a]).logged
    BY <1>1 DEF IInv, ActorsGood, Good, Saved, UpdatePCs
  <1> QED BY <1>1, <1>2, <1>3, <1>4 DEF Updated

LEMMA SettledStays ==
  ASSUME IInv, [Next]_vars, NEW c \in Consents, Settled(c)
  PROVE  Settled(c)'
  <1>1. row[c].logged /\ Revoked(row[c])
    BY DEF Settled, IInv, RowsGood, Revoked, NoRow
  <1>2. \A r \in Heritage(c) : r \in Row /\ CopyKnows(r)
    <2>1. \A r \in CopiesOf(c) : r \in Row /\ CopyKnows(r)
      BY CopiesAreRows DEF CopiesOf, Settled, CopyKnows
    <2>2. NoRow \in Row /\ CopyKnows(NoRow)
      BY GoodIdle DEF Good, GoodRow, Idle, CopyKnows, NoRow
    <2> QED BY <1>1, <2>1, <2>2 DEF Heritage
  <1>3. ASSUME NEW r1, Blend(r1, c) PROVE CopyKnows(r1)
    <2>1. PICK copy \in CopiesOf(c) :
            /\ copy.logged
            /\ r1.revokedOn \in {copy.revokedOn, row[c].revokedOn}
      BY <1>3, BlendColumns
    <2>2. Revoked(copy)
      BY <1>2, <2>1 DEF Heritage, CopyKnows
    <2> QED BY <1>1, <2>1, <2>2 DEF CopyKnows, Revoked
  <1>4. \A r1 \in CopiesOf(c)' : CopyKnows(r1)
    BY <1>2, <1>3, StepLineage, KnowledgeDescends DEF Lineage, Ancestor
  <1>5. row'[c].logged
    BY <1>1, StepKeeps DEF RowsKept
  <1>6. Revoked(row[c])'
    BY <1>4, <1>5 DEF CopiesOf, CopyKnows, Revoked
  <1>7. \A a \in Actors : h'[a].cid = c => CopyKnows(h'[a].copy) /\ CopyKnows(h'[a].work)
    BY <1>4 DEF CopiesOf
  <1> QED BY <1>6, <1>7 DEF Settled, CopyKnows, Revoked

(* Once no handler works on a copy from before a revocation, the           *)
(* revocation is there for good, for any number of consents, requests,     *)
(* failures and restarts.                                                  *)
THEOREM RevocationIsFinal == Spec => RevocationSettles
  <1>1. IInv /\ [Next]_vars => [\A c \in Consents : Settled(c) => Settled(c)']_vars
    BY SettledStays
  <1> QED BY <1>1, Invariance, PTL DEF Spec, RevocationSettles

-----------------------------------------------------------------------------
(* With the arrangement endpoint a propagated revocation has reached the   *)
(* data holder: whoever has a refresh token has the arrangement too, so    *)
(* that PropagateRevokedConsent withdraws the arrangement before it marks  *)
(* its copy, and the data holder does not take a withdrawal back.          *)

Told(r, c) == UseArrangementEndpoint /\ r.propagated => dh[c].revoked

AllTold == \A c \in Consents : \A r \in CopiesOf(c) : Told(r, c)

LEMMA WithdrawalStays ==
  ASSUME IInv, [Next]_vars, NEW c \in Consents, dh[c].revoked
  PROVE  dh'[c].revoked
  <1>1. dh \in [Consents -> DhRow]
    BY DEF IInv, TypeOK
  <1>2. ASSUME NEW d \in Consents, NEW x, x.revoked \/ x.revoked = dh[d].revoked,
               dh' = [dh EXCEPT ![d] = x]
        PROVE  dh'[c].revoked
    BY <1>1, <1>2
  <1>3. \A d \in DhRow, t \in Nat :
          /\ Regenerate(d, t).revoked = d.revoked
          /\ \A duration \in Nat : Grant(d, duration, t).revoked = d.revoked
          /\ RevokeArrangement(d).revoked
          /\ \A token : RevokeRefreshToken(d, token).revoked
                        \/ RevokeRefreshToken(d, token).revoked = d.revoked
    BY DEF DhRow, Regenerate, Grant, RevokeArrangement, RevokeRefreshToken
  <1>4. now \in Nat
    BY DEF IInv, TypeOK
  <1>5. ASSUME NEW a \in Actors, h[a].pc # "idle",
               IssueTokens(h[a].cid) \/ TellHolder(h[a].copy, h[a].cid)
        PROVE  dh'[c].revoked
    <2>1. h[a].cid \in Consents
      BY <1>5, AtWork
    <2> QED BY <1>1, <1>2, <1>3, <1>4, <1>5, <2>1 DEF IssueTokens, TellHolder
  <1>6. ASSUME NEW d \in Consents, RequestConsent(d) \/ DhGrant(d) \/ DhWithdraw(d)
        PROVE  dh'[c].revoked
    BY <1>1, <1>2, <1>3, <1>4, <1>6, DurationAssumption
       DEF RequestConsent, DhGrant, DhWithdraw
  <1>7. ASSUME NEW a \in Actors, Work(a) PROVE dh'[c].revoked
    <2>1. \/ UNCHANGED dh
          \/ h[a].pc # "idle" /\ IssueTokens(h[a].cid)
          \/ h[a].pc # "idle" /\ TellHolder(h[a].copy, h[a].cid)
      BY <1>7 DEF Work, At, Credentials, Sync, SaveSync, Request, Load, SaveTokens,
                  Forward, SaveRevoked, Propagate, SaveMarked, Select, SavePCs
    <2> QED BY <1>5, <2>1
  <1>8. ASSUME NEW a \in Actors, CallFails(a) \/ AnswerLost(a) \/ SaveFails(a)
        PROVE  dh'[c].revoked
    BY <1>5, <1>8 DEF CallFails, AnswerLost, SaveFails, At
  <1>9. ASSUME NEW a \in Handlers, NEW d \in Consents, Arrive(a, d)
        PROVE  dh'[c].revoked
    BY <1>9 DEF Arrive, ConfirmStart, AccessStart, DeleteStart, WithdrawStart
  <1> QED BY <1>6, <1>7, <1>8, <1>9
          DEF Next, Failure, TakeRevocation, EndRound, ProcessRestart, Tick, vars

LEMMA TellingDescends ==
  ASSUME IInv, [Next]_vars, NEW c \in Consents, NEW r \in Row, NEW r1,
         Descends(r1, r, c), Told(r, c), r.refresh # 0 => r.finalised
  PROVE  Told(r1, c)'
  <1>1. UseArrangementEndpoint /\ r.propagated => dh'[c].revoked
    BY WithdrawalStays DEF Told
  <1>2. CASE r1 = r
    BY <1>1, <1>2 DEF Told
  <1>3. ASSUME NEW place \in {"DataHolder", "DataRecipient"},
               r1 = RevokeConsent(r, place, now)
        PROVE  Told(r1, c)'
    <2>1. r1.propagated = r.propagated
      BY <1>3 DEF RevokeConsent, Row
    <2> QED BY <1>1, <2>1 DEF Told
  <1>4. ASSUME NEW a \in Actors, r1 = UpdateTokens(r, h[a].reply, h[a].sent, now)
        PROVE  Told(r1, c)'
    <2>1. r1.propagated = r.propagated
      BY <1>4 DEF UpdateTokens, Row
    <2> QED BY <1>1, <2>1 DEF Told
  <1>5. CASE /\ r1 = MarkRevoked(r)
             /\ r.refresh # 0
             /\ UseArrangementEndpoint /\ r.finalised => dh'[c].revoked
    BY <1>5 DEF Told
  <1> QED BY <1>2, <1>3, <1>4, <1>5 DEF Descends

LEMMA InitAllTold == Init => AllTold
  BY GoodIdle DEF Init, AllTold, CopiesOf, Told, NoRow, Idle

LEMMA CopiesAreGood ==
  ASSUME IInv, NEW c \in Consents, NEW r \in CopiesOf(c)
  PROVE  r \in Row /\ (r.refresh # 0 => r.finalised)
  BY DEF IInv, CopiesOf, RowsGood, ActorsGood, Good, GoodRow

LEMMA NextAllTold == IInv /\ AllTold /\ [Next]_vars => AllTold'
  <1> SUFFICES ASSUME IInv, AllTold, [Next]_vars,
                      NEW c \in Consents, NEW r1 \in CopiesOf(c)'
               PROVE  Told(r1, c)'
    BY DEF AllTold
  <1>1. \A r \in Heritage(c) : r \in Row /\ (r.refresh # 0 => r.finalised) /\ Told(r, c)
    <2>1. \A r \in CopiesOf(c) : r \in Row /\ (r.refresh # 0 => r.finalised) /\ Told(r, c)
      BY CopiesAreGood DEF AllTold
    <2>2. \A r \in {NoRow, PendingRow} : r \in Row /\ r.refresh = 0 /\ Told(r, c)
      <3>1. NoRow \in Row /\ PendingRow \in Row
        BY DEF Row, Places, NoRow, PendingRow
      <3>2. \A r \in {NoRow, PendingRow} : r.refresh = 0 /\ Told(r, c)
        BY DEF NoRow, PendingRow, Told
      <3> QED BY <3>1, <3>2
    <2> QED BY <2>1, <2>2 DEF Heritage
  <1>2. CASE \E r \in Heritage(c) : Descends(r1, r, c)
    BY <1>1, <1>2, TellingDescends
  <1>3. CASE Blend(r1, c)
    <2>1. PICK copy \in CopiesOf(c) : r1.propagated \in {copy.propagated, row[c].propagated}
      BY <1>3, BlendColumns
    <2>2. Told(copy, c) /\ Told(row[c], c)
      BY RowsCopy DEF AllTold
    <2> QED BY <2>1, <2>2, WithdrawalStays DEF Told
  <1> QED BY <1>2, <1>3, StepLineage DEF Lineage, Ancestor

(* A revocation that is marked as propagated has reached the data holder,  *)
(* whatever calls were lost or repeated, provided that its arrangement     *)
(* endpoint is used (PropagateRevokedConsent).                             *)
THEOREM PropagationIsTruthful == Spec => []PropagatedIsWithdrawn
  <1>1. AllTold => PropagatedIsWithdrawn
    BY DEF AllTold, CopiesOf, Told, PropagatedIsWithdrawn
  <1> QED BY <1>1, InitAllTold, NextAllTold, Invariance, PTL DEF Spec
=============================================================================
