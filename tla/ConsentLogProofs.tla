-------------------------- MODULE ConsentLogProofs --------------------------
(***************************************************************************)
(* What holds of the consent log for every set of consents and handlers,   *)
(* every number of healing iterations and of faults, and every duration.   *)
(***************************************************************************)
EXTENDS ConsentLog, TLAPS

USE DEF Actors

-----------------------------------------------------------------------------
(* The operators on rows, holder rows and local states stay in their types. *)

LEMMA RowTypes ==
  ASSUME NEW r \in Row, NEW t \in Nat
  PROVE  /\ NoRow \in Row
         /\ PendingRow \in Row
         /\ \A place \in Places : RevokeConsent(r, place, t) \in Row
         /\ MarkRevoked(r) \in Row
         /\ \A reply \in Reply, sent \in Nat :
              UpdateTokens(r, reply, sent, t) \in Row
  <1>1. NoRow \in Row /\ PendingRow \in Row
    BY DEF NoRow, PendingRow, Row, Places
  <1>2. \A place \in Places : RevokeConsent(r, place, t) \in Row
    BY DEF RevokeConsent, Row, Places
  <1>3. MarkRevoked(r) \in Row
    BY DEF MarkRevoked, Row
  <1>4. ASSUME NEW reply \in Reply, NEW sent \in Nat
        PROVE  UpdateTokens(r, reply, sent, t) \in Row
    <2>1. RefreshTokenExpiry(reply, t) \in Nat
      BY DefaultTTLAssumption DEF RefreshTokenExpiry, Reply
    <2>2. sent + reply.expiresIn \in Nat
      BY DEF Reply
    <2> QED BY <2>1, <2>2 DEF UpdateTokens, Row, Reply
  <1> QED BY <1>1, <1>2, <1>3, <1>4

LEMMA DhTypes ==
  ASSUME NEW d \in DhRow, NEW t \in Nat
  PROVE  /\ NoDhRow \in DhRow
         /\ \A duration \in Nat : Grant(d, duration, t) \in DhRow
         /\ Regenerate(d, t) \in DhRow
         /\ RevokeArrangement(d) \in DhRow
         /\ \A token \in Nat : RevokeRefreshToken(d, token) \in DhRow
         /\ TokenReply(d) \in Reply
  <1>1. NoDhRow \in DhRow
    BY DEF NoDhRow, DhRow
  <1>2. ASSUME NEW duration \in Nat PROVE Grant(d, duration, t) \in DhRow
    <2>1. (IF duration = 0 THEN 0 ELSE t + duration) \in Nat
      OBVIOUS
    <2> QED BY <2>1 DEF Grant, DhRow
  <1>3. Regenerate(d, t) \in DhRow
    <2> DEFINE life == t + RefreshTTL
               expiry == IF d.sharingEnd = 0 THEN d.refreshExp
                         ELSE IF life > d.sharingEnd THEN d.sharingEnd
                         ELSE life
    <2>1. /\ d.access + 1 \in Nat
          /\ t + AccessTTL \in Nat
          /\ life \in Nat
      BY TTLAssumption DEF DhRow
    <2>2. d.sharingEnd \in Nat /\ d.refreshExp \in Nat /\ d.refresh \in Nat
      BY DEF DhRow
    <2>3. expiry \in Nat
      BY <2>1, <2>2
    <2>4. (IF d.sharingEnd # 0 THEN d.access + 1 ELSE d.refresh) \in Nat
      BY <2>1, <2>2
    <2>5. Regenerate(d, t) =
            [d EXCEPT !.code = "consumed",
                      !.access = d.access + 1,
                      !.accessExp = t + AccessTTL,
                      !.refresh = IF d.sharingEnd # 0 THEN d.access + 1
                                                      ELSE d.refresh,
                      !.refreshExp = expiry]
      BY Zenon DEF Regenerate
    <2> HIDE DEF expiry
    <2> QED BY <2>1, <2>3, <2>4, <2>5 DEF DhRow
  <1>4. RevokeArrangement(d) \in DhRow
    BY DEF RevokeArrangement, DhRow
  <1>5. \A token \in Nat : RevokeRefreshToken(d, token) \in DhRow
    BY <1>4 DEF RevokeRefreshToken
  <1>6. TokenReply(d) \in Reply
    BY TTLAssumption DEF TokenReply, Reply, DhRow
  <1> QED BY <1>1, <1>2, <1>3, <1>4, <1>5, <1>6

LEMMA IdleType == Idle \in Local
  <1>1. NoRow \in Row
    BY DEF NoRow, Row, Places
  <1> QED BY <1>1 DEF Idle, Local, PCs, Ops, NoReply, Reply

LEMMA NextIterationType ==
  ASSUME NEW l \in Local PROVE NextIteration(l) \in Local
  <1>1. Restart(l.op) \in PCs
    BY DEF Restart, PCs
  <1>2. l.op \in Ops /\ l.cid \in Consents \cup {0} /\ l.copy \in Row /\ l.iter + 1 \in Nat
    BY DEF Local
  <1> QED BY <1>1, <1>2, IdleType DEF NextIteration, Idle, Local

-----------------------------------------------------------------------------
(* The inductive invariant.  An actor that is not idle works on a copy of  *)
(* a row that exists; only the evaluation of tokens asks for tokens; only  *)
(* a copy that the data recipient has revoked is propagated, which is why  *)
(* no row is marked as propagated that the data holder revoked.  What is   *)
(* said of the columns of a revocation holds up to the first overlap of    *)
(* two saves of the row: m is the set of the rows it has happened to.      *)
(* Overlaps or not, a refresh token is only in a row that is finalised:    *)
(* nothing else is ever saved.                                             *)

GoodRow(r, c, m) ==
  /\ r \in Row
  /\ r.refresh # 0 => r.finalised
  /\ c \notin m => RevocationAgrees(r)

UpdatePCs == {"updateSync", "update", "updateRevoked", "updateMarked"}

TokenPCs == {"credentials", "sync", "saveSync", "updateSync", "request",
             "load", "save", "update", "forward"}

PropagatePCs == {"propagate", "saveMarked", "updateMarked"}

PurposeOK(l, m) ==
  /\ l.pc \in {"credentials", "forward"} => l.op \in {"token", "data"}
  /\ l.pc \in TokenPCs => l.op \in {"token", "data", "confirm"}
  /\ l.pc \in PropagatePCs => l.op \in {"delete", "propagate"}
  /\ l.cid \notin m /\ (l.pc \in PropagatePCs \/ l.op = "delete") =>
       l.copy.revokedAt = "DataRecipient"

Good(l, m) ==
  /\ l \in Local
  /\ GoodRow(l.copy, l.cid, m) /\ GoodRow(l.work, l.cid, m)
  /\ l.pc # "idle" => l.cid \in Consents /\ l.copy.logged
  /\ l.pc \in {"save", "update", "forward"} => l.work.logged
  /\ l.pc \in SavePCs \cup UpdatePCs => Saved(l).finalised
  /\ PurposeOK(l, m)

RowsGood == \A c \in Consents : /\ GoodRow(row[c], c, mixed)
                                /\ row[c].logged \/ row[c] = NoRow
ActorsGood == \A a \in Actors : Good(h[a], mixed)
RowsExist == \A a \in Actors : h[a].pc # "idle" => row[h[a].cid].logged

(* What a SELECT has found finalised is so still. *)
RowsStayFinal ==
  \A a \in Actors : h[a].pc \in UpdatePCs /\ "finalised" \notin h[a].columns =>
                      row[h[a].cid].finalised

IInv == TypeOK /\ RowsGood /\ ActorsGood /\ RowsExist /\ RowsStayFinal

(* An overlap more asks for less. *)
LEMMA GoodLess ==
  ASSUME NEW m, NEW n, m \subseteq n
  PROVE  /\ \A r, c : GoodRow(r, c, m) => GoodRow(r, c, n)
         /\ \A l : Good(l, m) => Good(l, n)
  BY DEF GoodRow, Good, PurposeOK

LEMMA NewRows ==
  ASSUME NEW c, NEW m
  PROVE  /\ GoodRow(NoRow, c, m) /\ ~NoRow.logged
         /\ GoodRow(PendingRow, c, m) /\ PendingRow.logged
  <1>1. NoRow \in Row /\ PendingRow \in Row
    BY DEF NoRow, PendingRow, Row, Places
  <1> QED BY <1>1 DEF GoodRow, RevocationAgrees, NoRow, PendingRow

(* The manager's assignments keep the columns of a revocation in agreement.*)
LEMMA GoodRows ==
  ASSUME NEW r, NEW c, NEW m, GoodRow(r, c, m), NEW t \in Nat \ {0}
  PROVE  /\ \A place \in {"DataHolder", "DataRecipient"} :
              LET s == RevokeConsent(r, place, t) IN
                /\ GoodRow(s, c, m)
                /\ s.logged = r.logged /\ s.finalised = r.finalised
                /\ s.revokedOn # 0
                /\ s.revokedAt = IF r.revokedAt = "none" THEN place ELSE r.revokedAt
         /\ (c \notin m => r.revokedAt = "DataRecipient") =>
              GoodRow(MarkRevoked(r), c, m)
         /\ MarkRevoked(r).revokedAt = r.revokedAt
         /\ MarkRevoked(r).logged = r.logged
         /\ MarkRevoked(r).finalised = r.finalised
         /\ \A reply \in Reply, sent \in Nat :
              LET s == UpdateTokens(r, reply, sent, t) IN
                GoodRow(s, c, m) /\ s.logged = r.logged /\ s.finalised
  <1> r \in Row /\ (r.refresh # 0 => r.finalised) /\ (c \notin m => RevocationAgrees(r))
    BY DEF GoodRow
  <1>3. ASSUME NEW place \in {"DataHolder", "DataRecipient"}
        PROVE  LET s == RevokeConsent(r, place, t) IN
                 /\ GoodRow(s, c, m)
                 /\ s.logged = r.logged /\ s.finalised = r.finalised
                 /\ s.revokedOn # 0
                 /\ s.revokedAt = IF r.revokedAt = "none" THEN place ELSE r.revokedAt
    <2> DEFINE s == RevokeConsent(r, place, t)
    <2>1. s \in Row
      BY RowTypes DEF Places
    <2>2. /\ s.logged = r.logged
          /\ s.finalised = r.finalised /\ s.refresh = r.refresh
          /\ s.propagated = r.propagated
          /\ s.revokedOn = IF r.revokedOn = 0 THEN t ELSE r.revokedOn
          /\ s.revokedAt = IF r.revokedAt = "none" THEN place ELSE r.revokedAt
      BY DEF RevokeConsent, Row
    <2> QED BY <2>1, <2>2 DEF GoodRow, RevocationAgrees, Row
  <1>4. /\ (c \notin m => r.revokedAt = "DataRecipient") =>
             GoodRow(MarkRevoked(r), c, m)
        /\ MarkRevoked(r).revokedAt = r.revokedAt
        /\ MarkRevoked(r).logged = r.logged
        /\ MarkRevoked(r).finalised = r.finalised
    <2>1. MarkRevoked(r) \in Row
      BY RowTypes
    <2>2. /\ MarkRevoked(r).logged = r.logged
          /\ MarkRevoked(r).finalised = r.finalised
          /\ MarkRevoked(r).refresh = r.refresh
          /\ MarkRevoked(r).revokedOn = r.revokedOn
          /\ MarkRevoked(r).revokedAt = r.revokedAt
      BY DEF MarkRevoked, Row
    <2> QED BY <2>1, <2>2 DEF GoodRow, RevocationAgrees
  <1>5. ASSUME NEW reply \in Reply, NEW sent \in Nat
        PROVE  LET s == UpdateTokens(r, reply, sent, t) IN
                 GoodRow(s, c, m) /\ s.logged = r.logged /\ s.finalised
    <2> DEFINE s == UpdateTokens(r, reply, sent, t)
    <2>1. s \in Row
      BY RowTypes
    <2>2. /\ s.logged = r.logged /\ s.finalised
          /\ s.propagated = r.propagated
          /\ s.revokedOn = r.revokedOn
          /\ s.revokedAt = r.revokedAt
      BY DEF UpdateTokens, Row
    <2> QED BY <2>1, <2>2 DEF GoodRow, RevocationAgrees
  <1> QED BY <1>3, <1>4, <1>5

LEMMA GoodIdle ==
  ASSUME NEW m
  PROVE  Good(Idle, m) /\ Idle.pc = "idle" /\ Idle.cid = 0 /\ 0 \notin Consents
  <1>1. GoodRow(NoRow, 0, m)
    BY NewRows
  <1> QED BY <1>1, IdleType, ConsentsAssumption
          DEF Good, PurposeOK, TokenPCs, PropagatePCs, SavePCs, UpdatePCs, Idle

(* A failed iteration leaves its copy to the next one, which starts where  *)
(* the evaluation of its operation starts.                                 *)
LEMMA GoodNextIteration ==
  ASSUME NEW l, NEW m, Good(l, m), l.pc \in TokenPCs \cup PropagatePCs
  PROVE  Good(NextIteration(l), m) /\ NextIteration(l).cid \in {0, l.cid}
  <1>1. CASE l.iter < MaxHealing
    <2> DEFINE n == [Idle EXCEPT !.pc = Restart(l.op), !.op = l.op, !.cid = l.cid,
                                 !.copy = l.copy, !.iter = l.iter + 1]
    <2>1. NextIteration(l) = n
      BY <1>1 DEF NextIteration
    <2>2. NextIteration(l) \in Local
      BY NextIterationType DEF Good
    <2>3. /\ n.pc = Restart(l.op) /\ n.op = l.op /\ n.cid = l.cid
          /\ n.copy = l.copy /\ n.work = NoRow
      BY DEF Idle
    <2>4. GoodRow(NoRow, l.cid, m)
      BY NewRows
    <2>5. /\ l.pc \in TokenPCs =>
               /\ l.op \in {"token", "data", "confirm"}
               /\ Restart(l.op) \in {"credentials", "sync"}
               /\ Restart(l.op) = "credentials" => l.op \in {"token", "data"}
          /\ l.pc \in PropagatePCs =>
               l.op \in {"delete", "propagate"} /\ Restart(l.op) = "propagate"
      BY DEF Good, PurposeOK, PropagatePCs, Restart
    <2>6. l.cid \in Consents /\ l.copy.logged /\ GoodRow(l.copy, l.cid, m)
      BY DEF Good, TokenPCs, PropagatePCs
    <2>7. PurposeOK(n, m)
      BY <2>3, <2>5 DEF Good, PurposeOK, TokenPCs, PropagatePCs, SavePCs,
          UpdatePCs, Saved
    <2> HIDE DEF n
    <2>8. n.pc \in {"credentials", "sync", "propagate"}
      BY <2>3, <2>5
    <2> QED BY <2>1, <2>2, <2>3, <2>4, <2>6, <2>7, <2>8
            DEF Good, SavePCs, UpdatePCs
  <1>2. CASE ~(l.iter < MaxHealing)
    BY <1>2, GoodIdle DEF NextIteration
  <1> QED BY <1>1, <1>2

-----------------------------------------------------------------------------
(* What a step does to the table and to the actors, for all actions alike. *)

RowsKept ==
  /\ row' \in [Consents -> Row]
  /\ RowsGood'
  /\ \A c \in Consents : row[c].logged => row'[c].logged
  /\ \A c \in Consents : row[c].finalised => row'[c].finalised
  /\ mixed \subseteq mixed' /\ mixed' \subseteq Consents

ActorsKept ==
  /\ h' \in [Actors -> Local]
  /\ ActorsGood'
  /\ RowsExist'
  /\ RowsStayFinal'

LEMMA RowsUnchanged ==
  ASSUME IInv, UNCHANGED <<row, mixed>> PROVE RowsKept
  BY DEF IInv, TypeOK, RowsKept, RowsGood

LEMMA RowWritten ==
  ASSUME IInv, NEW c \in Consents, NEW r \in Row, r.logged,
         r.finalised \/ ~row[c].finalised,
         row' = [row EXCEPT ![c] = r],
         mixed \subseteq mixed', mixed' \subseteq Consents,
         GoodRow(r, c, mixed')
  PROVE  RowsKept /\ row'[c].logged
  <1>1. row \in [Consents -> Row]
    BY DEF IInv, TypeOK
  <1>2. row' \in [Consents -> Row]
    BY <1>1
  <1>3. \A d \in Consents : row'[d] = IF d = c THEN r ELSE row[d]
    BY <1>1
  <1>4. \A d \in Consents : GoodRow(row[d], d, mixed')
    BY GoodLess DEF IInv, RowsGood
  <1>5. \A d \in Consents : row[d].finalised => row'[d].finalised
    BY <1>3
  <1> QED BY <1>2, <1>3, <1>4, <1>5 DEF IInv, RowsKept, RowsGood

(* What an UPDATE makes of a row and an entity is a row. *)
LEMMA UpdatedTypes ==
  ASSUME NEW r \in Row, NEW copy \in Row, NEW columns
  PROVE  /\ Updated(r, copy, columns) \in Row
         /\ Updated(r, copy, columns).logged = r.logged
         /\ Updated(r, copy, columns).finalised =
              IF "finalised" \in columns THEN copy.finalised ELSE r.finalised
  BY DEF Updated, Row

LEMMA RowUpdated ==
  ASSUME IInv, NEW a \in Actors, h[a].pc \in UpdatePCs, Update(a)
  PROVE  RowsKept /\ row'[h[a].cid].logged
  <1> DEFINE c == h[a].cid
             copy == Saved(h[a])
             result == Updated(row[c], copy, h[a].columns)
  <1>1. /\ c \in Consents /\ row[c] \in Row /\ row[c].logged
        /\ GoodRow(copy, c, mixed) /\ copy.finalised
        /\ mixed \subseteq Consents
    BY DEF IInv, TypeOK, RowsExist, ActorsGood, Good, Saved, UpdatePCs
  <1>2. result \in Row /\ result.logged /\ result.finalised
    <2>1. "finalised" \in h[a].columns \/ row[c].finalised
      BY DEF IInv, RowsStayFinal
    <2> QED BY <1>1, <2>1, UpdatedTypes DEF GoodRow
  <1>3. /\ row' = [row EXCEPT ![c] = result]
        /\ mixed' = IF result = copy THEN mixed ELSE mixed \cup {c}
    BY DEF Update
  <1> HIDE DEF result, copy, c
  <1>4. mixed \subseteq mixed' /\ mixed' \subseteq Consents
    BY <1>1, <1>3
  <1>5. GoodRow(result, c, mixed')
    BY <1>1, <1>2, <1>3 DEF GoodRow
  <1>6. RowsKept /\ row'[c].logged
    BY <1>1, <1>2, <1>3, <1>4, <1>5, RowWritten
  <1> QED BY <1>6 DEF c

LEMMA ActorsUnchanged ==
  ASSUME IInv, RowsKept, UNCHANGED h PROVE ActorsKept
  <1>1. \A a \in Actors : h[a].pc # "idle" => h[a].cid \in Consents
    BY DEF IInv, ActorsGood, Good
  <1>2. \A a \in Actors : Good(h[a], mixed')
    BY GoodLess DEF IInv, ActorsGood, RowsKept
  <1>3. RowsStayFinal'
    BY <1>1 DEF IInv, RowsKept, RowsStayFinal, UpdatePCs
  <1> QED BY <1>1, <1>2, <1>3
          DEF IInv, TypeOK, RowsKept, ActorsKept, ActorsGood, RowsExist

LEMMA ActorPut ==
  ASSUME IInv, RowsKept, NEW a \in Actors, NEW l, Set(a, l), Good(l, mixed),
         l.pc # "idle" => row'[l.cid].logged,
         l.pc \in UpdatePCs /\ "finalised" \notin l.columns => row'[l.cid].finalised
  PROVE  ActorsKept
  <1>1. h \in [Actors -> Local] /\ l \in Local
    BY DEF IInv, TypeOK, Good
  <1>2. h' = [h EXCEPT ![a] = l]
    BY DEF Set
  <1>3. h' \in [Actors -> Local]
    BY <1>1, <1>2
  <1>4. \A b \in Actors : h'[b] = IF b = a THEN l ELSE h[b]
    BY <1>1, <1>2
  <1>5. \A b \in Actors : Good(h'[b], mixed')
    BY <1>4, GoodLess DEF IInv, ActorsGood, RowsKept
  <1>6. \A b \in Actors : h[b].pc # "idle" =>
                            h[b].cid \in Consents /\ row[h[b].cid].logged
    BY DEF IInv, ActorsGood, Good, RowsExist
  <1>7. \A b \in Actors : h'[b].pc # "idle" => row'[h'[b].cid].logged
    BY <1>4, <1>6 DEF RowsKept
  <1>8. \A b \in Actors : h'[b].pc \in UpdatePCs /\ "finalised" \notin h'[b].columns =>
                            row'[h'[b].cid].finalised
    BY <1>4, <1>6 DEF IInv, RowsStayFinal, RowsKept, UpdatePCs
  <1> QED BY <1>3, <1>5, <1>7, <1>8 DEF ActorsKept, ActorsGood, RowsExist, RowsStayFinal

LEMMA ActorSet ==
  ASSUME IInv, RowsKept, NEW a \in Actors, NEW l, Set(a, l), Good(l, mixed),
         l.pc \notin UpdatePCs, l.pc # "idle" => row'[l.cid].logged
  PROVE  ActorsKept
  BY ActorPut

LEMMA ActorFinishes ==
  ASSUME IInv, RowsKept, NEW a \in Actors, Finish(a) PROVE ActorsKept
  BY ActorSet, GoodIdle DEF Finish, UpdatePCs

LEMMA ActorRetries ==
  ASSUME IInv, RowsKept, NEW a \in Actors, NEW l, Retry(a, l), Good(l, mixed),
         l.pc \in TokenPCs \cup PropagatePCs,
         row[l.cid].logged
  PROVE  ActorsKept /\ broken' \subseteq DataHolders
  <1>1. Good(NextIteration(l), mixed) /\ NextIteration(l).cid \in {0, l.cid}
    BY GoodNextIteration
  <1>2. l.cid \in Consents
    BY DEF Good, TokenPCs, PropagatePCs
  <1>3. NextIteration(l).pc # "idle" => NextIteration(l).cid \in Consents
    BY <1>1 DEF Good
  <1>4. NextIteration(l).pc # "idle" => NextIteration(l).cid = l.cid
    BY <1>1, <1>3, GoodIdle
  <1>5. NextIteration(l).pc \notin UpdatePCs
    BY DEF NextIteration, Restart, Idle, UpdatePCs
  <1>7. ActorsKept
    BY <1>1, <1>2, <1>4, <1>5, ActorSet DEF Retry, RowsKept
  <1>6. broken' \subseteq DataHolders
    BY <1>2, DataHolderAssumption DEF Retry, IInv, TypeOK
  <1> QED BY <1>6, <1>7

(* An actor at work, as the invariant has it. *)
LEMMA AtWork ==
  ASSUME IInv, NEW a \in Actors, h[a].pc # "idle"
  PROVE  /\ Good(h[a], mixed) /\ h[a] \in Local
         /\ h[a].cid \in Consents /\ row[h[a].cid].logged
         /\ h[a].copy.logged
         /\ GoodRow(h[a].copy, h[a].cid, mixed)
         /\ GoodRow(h[a].work, h[a].cid, mixed)
         /\ GoodRow(row[h[a].cid], h[a].cid, mixed)
         /\ now \in Nat \ {0}
  BY DEF IInv, TypeOK, RowsGood, ActorsGood, RowsExist, Good

-----------------------------------------------------------------------------
(* The requests: an actor takes a copy of a row that exists.               *)

LEMMA StartKeeps ==
  ASSUME IInv, NEW a \in Actors, NEW c \in Consents,
         NEW op \in Ops, NEW pc \in PCs, NEW copy,
         Start(a, op, pc, c, copy), UNCHANGED <<row, mixed>>,
         GoodRow(copy, c, mixed), copy.logged = row[c].logged,
         pc \notin UpdatePCs \cup {"save", "forward"},
         pc \in SavePCs => copy.finalised,
         PurposeOK([Idle EXCEPT !.pc = pc, !.op = op, !.cid = c, !.copy = copy], mixed)
  PROVE  RowsKept /\ ActorsKept
  <1> DEFINE l == [Idle EXCEPT !.pc = pc, !.op = op, !.cid = c, !.copy = copy]
  <1>1. RowsKept
    BY RowsUnchanged
  <1>2. Idle \in Local /\ copy \in Row
    BY IdleType DEF GoodRow
  <1>3. l \in Local
    BY <1>2 DEF Local
  <1>4. l.pc = pc /\ l.op = op /\ l.cid = c /\ l.copy = copy /\ l.work = NoRow
    BY DEF Idle
  <1>5. GoodRow(NoRow, c, mixed)
    BY NewRows
  <1>6. row[c].logged /\ Set(a, l) /\ PurposeOK(l, mixed)
    BY DEF Start
  <1> HIDE DEF l
  <1>7. Good(l, mixed)
    BY <1>3, <1>4, <1>5, <1>6 DEF Good, Saved, UpdatePCs
  <1>8. row'[l.cid].logged
    BY <1>4, <1>6, <1>1 DEF RowsKept
  <1>9. l.pc \notin UpdatePCs
    BY <1>4
  <1> QED BY <1>1, <1>6, <1>7, <1>8, <1>9, ActorSet

LEMMA ArriveKeeps ==
  ASSUME IInv, NEW a \in Handlers, NEW c \in Consents, Arrive(a, c)
  PROVE  RowsKept /\ ActorsKept
  <1>1. GoodRow(row[c], c, mixed) /\ now \in Nat \ {0}
    BY DEF IInv, RowsGood, TypeOK
  <1>2. \A place \in {"DataHolder", "DataRecipient"} :
          LET s == RevokeConsent(row[c], place, now) IN
            /\ GoodRow(s, c, mixed)
            /\ s.logged = row[c].logged /\ s.finalised = row[c].finalised
            /\ s.revokedAt = IF row[c].revokedAt = "none" THEN place
                                                         ELSE row[c].revokedAt
    BY <1>1, GoodRows
  <1>3. ASSUME ConfirmStart(a, c) PROVE RowsKept /\ ActorsKept
    <2>1. Start(a, "confirm", "sync", c, row[c]) /\ UNCHANGED <<row, mixed>>
      BY <1>3 DEF ConfirmStart
    <2>2. PurposeOK([Idle EXCEPT !.pc = "sync", !.op = "confirm", !.cid = c, !.copy = row[c]], mixed)
      BY DEF PurposeOK, TokenPCs, PropagatePCs, SavePCs, UpdatePCs, Idle
    <2>3. "confirm" \in Ops /\ "sync" \in PCs
      BY DEF Ops, PCs
    <2> QED BY <1>1, <2>1, <2>2, <2>3, StartKeeps DEF SavePCs, UpdatePCs
  <1>4. ASSUME AccessStart(a, c) PROVE RowsKept /\ ActorsKept
    <2>1. PICK op \in {"data", "token"} :
            Start(a, op, "credentials", c, row[c]) /\ UNCHANGED <<row, mixed>>
      BY <1>4 DEF AccessStart
    <2>2. PurposeOK([Idle EXCEPT !.pc = "credentials", !.op = op, !.cid = c, !.copy = row[c]], mixed)
      BY DEF PurposeOK, TokenPCs, PropagatePCs, SavePCs, UpdatePCs, Idle
    <2>3. op \in Ops /\ "credentials" \in PCs
      BY DEF Ops, PCs
    <2> QED BY <1>1, <2>1, <2>2, <2>3, StartKeeps DEF SavePCs, UpdatePCs
  <1>5. ASSUME DeleteStart(a, c) PROVE RowsKept /\ ActorsKept
    <2> DEFINE s == RevokeConsent(row[c], "DataRecipient", now)
    <2>1. Start(a, "delete", "saveRevoked", c, s) /\ UNCHANGED <<row, mixed>>
      BY <1>5 DEF DeleteStart
    <2>2. c \notin mixed => row[c].revokedAt = "none"
      BY <1>1, <1>5 DEF DeleteStart, IsCurrent, Revoked, GoodRow, RevocationAgrees
    <2>3. /\ GoodRow(s, c, mixed) /\ s.logged = row[c].logged
          /\ c \notin mixed => s.revokedAt = "DataRecipient"
          /\ s.finalised
      BY <1>2, <1>5, <2>2 DEF DeleteStart, IsCurrent
    <2> HIDE DEF s
    <2>4. PurposeOK([Idle EXCEPT !.pc = "saveRevoked", !.op = "delete", !.cid = c, !.copy = s], mixed)
      BY <2>3 DEF PurposeOK, TokenPCs, PropagatePCs, SavePCs, UpdatePCs, Idle
    <2>5. "delete" \in Ops /\ "saveRevoked" \in PCs
      BY DEF Ops, PCs
    <2> QED BY <2>1, <2>3, <2>4, <2>5, StartKeeps DEF SavePCs, UpdatePCs
  <1>6. ASSUME WithdrawStart(a, c) PROVE RowsKept /\ ActorsKept
    <2> DEFINE s == RevokeConsent(row[c], "DataHolder", now)
    <2>1. Start(a, "withdraw", "saveRevoked", c, s) /\ UNCHANGED <<row, mixed>>
      BY <1>6 DEF WithdrawStart
    <2>2. GoodRow(s, c, mixed) /\ s.logged = row[c].logged /\ s.finalised
      <3>1. row[c].finalised
        BY <1>1, <1>6 DEF WithdrawStart, FoundByRefreshToken, FoundByArrangement,
                          IsCurrent, GoodRow
      <3> QED BY <1>2, <3>1
    <2> HIDE DEF s
    <2>3. PurposeOK([Idle EXCEPT !.pc = "saveRevoked", !.op = "withdraw", !.cid = c, !.copy = s], mixed)
      BY DEF PurposeOK, TokenPCs, PropagatePCs, SavePCs, UpdatePCs, Idle
    <2>4. "withdraw" \in Ops /\ "saveRevoked" \in PCs
      BY DEF Ops, PCs
    <2> QED BY <2>1, <2>2, <2>3, <2>4, StartKeeps DEF SavePCs, UpdatePCs
  <1> QED BY <1>3, <1>4, <1>5, <1>6 DEF Arrive

-----------------------------------------------------------------------------
(* The steps of a handler that is at work.                                 *)

LEMMA SaveRevokedKeeps ==
  ASSUME IInv, NEW a \in Actors, SaveRevoked(a)
  PROVE  RowsKept /\ ActorsKept
  <1> DEFINE l == [h[a] EXCEPT !.pc = "propagate", !.columns = {}]
  <1>1. h[a].pc = "updateRevoked" /\ Update(a)
    BY DEF SaveRevoked, At
  <1>2. RowsKept /\ row'[h[a].cid].logged
    BY <1>1, RowUpdated DEF UpdatePCs
  <1>3. CASE h[a].op = "delete"
    <2>1. Set(a, l)
      BY <1>3 DEF SaveRevoked
    <2>2. /\ l \in Local
          /\ l.pc = "propagate" /\ l.op = "delete" /\ l.cid = h[a].cid
          /\ l.copy = h[a].copy /\ l.work = h[a].work
      BY <1>1, <1>3, AtWork DEF Local, PCs
    <2>3. l.cid \notin mixed => l.copy.revokedAt = "DataRecipient"
      BY <1>1, <1>3, <2>2, AtWork DEF Good, PurposeOK, PropagatePCs
    <2> HIDE DEF l
    <2>4. Good(l, mixed)
      BY <1>1, <2>1, <2>2, <2>3, AtWork DEF Good, PurposeOK, TokenPCs, PropagatePCs, SavePCs,
          UpdatePCs, Saved
    <2> QED BY <1>2, <2>1, <2>2, <2>4, ActorSet DEF UpdatePCs
  <1>4. CASE h[a].op # "delete"
    BY <1>2, <1>4, ActorFinishes DEF SaveRevoked
  <1> QED BY <1>2, <1>3, <1>4

(* The evaluation goes on with r as the row of an access token. *)
LEMMA ObtainedKeeps ==
  ASSUME IInv, RowsKept, NEW a \in Actors, NEW r, Obtained(a, r),
         h[a].pc # "idle", GoodRow(r, h[a].cid, mixed), r.logged
  PROVE  ActorsKept
  <1> DEFINE pc == IF h[a].op = "token" THEN "credentials" ELSE "forward"
             copy == IF h[a].op = "token" THEN r ELSE h[a].copy
             work == IF h[a].op = "token" THEN NoRow ELSE r
             iter == IF h[a].op = "token" THEN 0 ELSE h[a].iter
             l == [Idle EXCEPT !.cid = h[a].cid, !.op = "data", !.pc = pc,
                               !.copy = copy, !.work = work, !.iter = iter]
  <1>1. Set(a, l)
    BY Zenon DEF Obtained
  <1>2. /\ GoodRow(copy, h[a].cid, mixed) /\ GoodRow(work, h[a].cid, mixed)
        /\ copy.logged /\ iter \in Nat
        /\ pc = "forward" => work.logged
        /\ pc \in {"credentials", "forward"}
    <2>1. GoodRow(NoRow, h[a].cid, mixed)
      BY NewRows
    <2> QED BY <2>1, AtWork DEF Local
  <1> HIDE DEF pc, copy, work, iter
  <1>3. l \in Local
    BY <1>2, IdleType, AtWork DEF Local, GoodRow, PCs, Ops
  <1>4. /\ l.pc = pc /\ l.op = "data" /\ l.cid = h[a].cid
        /\ l.copy = copy /\ l.work = work
    BY DEF Idle
  <1> HIDE DEF l
  <1>5. Good(l, mixed)
    BY <1>2, <1>3, <1>4, AtWork DEF Good, PurposeOK, TokenPCs, PropagatePCs, SavePCs,
          UpdatePCs, Saved
  <1> QED BY <1>1, <1>2, <1>4, <1>5, ActorSet, AtWork DEF RowsKept, UpdatePCs

LEMMA CredentialsKeeps ==
  ASSUME IInv, NEW a \in Actors, Credentials(a)
  PROVE  RowsKept /\ ActorsKept
  <1> DEFINE l == [h[a] EXCEPT !.pc = "sync"]
  <1>1. h[a].pc = "credentials" /\ UNCHANGED <<row, mixed>>
    BY DEF Credentials, At
  <1>2. RowsKept
    BY <1>1, RowsUnchanged
  <1>3. \/ Obtained(a, h[a].copy)
        \/ Set(a, l)
        \/ Finish(a)
    BY DEF Credentials
  <1>4. CASE Obtained(a, h[a].copy)
    BY <1>1, <1>2, <1>4, AtWork, ObtainedKeeps
  <1>5. CASE Set(a, l)
    <2>1. /\ l \in Local /\ l.pc = "sync" /\ l.op = h[a].op
          /\ l.cid = h[a].cid /\ l.copy = h[a].copy /\ l.work = h[a].work
      BY <1>1, AtWork DEF Local, PCs
    <2> HIDE DEF l
    <2>2. Good(l, mixed)
      BY <1>1, <2>1, AtWork DEF Good, PurposeOK, TokenPCs, PropagatePCs, SavePCs,
          UpdatePCs, Saved
    <2> QED BY <1>1, <1>2, <1>5, <2>1, <2>2, AtWork, ActorSet DEF RowsKept, UpdatePCs
  <1>6. CASE Finish(a)
    BY <1>2, <1>6, ActorFinishes
  <1> QED BY <1>2, <1>3, <1>4, <1>5, <1>6

LEMMA SendRequestKeeps ==
  ASSUME IInv, RowsKept, NEW a \in Actors, h[a].pc \in {"sync", "updateSync"},
         SendRequest(a, h[a])
  PROVE  ActorsKept
  <1> DEFINE l == [h[a] EXCEPT !.pc = "request", !.sent = now, !.columns = {}]
  <1>1. Set(a, l)
    BY DEF SendRequest
  <1>2. /\ l \in Local /\ l.pc = "request" /\ l.op = h[a].op
        /\ l.cid = h[a].cid /\ l.copy = h[a].copy /\ l.work = h[a].work
    BY AtWork DEF Local, PCs
  <1> HIDE DEF l
  <1>3. Good(l, mixed)
    BY <1>2, AtWork DEF Good, PurposeOK, TokenPCs, PropagatePCs, SavePCs,
          UpdatePCs, Saved
  <1> QED BY <1>1, <1>2, <1>3, AtWork, ActorSet DEF RowsKept, UpdatePCs

LEMMA SyncKeeps ==
  ASSUME IInv, NEW a \in Actors, Sync(a)
  PROVE  RowsKept /\ ActorsKept
  <1> DEFINE s == RevokeConsent(h[a].copy, "DataHolder", now)
             l == [h[a] EXCEPT !.pc = "saveSync", !.copy = s]
  <1>1. h[a].pc = "sync" /\ UNCHANGED <<row, mixed>>
    BY DEF Sync, At
  <1>2. RowsKept
    BY <1>1, RowsUnchanged
  <1>3. SendRequest(a, h[a]) \/ (h[a].copy.refresh # 0 /\ Set(a, l))
    BY Zenon DEF Sync
  <1>4. CASE SendRequest(a, h[a])
    BY <1>1, <1>2, <1>4, SendRequestKeeps
  <1>5. CASE h[a].copy.refresh # 0 /\ Set(a, l)
    <2>1. GoodRow(s, h[a].cid, mixed) /\ s.logged /\ s.finalised
      <3>1. h[a].copy.finalised
        BY <1>1, <1>5, AtWork DEF GoodRow
      <3>2. h[a].copy.logged /\ GoodRow(h[a].copy, h[a].cid, mixed) /\ now \in Nat \ {0}
        BY <1>1, AtWork
      <3> QED BY <3>1, <3>2, GoodRows
    <2> HIDE DEF s
    <2>2. /\ l \in Local /\ l.pc = "saveSync" /\ l.op = h[a].op
          /\ l.cid = h[a].cid /\ l.copy = s /\ l.work = h[a].work
      BY <1>1, <2>1, AtWork DEF Local, PCs, GoodRow
    <2> HIDE DEF l
    <2>3. l.op # "delete"
      BY <1>1, <2>2, AtWork DEF Good, PurposeOK, TokenPCs, PropagatePCs, SavePCs,
          UpdatePCs, Saved
    <2>4. Good(l, mixed)
      BY <1>1, <2>1, <2>2, <2>3, AtWork DEF Good, PurposeOK, TokenPCs, PropagatePCs, SavePCs,
          UpdatePCs, Saved
    <2> QED BY <1>1, <1>2, <1>5, <2>2, <2>4, AtWork, ActorSet DEF RowsKept, UpdatePCs
  <1> QED BY <1>2, <1>3, <1>4, <1>5

LEMMA SaveSyncKeeps ==
  ASSUME IInv, NEW a \in Actors, SaveSync(a)
  PROVE  RowsKept /\ ActorsKept
  <1>1. h[a].pc = "updateSync" /\ Update(a) /\ SendRequest(a, h[a])
    BY DEF SaveSync, At
  <1>2. RowsKept
    BY <1>1, RowUpdated DEF UpdatePCs
  <1> QED BY <1>1, <1>2, SendRequestKeeps

LEMMA RequestKeeps ==
  ASSUME IInv, NEW a \in Actors, Request(a)
  PROVE  RowsKept /\ ActorsKept /\ broken' \subseteq DataHolders
  <1> DEFINE answer == TokenReply(Regenerate(dh[h[a].cid], now))
             l == [h[a] EXCEPT !.pc = "load", !.reply = answer]
  <1>1. h[a].pc = "request" /\ UNCHANGED <<row, mixed>>
    BY DEF Request, At
  <1>2. RowsKept
    BY <1>1, RowsUnchanged
  <1>3. (Set(a, l) /\ UNCHANGED broken) \/ Retry(a, h[a])
    BY Zenon DEF Request
  <1>4. CASE Set(a, l) /\ UNCHANGED broken
    <2>1. answer \in Reply
      BY <1>1, AtWork, DhTypes DEF IInv, TypeOK
    <2> HIDE DEF answer
    <2>2. /\ l \in Local /\ l.pc = "load" /\ l.op = h[a].op
          /\ l.cid = h[a].cid /\ l.copy = h[a].copy /\ l.work = h[a].work
      BY <1>1, <2>1, AtWork DEF Local, PCs
    <2> HIDE DEF l
    <2>3. Good(l, mixed)
      BY <1>1, <2>2, AtWork DEF Good, PurposeOK, TokenPCs, PropagatePCs, SavePCs,
          UpdatePCs, Saved
    <2>4. ActorsKept
      BY <1>1, <1>2, <1>4, <2>2, <2>3, AtWork, ActorSet DEF RowsKept, UpdatePCs
    <2> QED BY <1>2, <1>4, <2>4 DEF IInv, TypeOK
  <1>5. CASE Retry(a, h[a])
    BY <1>1, <1>2, <1>5, AtWork, ActorRetries DEF TokenPCs, PropagatePCs
  <1> QED BY <1>3, <1>4, <1>5

LEMMA LoadKeeps ==
  ASSUME IInv, NEW a \in Actors, Load(a)
  PROVE  RowsKept /\ ActorsKept
  <1> DEFINE w == UpdateTokens(row[h[a].cid], h[a].reply, h[a].sent, now)
             l == [h[a] EXCEPT !.pc = "save", !.reply = NoReply, !.sent = 0,
                               !.work = w]
  <1>1. h[a].pc = "load" /\ UNCHANGED <<row, mixed>>
    BY DEF Load, At
  <1>2. RowsKept
    BY <1>1, RowsUnchanged
  <1>3. Set(a, l)
    BY Zenon DEF Load
  <1>4. h[a].reply \in Reply /\ h[a].sent \in Nat
    BY <1>1, AtWork DEF Local
  <1>5. GoodRow(w, h[a].cid, mixed) /\ w.logged /\ w.finalised
    BY <1>1, <1>4, AtWork, GoodRows
  <1> HIDE DEF w
  <1>6. NoReply \in Reply
    BY DEF NoReply, Reply
  <1>7. /\ l \in Local /\ l.pc = "save" /\ l.op = h[a].op
        /\ l.cid = h[a].cid /\ l.copy = h[a].copy /\ l.work = w
    BY <1>1, <1>5, <1>6, AtWork DEF Local, PCs, GoodRow
  <1> HIDE DEF l
  <1>8. Good(l, mixed)
    BY <1>1, <1>5, <1>7, AtWork DEF Good, PurposeOK, TokenPCs, PropagatePCs, SavePCs,
          UpdatePCs, Saved
  <1> QED BY <1>1, <1>2, <1>3, <1>7, <1>8, AtWork, ActorSet DEF RowsKept, UpdatePCs

LEMMA SaveTokensKeeps ==
  ASSUME IInv, NEW a \in Actors, SaveTokens(a)
  PROVE  RowsKept /\ ActorsKept /\ broken' \subseteq DataHolders
  <1>1. h[a].pc = "update" /\ Update(a)
    BY DEF SaveTokens, At
  <1>2. h[a].work.logged
    BY <1>1, AtWork DEF Good
  <1>3. RowsKept
    BY <1>1, RowUpdated DEF UpdatePCs
  <1>4. \/ Finish(a) /\ UNCHANGED broken
        \/ Obtained(a, h[a].work) /\ UNCHANGED broken
        \/ Retry(a, h[a])
    BY DEF SaveTokens
  <1>5. CASE Finish(a) /\ UNCHANGED broken
    BY <1>3, <1>5, ActorFinishes DEF IInv, TypeOK
  <1>6. CASE Obtained(a, h[a].work) /\ UNCHANGED broken
    BY <1>1, <1>2, <1>3, <1>6, AtWork, ObtainedKeeps DEF IInv, TypeOK
  <1>7. CASE Retry(a, h[a])
    BY <1>1, <1>3, <1>7, AtWork, ActorRetries DEF TokenPCs, PropagatePCs
  <1> QED BY <1>3, <1>4, <1>5, <1>6, <1>7

LEMMA ForwardKeeps ==
  ASSUME IInv, NEW a \in Actors, Forward(a)
  PROVE  RowsKept /\ ActorsKept /\ broken' \subseteq DataHolders
  <1>1. h[a].pc = "forward" /\ UNCHANGED <<row, mixed>>
    BY DEF Forward, At
  <1>2. RowsKept
    BY <1>1, RowsUnchanged
  <1>3. (Finish(a) /\ UNCHANGED broken) \/ Retry(a, h[a])
    BY DEF Forward
  <1>4. CASE Finish(a) /\ UNCHANGED broken
    BY <1>2, <1>4, ActorFinishes DEF IInv, TypeOK
  <1>5. CASE Retry(a, h[a])
    BY <1>1, <1>2, <1>5, AtWork, ActorRetries DEF TokenPCs, PropagatePCs
  <1> QED BY <1>2, <1>3, <1>4, <1>5

LEMMA PropagateKeeps ==
  ASSUME IInv, NEW a \in Actors, Propagate(a)
  PROVE  RowsKept /\ ActorsKept
  <1> DEFINE s == MarkRevoked(h[a].copy)
             l == [h[a] EXCEPT !.pc = "saveMarked", !.copy = s]
  <1>1. h[a].pc = "propagate" /\ UNCHANGED <<row, mixed>>
    BY DEF Propagate, At
  <1>2. RowsKept
    BY <1>1, RowsUnchanged
  <1>3. (h[a].copy.refresh # 0 /\ Set(a, l)) \/ Finish(a)
    BY Zenon DEF Propagate
  <1>4. CASE h[a].copy.refresh # 0 /\ Set(a, l)
    <2>1. h[a].cid \notin mixed => h[a].copy.revokedAt = "DataRecipient"
      BY <1>1, AtWork DEF Good, PurposeOK, PropagatePCs
    <2>2. /\ GoodRow(s, h[a].cid, mixed) /\ s.logged
          /\ s.revokedAt = h[a].copy.revokedAt /\ s.finalised
      <3>1. h[a].copy.finalised
        BY <1>1, <1>4, AtWork DEF GoodRow
      <3> QED BY <1>1, <2>1, <3>1, AtWork, GoodRows
    <2> HIDE DEF s
    <2>3. /\ l \in Local /\ l.pc = "saveMarked" /\ l.op = h[a].op
          /\ l.cid = h[a].cid /\ l.copy = s /\ l.work = h[a].work
      BY <1>1, <2>2, AtWork DEF Local, PCs, GoodRow
    <2> HIDE DEF l
    <2>4. Good(l, mixed)
      BY <1>1, <2>1, <2>2, <2>3, AtWork DEF Good, PurposeOK, TokenPCs, PropagatePCs, SavePCs,
          UpdatePCs, Saved
    <2> QED BY <1>1, <1>2, <1>4, <2>3, <2>4, AtWork, ActorSet DEF RowsKept, UpdatePCs
  <1>5. CASE Finish(a)
    BY <1>2, <1>5, ActorFinishes
  <1> QED BY <1>2, <1>3, <1>4, <1>5

LEMMA SaveMarkedKeeps ==
  ASSUME IInv, NEW a \in Actors, SaveMarked(a)
  PROVE  RowsKept /\ ActorsKept
  <1>1. h[a].pc = "updateMarked" /\ Update(a) /\ Finish(a)
    BY DEF SaveMarked, At
  <1>2. RowsKept
    BY <1>1, RowUpdated DEF UpdatePCs
  <1> QED BY <1>1, <1>2, ActorFinishes

LEMMA SelectKeeps ==
  ASSUME IInv, NEW a \in Actors, Select(a)
  PROVE  RowsKept /\ ActorsKept
  <1> DEFINE different == Differing(row[h[a].cid], Saved(h[a]))
             l == [h[a] EXCEPT !.pc = AfterSelect(@), !.columns = different]
  <1>1. h[a].pc \in SavePCs /\ UNCHANGED <<row, mixed>>
    BY DEF Select
  <1>2. RowsKept
    BY <1>1, RowsUnchanged
  <1>3. Set(a, l)
    BY Zenon DEF Select
  <1>4. different \subseteq Columns
    BY DEF Differing
  <1> HIDE DEF different
  <1>5. h[a].pc # "idle" /\ AfterSelect(h[a].pc) \in PCs
    BY <1>1 DEF SavePCs, AfterSelect, PCs
  <1>6. /\ l \in Local /\ l.pc = AfterSelect(h[a].pc) /\ l.op = h[a].op
        /\ l.cid = h[a].cid /\ l.copy = h[a].copy /\ l.work = h[a].work
        /\ l.columns = different
    BY <1>4, <1>5, AtWork DEF Local
  <1> HIDE DEF l
  <1>7. /\ Saved(l) = Saved(h[a])
        /\ l.pc \in UpdatePCs
        /\ Saved(h[a]).finalised
    BY <1>1, <1>5, <1>6, AtWork
       DEF SavePCs, UpdatePCs, AfterSelect, Saved, Good
  <1>8. PurposeOK(l, mixed) /\ (l.pc = "update" => l.work.logged)
    BY <1>1, <1>5, <1>6, AtWork
       DEF Good, PurposeOK, TokenPCs, PropagatePCs, SavePCs, AfterSelect
  <1>9. Good(l, mixed)
    BY <1>5, <1>6, <1>7, <1>8, AtWork DEF Good, UpdatePCs
  <1>10. "finalised" \notin l.columns => row[l.cid].finalised
    BY <1>6, <1>7 DEF different, Differing, Columns
  <1> QED BY <1>1, <1>2, <1>3, <1>5, <1>6, <1>9, <1>10, AtWork, ActorPut DEF RowsKept

LEMMA TakeRevocationKeeps ==
  ASSUME IInv, NEW c \in Consents, TakeRevocation(c)
  PROVE  RowsKept /\ ActorsKept
  <1>1. UNCHANGED <<row, mixed>> /\ row[c].revokedAt = "DataRecipient" /\ GoodRow(row[c], c, mixed)
    BY DEF TakeRevocation, ToPropagate, IInv, RowsGood
  <1>2. RowsKept
    BY <1>1, RowsUnchanged
  <1>3. \/ UNCHANGED h
        \/ Start(Housekeeper, "propagate", "propagate", c, row[c])
    BY DEF TakeRevocation
  <1>4. CASE UNCHANGED h
    BY <1>2, <1>4, ActorsUnchanged
  <1>5. CASE Start(Housekeeper, "propagate", "propagate", c, row[c])
    <2>1. PurposeOK([Idle EXCEPT !.pc = "propagate", !.op = "propagate", !.cid = c, !.copy = row[c]], mixed)
      BY <1>1 DEF PurposeOK, TokenPCs, PropagatePCs, SavePCs, UpdatePCs, Idle
    <2>2. "propagate" \in Ops /\ "propagate" \in PCs
      BY DEF Ops, PCs
    <2> QED BY <1>1, <1>5, <2>1, <2>2, StartKeeps DEF SavePCs, UpdatePCs
  <1> QED BY <1>2, <1>3, <1>4, <1>5

-----------------------------------------------------------------------------
(* The steps of what can go wrong.                                         *)

LEMMA CallFailsKeeps ==
  ASSUME IInv, NEW a \in Actors, CallFails(a)
  PROVE  RowsKept /\ ActorsKept /\ broken' \subseteq DataHolders
  <1>1. h[a].pc \in {"sync", "request", "propagate"} /\ UNCHANGED <<row, mixed>>
    BY DEF CallFails
  <1>2. RowsKept
    BY <1>1, RowsUnchanged
  <1>3. PICK i \in h[a].iter .. MaxHealing : Retry(a, [h[a] EXCEPT !.iter = i])
    BY DEF CallFails
  <1> DEFINE l == [h[a] EXCEPT !.iter = i]
  <1>4. h[a].iter \in Nat /\ MaxHealing \in Nat
    BY <1>1, AtWork, NumberAssumption DEF Local
  <1>5. i \in Nat
    BY <1>4
  <1>6. /\ l \in Local /\ l.pc = h[a].pc /\ l.op = h[a].op
        /\ l.cid = h[a].cid /\ l.copy = h[a].copy /\ l.work = h[a].work
    BY <1>1, <1>5, AtWork DEF Local
  <1>7. Retry(a, l)
    BY <1>3
  <1> HIDE DEF l
  <1>8. Good(l, mixed)
    BY <1>1, <1>6, AtWork DEF Good, PurposeOK, TokenPCs, PropagatePCs, SavePCs,
          UpdatePCs, Saved
  <1> QED BY <1>1, <1>2, <1>6, <1>7, <1>8, AtWork, ActorRetries DEF TokenPCs, PropagatePCs

LEMMA AnswerLostKeeps ==
  ASSUME IInv, NEW a \in Actors, AnswerLost(a)
  PROVE  RowsKept /\ ActorsKept /\ broken' \subseteq DataHolders
  <1>1. h[a].pc \in {"request", "propagate"} /\ UNCHANGED <<row, mixed>> /\ Retry(a, h[a])
    BY DEF AnswerLost, At
  <1> QED BY <1>1, RowsUnchanged, AtWork, ActorRetries DEF TokenPCs, PropagatePCs

LEMMA SaveFailsKeeps ==
  ASSUME IInv, NEW a \in Actors, SaveFails(a)
  PROVE  RowsKept /\ ActorsKept /\ broken' \subseteq DataHolders
  <1>1. UNCHANGED <<row, mixed>>
    BY DEF SaveFails
  <1>2. RowsKept
    BY <1>1, RowsUnchanged
  <1>3. \/ Finish(a) /\ UNCHANGED broken
        \/ h[a].pc \in {"saveSync", "updateSync", "load", "save", "update",
                       "saveMarked", "updateMarked"} /\ Retry(a, h[a])
    BY DEF SaveFails
  <1>4. CASE Finish(a) /\ UNCHANGED broken
    BY <1>2, <1>4, ActorFinishes DEF IInv, TypeOK
  <1>5. CASE h[a].pc \in {"saveSync", "updateSync", "load", "save", "update",
                       "saveMarked", "updateMarked"} /\ Retry(a, h[a])
    BY <1>2, <1>5, AtWork, ActorRetries DEF TokenPCs, PropagatePCs
  <1> QED BY <1>2, <1>3, <1>4, <1>5

LEMMA ProcessRestartKeeps ==
  ASSUME IInv, ProcessRestart
  PROVE  RowsKept /\ ActorsKept
  <1>1. UNCHANGED <<row, mixed>> /\ h' = [a \in Actors |-> Idle]
    BY DEF ProcessRestart
  <1>2. RowsKept
    BY <1>1, RowsUnchanged
  <1> QED BY <1>1, <1>2, GoodIdle, IdleType
          DEF ActorsKept, ActorsGood, RowsExist, RowsStayFinal, UpdatePCs

-----------------------------------------------------------------------------
(* The variables beside the table and the actors.                          *)

OthersTyped ==
  /\ now' \in Nat \ {0}
  /\ dh' \in [Consents -> DhRow]
  /\ syncCache' \in [Consents -> Nat]
  /\ cursor' \in Consents \cup {0}
  /\ faults' \in Nat

LEMMA DhChanged ==
  ASSUME IInv, NEW c \in Consents, NEW d \in DhRow, dh' = [dh EXCEPT ![c] = d]
  PROVE  dh' \in [Consents -> DhRow]
  BY DEF IInv, TypeOK

LEMMA HolderTold ==
  ASSUME IInv, NEW c \in Consents, NEW copy \in Row, TellHolder(copy, c)
  PROVE  dh' \in [Consents -> DhRow]
  <1>1. dh[c] \in DhRow /\ now \in Nat /\ copy.refresh \in Nat
    BY DEF IInv, TypeOK, Row
  <1>2. RevokeArrangement(dh[c]) \in DhRow
        /\ RevokeRefreshToken(dh[c], copy.refresh) \in DhRow
    BY <1>1, DhTypes
  <1> QED BY <1>2, DhChanged DEF TellHolder

LEMMA TokensIssued ==
  ASSUME IInv, NEW c \in Consents, IssueTokens(c)
  PROVE  dh' \in [Consents -> DhRow]
  <1>1. dh[c] \in DhRow /\ now \in Nat
    BY DEF IInv, TypeOK
  <1>2. Regenerate(dh[c], now) \in DhRow
    BY <1>1, DhTypes
  <1> QED BY <1>2, DhChanged DEF IssueTokens

LEMMA OthersKeepTypes ==
  ASSUME IInv, [Next]_vars
  PROVE  OthersTyped
  <1> USE NumberAssumption
  <1>0. /\ now \in Nat \ {0} /\ dh \in [Consents -> DhRow]
        /\ syncCache \in [Consents -> Nat] /\ cursor \in Consents \cup {0}
        /\ faults \in Nat
    BY DEF IInv, TypeOK
  <1>1. ASSUME NEW c \in Consents, RequestConsent(c) \/ DhGrant(c) \/ DhWithdraw(c)
        PROVE  OthersTyped
    <2>1. CASE RequestConsent(c)
      BY <1>0, <2>1 DEF RequestConsent, OthersTyped
    <2>2. CASE DhGrant(c)
      <3>1. PICK duration \in Durations : dh' = [dh EXCEPT ![c] = Grant(@, duration, now)]
        BY <2>2 DEF DhGrant
      <3>2. Grant(dh[c], duration, now) \in DhRow
        BY <1>0, DhTypes, DurationAssumption
      <3> QED BY <1>0, <2>2, <3>1, <3>2, DhChanged DEF DhGrant, OthersTyped
    <2>3. CASE DhWithdraw(c)
      <3>1. RevokeArrangement(dh[c]) \in DhRow
        BY <1>0, DhTypes
      <3> QED BY <1>0, <2>3, <3>1, DhChanged DEF DhWithdraw, OthersTyped
    <2> QED BY <1>1, <2>1, <2>2, <2>3
  <1>2. ASSUME NEW a \in Handlers, NEW c \in Consents, Arrive(a, c)
        PROVE  OthersTyped
    BY <1>0, <1>2 DEF Arrive, ConfirmStart, AccessStart, DeleteStart, WithdrawStart,
                      OthersTyped
  <1>3. ASSUME NEW a \in Actors, Work(a) PROVE OthersTyped
    <2>1. CASE Credentials(a) \/ Load(a) \/ SaveTokens(a) \/ Forward(a)
               \/ SaveRevoked(a) \/ SaveMarked(a) \/ Select(a)
      BY <1>0, <2>1 DEF Credentials, Load, SaveTokens, Forward, SaveRevoked,
                        SaveMarked, Select, OthersTyped
    <2>2. CASE Sync(a) \/ SaveSync(a)
      <3>1. UNCHANGED syncCache \/ CacheSync(h[a].cid)
        BY <2>2, Zenon DEF Sync, SaveSync
      <3>2. syncCache' \in [Consents -> Nat]
        BY <1>0, <3>1 DEF CacheSync
      <3>3. UNCHANGED <<now, dh, cursor, faults>>
        BY <2>2 DEF Sync, SaveSync
      <3> QED BY <1>0, <3>2, <3>3 DEF OthersTyped
    <2>3. CASE Request(a)
      <3>1. h[a].pc = "request" /\ UNCHANGED <<now, syncCache, cursor, faults>>
        BY <2>3 DEF Request, At
      <3>2. IssueTokens(h[a].cid) \/ UNCHANGED dh
        BY <2>3 DEF Request
      <3>3. dh' \in [Consents -> DhRow]
        BY <1>0, <3>1, <3>2, AtWork, TokensIssued
      <3> QED BY <1>0, <3>1, <3>3 DEF OthersTyped
    <2>4. CASE Propagate(a)
      <3>1. h[a].pc = "propagate" /\ UNCHANGED <<now, syncCache, cursor, faults>>
        BY <2>4 DEF Propagate, At
      <3>2. TellHolder(h[a].copy, h[a].cid) \/ UNCHANGED dh
        BY <2>4 DEF Propagate
      <3>3. dh' \in [Consents -> DhRow]
        BY <1>0, <3>1, <3>2, AtWork, HolderTold DEF GoodRow
      <3> QED BY <1>0, <3>1, <3>3 DEF OthersTyped
    <2> QED BY <1>3, <2>1, <2>2, <2>3, <2>4 DEF Work
  <1>4. ASSUME NEW c \in Consents, TakeRevocation(c) PROVE OthersTyped
    BY <1>0, <1>4 DEF TakeRevocation, OthersTyped
  <1>5. ASSUME EndRound PROVE OthersTyped
    BY <1>0, <1>5 DEF EndRound, OthersTyped
  <1>6. ASSUME NEW a \in Actors, CallFails(a) \/ AnswerLost(a) \/ SaveFails(a)
        PROVE  OthersTyped
    <2>1. /\ faults' \in Nat
          /\ UNCHANGED <<now, syncCache, cursor>>
      BY <1>0, <1>6 DEF CallFails, AnswerLost, SaveFails, Fault
    <2>2. CASE CallFails(a) \/ SaveFails(a)
      BY <1>0, <2>1, <2>2 DEF CallFails, SaveFails, OthersTyped
    <2>3. CASE AnswerLost(a)
      <3>1. /\ h[a].pc \in {"request", "propagate"}
            /\ IssueTokens(h[a].cid) \/ TellHolder(h[a].copy, h[a].cid)
        BY <2>3 DEF AnswerLost, At
      <3>2. dh' \in [Consents -> DhRow]
        BY <3>1, AtWork, TokensIssued, HolderTold DEF GoodRow
      <3> QED BY <1>0, <2>1, <3>2 DEF OthersTyped
    <2> QED BY <1>6, <2>2, <2>3
  <1>7. ASSUME ProcessRestart PROVE OthersTyped
    BY <1>0, <1>7 DEF ProcessRestart, Fault, OthersTyped
  <1>8. ASSUME Tick PROVE OthersTyped
    BY <1>0, <1>8 DEF Tick, OthersTyped
  <1>9. ASSUME UNCHANGED vars PROVE OthersTyped
    BY <1>0, <1>9 DEF vars, OthersTyped
  <1> QED BY <1>1, <1>2, <1>3, <1>4, <1>5, <1>6, <1>7, <1>8, <1>9 DEF Next, Failure

-----------------------------------------------------------------------------
(* The invariant.                                                          *)

LEMMA InitIInv == Init => IInv
  <1> SUFFICES ASSUME Init PROVE IInv
    OBVIOUS
  <1>1. /\ NoRow \in Row /\ \A c : GoodRow(NoRow, c, {})
        /\ NoDhRow \in DhRow
    BY NewRows DEF GoodRow, NoDhRow, DhRow
  <1>2. TypeOK
    BY <1>1, IdleType DEF Init, TypeOK
  <1>3. RowsGood /\ ActorsGood /\ RowsExist /\ RowsStayFinal
    BY <1>1, GoodIdle
       DEF Init, RowsGood, ActorsGood, RowsExist, RowsStayFinal, UpdatePCs
  <1> QED BY <1>2, <1>3 DEF IInv

LEMMA StepKeeps ==
  ASSUME IInv, [Next]_vars
  PROVE  RowsKept /\ ActorsKept /\ broken' \subseteq DataHolders
  <1> DEFINE Kept == RowsKept /\ ActorsKept /\ broken' \subseteq DataHolders
  <1>0. broken \subseteq DataHolders
    BY DEF IInv, TypeOK
  <1>1. ASSUME NEW c \in Consents, RequestConsent(c) PROVE Kept
    <2>1. GoodRow(PendingRow, c, mixed') /\ PendingRow.logged
      BY NewRows
    <2>2. RowsKept
      <3>1. ~row[c].finalised
        BY <1>1 DEF RequestConsent, IInv, RowsGood, NoRow
      <3> QED BY <1>1, <2>1, <3>1, RowWritten DEF RequestConsent, GoodRow, IInv, TypeOK
    <2> QED BY <1>0, <1>1, <2>2, ActorsUnchanged DEF RequestConsent
  <1>2. ASSUME NEW c \in Consents, DhGrant(c) \/ DhWithdraw(c) PROVE Kept
    BY <1>0, <1>2, RowsUnchanged, ActorsUnchanged DEF DhGrant, DhWithdraw
  <1>3. ASSUME NEW a \in Handlers, NEW c \in Consents, Arrive(a, c) PROVE Kept
    <2>1. UNCHANGED broken
      BY <1>3 DEF Arrive, ConfirmStart, AccessStart, DeleteStart, WithdrawStart
    <2> QED BY <1>0, <1>3, <2>1, ArriveKeeps
  <1>4. ASSUME NEW a \in Actors, Work(a) PROVE Kept
    <2>1. CASE Request(a)
      BY <2>1, RequestKeeps
    <2>2. CASE SaveTokens(a)
      BY <2>2, SaveTokensKeeps
    <2>3. CASE Forward(a)
      BY <2>3, ForwardKeeps
    <2>4. CASE Credentials(a)
      BY <1>0, <2>4, CredentialsKeeps DEF Credentials
    <2>5. CASE Sync(a)
      BY <1>0, <2>5, SyncKeeps DEF Sync
    <2>6. CASE SaveSync(a)
      BY <1>0, <2>6, SaveSyncKeeps DEF SaveSync
    <2>7. CASE Load(a)
      BY <1>0, <2>7, LoadKeeps DEF Load
    <2>8. CASE SaveRevoked(a)
      BY <1>0, <2>8, SaveRevokedKeeps DEF SaveRevoked
    <2>9. CASE Propagate(a)
      BY <1>0, <2>9, PropagateKeeps DEF Propagate
    <2>10. CASE SaveMarked(a)
      BY <1>0, <2>10, SaveMarkedKeeps DEF SaveMarked
    <2>11. CASE Select(a)
      BY <1>0, <2>11, SelectKeeps DEF Select
    <2> QED BY <1>4, <2>1, <2>2, <2>3, <2>4, <2>5, <2>6, <2>7, <2>8, <2>9, <2>10,
               <2>11 DEF Work
  <1>5. ASSUME NEW c \in Consents, TakeRevocation(c) PROVE Kept
    BY <1>0, <1>5, TakeRevocationKeeps DEF TakeRevocation
  <1>6. ASSUME EndRound PROVE Kept
    BY <1>6, RowsUnchanged, ActorsUnchanged DEF EndRound
  <1>7. ASSUME Failure PROVE Kept
    BY <1>7, CallFailsKeeps, AnswerLostKeeps, SaveFailsKeeps DEF Failure
  <1>8. ASSUME ProcessRestart PROVE Kept
    BY <1>8, ProcessRestartKeeps DEF ProcessRestart
  <1>9. ASSUME Tick PROVE Kept
    BY <1>0, <1>9, RowsUnchanged, ActorsUnchanged DEF Tick
  <1>10. ASSUME UNCHANGED vars PROVE Kept
    BY <1>0, <1>10, RowsUnchanged, ActorsUnchanged DEF vars
  <1> QED BY <1>1, <1>2, <1>3, <1>4, <1>5, <1>6, <1>7, <1>8, <1>9, <1>10 DEF Next

LEMMA NextIInv == IInv /\ [Next]_vars => IInv'
  <1> SUFFICES ASSUME IInv, [Next]_vars PROVE IInv'
    OBVIOUS
  <1> QED BY StepKeeps, OthersKeepTypes
          DEF IInv, TypeOK, OthersTyped, RowsKept, ActorsKept

(* Every reachable state satisfies the inductive invariant: no handler     *)
(* works on a row that is not there, and nothing but a revocation by the   *)
(* data recipient is ever on its way to the data holder.                   *)
THEOREM Invariance == Spec => []IInv
  BY InitIInv, NextIInv, PTL DEF Spec

(* The table, the data holders and every handler keep the shape that the   *)
(* code gives them (ConsentRequestLog.ts, its methods and its callers).    *)
THEOREM TypeCorrect == Spec => []TypeOK
  <1>1. IInv => TypeOK
    BY DEF IInv
  <1> QED BY <1>1, Invariance, PTL

(* Until the columns of two overlapping saves meet in it, a row has the    *)
(* three columns of a revocation in agreement, and so have the copies of   *)
(* it, however stale handlers save them over each other (RevokeConsent,    *)
(* MarkRevoked, UpdateTokens).                                             *)
THEOREM RevocationColumns == Spec => []RevocationColumnsAgree
  <1>1. ASSUME IInv PROVE RevocationColumnsAgree
    <2> SUFFICES ASSUME NEW c \in Consents \ mixed, NEW r \in CopiesOf(c)
                 PROVE  RevocationAgrees(r)
      BY DEF RevocationColumnsAgree
    <2>1. CASE r = row[c]
      BY <1>1, <2>1 DEF IInv, RowsGood, GoodRow
    <2>2. ASSUME NEW a \in Actors, h[a].cid = c, r \in {h[a].copy, h[a].work}
          PROVE  RevocationAgrees(r)
      BY <1>1, <2>2 DEF IInv, ActorsGood, Good, GoodRow
    <2> QED BY <2>1, <2>2 DEF CopiesOf
  <1> QED BY <1>1, Invariance, PTL
=============================================================================
