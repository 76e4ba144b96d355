---------------------------- MODULE JtiLogProofs ----------------------------
(***************************************************************************)
(* Proof that the jti log admits no replay, for every set of requests and  *)
(* claims.                                                                 *)
(***************************************************************************)
EXTENDS JtiLog, TLAPS

(* The strengthening that makes NoReplay inductive: a request that has     *)
(* inserted still finds its own row in the table, under a key that no      *)
(* other request has and that the generator will not hand out again.       *)
OwnRow ==
  \A r \in Requests :
    Inserted(r) =>
      /\ [id |-> id[r], claim |-> claim[r]] \in rows
      /\ id[r] < nextId

DistinctIds ==
  \A r, s \in Requests :
    (Inserted(r) /\ Inserted(s) /\ id[r] = id[s]) => r = s

IInv == TypeOK /\ OwnRow /\ DistinctIds /\ NoReplay

LEMMA InitIInv == Init => IInv
  BY DEF Init, IInv, TypeOK, OwnRow, DistinctIds, NoReplay, Inserted, States

(* Every step keeps the types. *)
LEMMA NextTypeOK == TypeOK /\ [Next]_vars => TypeOK'
  <1> SUFFICES ASSUME TypeOK, [Next]_vars PROVE TypeOK'
    OBVIOUS
  <1>1. ASSUME NEW r \in Requests, Verify(r) PROVE TypeOK'
    BY <1>1 DEF Verify, TypeOK, States
  <1>2. ASSUME NEW r \in Requests, Insert(r) PROVE TypeOK'
    BY <1>2 DEF Insert, TypeOK, States, Row
  <1>3. ASSUME NEW r \in Requests, Find(r) PROVE TypeOK'
    BY <1>3 DEF Find, TypeOK, States
  <1>4. ASSUME NEW r \in Requests, Fail(r) PROVE TypeOK'
    BY <1>4 DEF Fail, TypeOK, States
  <1>5. CASE UNCHANGED vars
    BY <1>5 DEF vars, TypeOK
  <1> QED BY <1>1, <1>2, <1>3, <1>4, <1>5 DEF Next

(* Rows are never removed and ids never reused, so an inserted row stays   *)
(* its request's own.                                                      *)
LEMMA NextOwnRow == IInv /\ [Next]_vars => OwnRow' /\ DistinctIds'
  <1> SUFFICES ASSUME IInv, [Next]_vars PROVE OwnRow' /\ DistinctIds'
    OBVIOUS
  <1> USE DEF IInv, TypeOK, OwnRow, DistinctIds, Inserted, States
  <1>1. ASSUME NEW r \in Requests, Verify(r) PROVE OwnRow' /\ DistinctIds'
    BY <1>1 DEF Verify
  <1>2. ASSUME NEW r \in Requests, Insert(r) PROVE OwnRow' /\ DistinctIds'
    <2>1. /\ pc' = [pc EXCEPT ![r] = "find"]
          /\ id' = [id EXCEPT ![r] = nextId]
          /\ rows' = rows \cup {[id |-> nextId, claim |-> claim[r]]}
          /\ nextId' = nextId + 1
          /\ claim' = claim
      BY <1>2 DEF Insert
    <2>2. ASSUME NEW s \in Requests, s # r
          PROVE  pc'[s] = pc[s] /\ id'[s] = id[s]
      BY <2>1, <2>2
    <2>3. pc'[r] = "find" /\ id'[r] = nextId
      BY <2>1
    <2>4. ASSUME NEW s \in Requests, Inserted(s)'
          PROVE  /\ [id |-> id'[s], claim |-> claim'[s]] \in rows'
                 /\ id'[s] < nextId'
      <3>1. CASE s = r
        BY <3>1, <2>1, <2>3
      <3>2. CASE s # r
        BY <3>2, <2>1, <2>2, <2>4
      <3> QED BY <3>1, <3>2
    <2>5. ASSUME NEW s \in Requests, NEW t \in Requests,
                 Inserted(s)', Inserted(t)', id'[s] = id'[t]
          PROVE  s = t
      <3>1. \A u \in Requests : (u # r /\ Inserted(u)') => id'[u] < nextId
        BY <2>2
      <3> QED BY <3>1, <2>2, <2>3, <2>5
    <2> QED BY <2>4, <2>5
  <1>3. ASSUME NEW r \in Requests, Find(r) PROVE OwnRow' /\ DistinctIds'
    BY <1>3 DEF Find
  <1>4. ASSUME NEW r \in Requests, Fail(r) PROVE OwnRow' /\ DistinctIds'
    BY <1>4 DEF Fail
  <1>5. CASE UNCHANGED vars
    BY <1>5 DEF vars
  <1> QED BY <1>1, <1>2, <1>3, <1>4, <1>5 DEF Next

(* Only Find accepts, and it accepts only when the row of every request    *)
(* accepted before, which is still there, carries another claim.           *)
LEMMA NextNoReplay == IInv /\ [Next]_vars => NoReplay'
  <1> SUFFICES ASSUME IInv, [Next]_vars PROVE NoReplay'
    OBVIOUS
  <1> USE DEF IInv, TypeOK, NoReplay, States
  <1>1. ASSUME NEW r \in Requests, Verify(r) PROVE NoReplay'
    BY <1>1 DEF Verify
  <1>2. ASSUME NEW r \in Requests, Insert(r) PROVE NoReplay'
    BY <1>2 DEF Insert
  <1>3. ASSUME NEW r \in Requests, Find(r) PROVE NoReplay'
    <2>1. CASE DuplicateEntries(r) = {}
      <3>1. ASSUME NEW s \in Requests, pc[s] = "accepted", s # r
            PROVE  claim[s] # claim[r]
        <4>1. /\ [id |-> id[s], claim |-> claim[s]] \in rows
              /\ id[s] # id[r]
          BY <1>3, <3>1 DEF Find, OwnRow, DistinctIds, Inserted
        <4> QED BY <2>1, <4>1 DEF DuplicateEntries
      <3> QED BY <1>3, <3>1 DEF Find
    <2>2. CASE DuplicateEntries(r) # {}
      BY <1>3, <2>2 DEF Find
    <2> QED BY <2>1, <2>2
  <1>4. ASSUME NEW r \in Requests, Fail(r) PROVE NoReplay'
    BY <1>4 DEF Fail
  <1>5. CASE UNCHANGED vars
    BY <1>5 DEF vars
  <1> QED BY <1>1, <1>2, <1>3, <1>4, <1>5 DEF Next

(* The invariant holds in every reachable state. *)
THEOREM Invariance == Spec => []IInv
  <1>1. Init => IInv
    BY InitIInv
  <1>2. IInv /\ [Next]_vars => IInv'
    BY NextTypeOK, NextOwnRow, NextNoReplay DEF IInv
  <1> QED BY <1>1, <1>2, PTL DEF Spec

(* The table and the requests keep their shape (JtiLog.ts 5-15, 29-55). *)
THEOREM TypeCorrect == Spec => []TypeOK
  <1>1. IInv => TypeOK
    BY DEF IInv
  <1> QED BY <1>1, Invariance, PTL

(* No two requests are accepted with the same (jti, iss, sub), whatever    *)
(* the number of requests and their interleaving (IsJtiUnique).            *)
THEOREM ReplayImpossible == Spec => []NoReplay
  <1>1. IInv => NoReplay
    BY DEF IInv
  <1> QED BY <1>1, Invariance, PTL

-----------------------------------------------------------------------------
(* Every row was inserted by a request, which still holds its key.         *)
RowsHaveRequests ==
  /\ \A row \in rows :
       \E r \in Requests : id[r] = row.id /\ claim[r] = row.claim
  /\ \A r \in Requests : pc[r] \in {"idle", "insert"} => id[r] = 0

LEMMA NextRowsHaveRequests ==
  ASSUME TypeOK, RowsHaveRequests, [Next]_vars
  PROVE  RowsHaveRequests'
  <1>1. ASSUME NEW r \in Requests, Verify(r) PROVE RowsHaveRequests'
    BY <1>1 DEF Verify, TypeOK, States, RowsHaveRequests
  <1>2. ASSUME NEW r \in Requests, Insert(r) PROVE RowsHaveRequests'
    <2>1. id'[r] = nextId /\ claim' = claim
      BY <1>2 DEF Insert, TypeOK
    <2>2. \A s \in Requests \ {r} : id'[s] = id[s] /\ pc'[s] = pc[s]
      BY <1>2 DEF Insert, TypeOK
    <2>3. ASSUME NEW row \in rows
          PROVE  \E s \in Requests : id'[s] = row.id /\ claim'[s] = row.claim
      <3>1. PICK s \in Requests : id[s] = row.id /\ claim[s] = row.claim
        BY DEF RowsHaveRequests
      <3>2. row.id # 0 /\ id[r] = 0
        BY <1>2 DEF Insert, TypeOK, Row, RowsHaveRequests
      <3> QED BY <3>1, <3>2, <2>1, <2>2
    <2>4. \A row \in rows' :
            \E s \in Requests : id'[s] = row.id /\ claim'[s] = row.claim
      BY <1>2, <2>1, <2>3 DEF Insert
    <2>5. pc'[r] = "find"
      BY <1>2 DEF Insert, TypeOK
    <2>6. \A s \in Requests : pc'[s] \in {"idle", "insert"} => id'[s] = 0
      BY <2>2, <2>5 DEF RowsHaveRequests
    <2> QED BY <2>4, <2>6 DEF RowsHaveRequests
  <1>3. ASSUME NEW r \in Requests, Find(r) PROVE RowsHaveRequests'
    BY <1>3 DEF Find, TypeOK, States, RowsHaveRequests
  <1>4. ASSUME NEW r \in Requests, Fail(r) PROVE RowsHaveRequests'
    BY <1>4 DEF Fail, TypeOK, States, RowsHaveRequests
  <1>5. CASE UNCHANGED vars
    BY <1>5 DEF vars, RowsHaveRequests
  <1> QED BY <1>1, <1>2, <1>3, <1>4, <1>5 DEF Next

(* An assertion that nobody else presents is accepted once its search is   *)
(* made, whatever other requests have left in the table, those that failed *)
(* after their insert included (IsJtiUnique).                              *)
THEOREM FreshAccepted == Spec => FreshIsAccepted
  <1> DEFINE Alone(r) == \A s \in Requests \ {r} : claim[s] # claim[r]
             Accepts == \A r \in Requests :
                          (Find(r) /\ Alone(r)) => pc'[r] = "accepted"
  <1>1. Init => RowsHaveRequests
    BY DEF Init, RowsHaveRequests
  <1>2. TypeOK /\ RowsHaveRequests /\ [Next]_vars => RowsHaveRequests'
    BY NextRowsHaveRequests
  <1>3. ASSUME TypeOK, RowsHaveRequests
        PROVE  Accepts
    <2> SUFFICES ASSUME NEW r \in Requests, Find(r), Alone(r)
                 PROVE  pc'[r] = "accepted"
      OBVIOUS
    <2>1. DuplicateEntries(r) = {}
      BY <1>3 DEF DuplicateEntries, RowsHaveRequests
    <2> QED BY <1>3, <2>1 DEF Find, TypeOK
  <1>4. TypeOK /\ RowsHaveRequests => [Accepts]_vars
    BY <1>3
  <1> QED BY <1>1, <1>2, <1>4, TypeCorrect, PTL DEF Spec, FreshIsAccepted
=============================================================================
