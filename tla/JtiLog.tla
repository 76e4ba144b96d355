------------------------------- MODULE JtiLog -------------------------------
(***************************************************************************)
(* The log of JWT ids that the frontend (AdrServer) keeps so that a bearer *)
(* JWT of a data holder is accepted at most once.                          *)
(*                                                                         *)
(* JtiLogManager.IsJtiUnique inserts a row first and only then looks for   *)
(* other rows with the same (jti, iss, sub).  The two statements are two   *)
(* awaited database calls, so the requests that run it interleave between  *)
(* them, in one process or in several that share the database.             *)
(***************************************************************************)
EXTENDS Naturals

CONSTANTS
  Requests,   \* the requests that present a verified client assertion
  Claims      \* the (jti, iss, sub) triples those assertions carry

VARIABLES
  rows,       \* the jti_log table: a set of [id, claim]
  nextId,     \* the next generated primary key
  claim,      \* the triple a request carries, fixed when it arrives
  id,         \* the key of the row a request inserted, 0 before it did
  pc          \* where a request is

vars == <<rows, nextId, claim, id, pc>>

Row == [id : Nat \ {0}, claim : Claims]

States == {"idle", "insert", "find", "accepted", "rejected"}

Inserted(r) == pc[r] \in {"find", "accepted"}

-----------------------------------------------------------------------------
(* Mistakes the runs must notice.                                          *)

(* id: MoreThan(inserted.id): only later rows count, so a replay that is   *)
(* not concurrent gets through                                             *)
LaterEntries(r) == {row \in rows : row.claim = claim[r] /\ row.id > id[r]}

(* id: Not(inserted.id) forgotten: a request finds its own row             *)
OwnEntryToo(r) == {row \in rows : row.claim = claim[r]}

(* a key generator that starts below the first key                         *)
ZeroKey ==
  /\ rows = {}
  /\ nextId = 0
  /\ claim \in [Requests -> Claims]
  /\ id = [r \in Requests |-> 0]
  /\ pc = [r \in Requests |-> "idle"]

-----------------------------------------------------------------------------
(* find({iss, jti, sub, id: Not(inserted.id)}) *)
DuplicateEntries(r) ==
  {row \in rows : row.claim = claim[r] /\ row.id # id[r]}

Init ==
  /\ rows = {}
  /\ nextId = 1
  /\ claim \in [Requests -> Claims]
  /\ id = [r \in Requests |-> 0]
  /\ pc = [r \in Requests |-> "idle"]

(* verifyClientId has checked the signature, audience and issuer and comes *)
(* to the jti, which it checks last.                                       *)
Verify(r) ==
  /\ pc[r] = "idle"
  /\ pc' = [pc EXCEPT ![r] = "insert"]
  /\ UNCHANGED <<rows, nextId, claim, id>>

(* let inserted = await manager.save(j) *)
Insert(r) ==
  /\ pc[r] = "insert"
  /\ rows' = rows \cup {[id |-> nextId, claim |-> claim[r]]}
  /\ id' = [id EXCEPT ![r] = nextId]
  /\ nextId' = nextId + 1
  /\ pc' = [pc EXCEPT ![r] = "find"]
  /\ UNCHANGED claim

(* duplicateEntries.length > 0 decides *)
Find(r) ==
  /\ pc[r] = "find"
  /\ pc' = [pc EXCEPT ![r] =
              IF DuplicateEntries(r) = {} THEN "accepted" ELSE "rejected"]
  /\ UNCHANGED <<rows, nextId, claim, id>>

(* A database error before or after the insert is rethrown (line 53) and   *)
(* fails the request; a row that was inserted stays.                       *)
Fail(r) ==
  /\ pc[r] \in {"insert", "find"}
  /\ pc' = [pc EXCEPT ![r] = "rejected"]
  /\ UNCHANGED <<rows, nextId, claim, id>>

Next == \E r \in Requests : Verify(r) \/ Insert(r) \/ Find(r) \/ Fail(r)

(* A request that has been verified is answered: the event loop runs the   *)
(* continuation of a database call that returned.                          *)
Spec ==
  /\ Init
  /\ [][Next]_vars
  /\ \A r \in Requests : WF_vars(Insert(r)) /\ WF_vars(Find(r))

-----------------------------------------------------------------------------

(* The variables have the shape the code gives them. *)
TypeOK ==
  /\ rows \subseteq Row
  /\ nextId \in Nat \ {0}
  /\ claim \in [Requests -> Claims]
  /\ id \in [Requests -> Nat]
  /\ pc \in [Requests -> States]

(* A client assertion authenticates at most one request, however the       *)
(* inserts and the searches of concurrent requests interleave              *)
(* (IsJtiUnique, used by BearerJwtVerifier.verifyClientId).                *)
NoReplay ==
  \A r, s \in Requests :
    (pc[r] = "accepted" /\ pc[s] = "accepted" /\ claim[r] = claim[s]) => r = s

(* An assertion nobody else presents is not turned away, unless the        *)
(* database fails: the search must not see the request's own row.          *)
FreshIsAccepted ==
  [][\A r \in Requests :
       (Find(r) /\ \A s \in Requests \ {r} : claim[s] # claim[r]) =>
         pc'[r] = "accepted"]_vars
=============================================================================
