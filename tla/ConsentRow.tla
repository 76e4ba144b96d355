----------------------------- MODULE ConsentRow -----------------------------
(***************************************************************************)
(* One row of the consent_request_log table and the decisions the gateway  *)
(* takes on it (Common/Entities/ConsentRequestLog.ts).                     *)
(*                                                                         *)
(* A time is a natural number and 0 is a date column that is null.  A      *)
(* token is the number of the issue of tokens it came with at the data     *)
(* holder, and 0 is a token column that is null.  "finalised" stands for   *)
(* consentedDate, idTokenJson, ppid, confirmedScopesJson and arrangementId,*)
(* which UpdateTokens is the first to set and which are never unset.       *)
(***************************************************************************)
EXTENDS Naturals

CONSTANT
  DefaultRefreshTTL   \* the 27 days given to a refresh token of unknown life

ASSUME DefaultTTLAssumption == DefaultRefreshTTL \in Nat

Places == {"none", "DataHolder", "DataRecipient"}

Row == [logged : BOOLEAN, finalised : BOOLEAN,
        access : Nat, accessExp : Nat,
        refresh : Nat, refreshExp : Nat, sharingEnd : Nat,
        revokedOn : Nat, revokedAt : Places, propagated : BOOLEAN]

(* no row, and a copy no handler holds *)
NoRow == [logged |-> FALSE, finalised |-> FALSE,
          access |-> 0, accessExp |-> 0,
          refresh |-> 0, refreshExp |-> 0, sharingEnd |-> 0,
          revokedOn |-> 0, revokedAt |-> "none", propagated |-> FALSE]

(* LogAuthRequest *)
PendingRow == [NoRow EXCEPT !.logged = TRUE]

(* The columns of a logged row that are ever written again *)
Columns == {"finalised", "access", "accessExp", "refresh", "refreshExp",
            "sharingEnd", "revokedOn", "revokedAt", "propagated"}

(* what the token endpoint answers *)
Reply == [access : Nat, expiresIn : Nat, refresh : Nat,
          refreshExp : Nat, sharingEnd : Nat]

NoReply == [access |-> 0, expiresIn |-> 0, refresh |-> 0,
            refreshExp |-> 0, sharingEnd |-> 0]

-----------------------------------------------------------------------------
(* The methods of the entity at time t.                                    *)

SharingDurationExpired(r, t) == r.sharingEnd # 0 /\ r.sharingEnd <= t

AccessTokenExpired(r, t) == ~(t < r.accessExp)

RefreshTokenExpired(r, t) ==
  /\ r.refresh # 0
  /\ r.refreshExp # 0
  /\ r.refreshExp <= t

Revoked(r) == r.revokedOn # 0

(* ValidateAsCurrent does not throw *)
IsCurrent(r, t) ==
  /\ ~Revoked(r)
  /\ r.finalised
  /\ AccessTokenExpired(r, t) =>
       /\ ~SharingDurationExpired(r, t)
       /\ ~RefreshTokenExpired(r, t)
       /\ r.refresh # 0

HasCurrentAccessToken(r, t) ==
  IsCurrent(r, t) /\ r.access # 0 /\ t < r.accessExp

HasCurrentRefreshToken(r, t) ==
  IsCurrent(r, t) /\ r.refresh # 0 /\ t < r.refreshExp

-----------------------------------------------------------------------------
(* Mistakes the runs must notice.                                          *)

(* the caller's place is lost on the way to the column                     *)
RevokeNowhere(r, place, t) ==
  [r EXCEPT !.revokedOn = IF @ = 0 THEN t ELSE @,
            !.revokedAt = IF @ = "none" THEN "undefined" ELSE @]

(* without "consent.revokedAt ||" *)
RevokeAnew(r, place, t) ==
  [r EXCEPT !.revokedOn = IF @ = 0 THEN t ELSE @, !.revokedAt = place]

(* the life of the access token counts from when its answer was handled *)
TokensFromNow(r, reply, sent, t) ==
  [r EXCEPT !.finalised = TRUE,
            !.access = reply.access,
            !.accessExp = t + reply.expiresIn,
            !.refresh = reply.refresh,
            !.refreshExp = reply.refreshExp,
            !.sharingEnd = reply.sharingEnd]

(* new tokens make a consent current again *)
TokensRevive(r, reply, sent, t) ==
  [r EXCEPT !.finalised = TRUE,
            !.access = reply.access,
            !.accessExp = sent + reply.expiresIn,
            !.refresh = reply.refresh,
            !.refreshExp = reply.refreshExp,
            !.sharingEnd = reply.sharingEnd,
            !.revokedOn = 0,
            !.revokedAt = "none"]

-----------------------------------------------------------------------------
(* The assignments the manager makes to a loaded row before it saves it.   *)

(* RevokeConsent: "put values only if they don't already exist" *)
RevokeConsent(r, place, t) ==
  [r EXCEPT !.revokedOn = IF @ = 0 THEN t ELSE @,
            !.revokedAt = IF @ = "none" THEN place ELSE @]

MarkRevoked(r) == [r EXCEPT !.propagated = TRUE]

(* refreshTokenExpiry of UpdateClaims: the data holder's claim or 27 days, *)
(* and not after the end of sharing                                        *)
RefreshTokenExpiry(reply, t) ==
  LET claimed == IF reply.refreshExp # 0 THEN reply.refreshExp
                                         ELSE t + DefaultRefreshTTL
  IN  IF reply.sharingEnd # 0 /\ claimed > reply.sharingEnd
      THEN reply.sharingEnd ELSE claimed

(* UpdateTokens, with the token request sent at "sent" *)
UpdateTokens(r, reply, sent, t) ==
  [r EXCEPT !.finalised = TRUE,
            !.access = reply.access,
            !.accessExp = sent + reply.expiresIn,
            !.refresh = IF reply.refresh # 0 THEN reply.refresh ELSE @,
            !.refreshExp = RefreshTokenExpiry(reply, t),
            !.sharingEnd = IF reply.sharingEnd # 0 THEN reply.sharingEnd ELSE @]

-----------------------------------------------------------------------------
(* The save of an entity: TypeORM selects the row and then updates those   *)
(* columns in which the entity differed from it.                           *)

Differing(r, copy) == {x \in Columns : copy[x] # r[x]}

Updated(r, copy, columns) ==
  LET Column(x) == IF x \in columns THEN copy[x] ELSE r[x] IN
    [logged |-> r.logged, finalised |-> Column("finalised"),
     access |-> Column("access"), accessExp |-> Column("accessExp"),
     refresh |-> Column("refresh"), refreshExp |-> Column("refreshExp"),
     sharingEnd |-> Column("sharingEnd"), revokedOn |-> Column("revokedOn"),
     revokedAt |-> Column("revokedAt"), propagated |-> Column("propagated")]
=============================================================================
