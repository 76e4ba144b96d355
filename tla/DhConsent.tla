----------------------------- MODULE DhConsent ------------------------------
(***************************************************************************)
(* One consent as the data holder keeps it, modelled from the repository's *)
(* data holder (MockServices/DhServer/Entities/Consent.ts).  Tokens and    *)
(* times are those of ConsentRow: the n-th issue of tokens for a consent   *)
(* carries access and refresh token n.                                     *)
(***************************************************************************)
EXTENDS Naturals

CONSTANTS
  AccessTTL,    \* accessTokenExpirySeconds
  RefreshTTL    \* refreshTokenExpiryDays

ASSUME TTLAssumption == AccessTTL \in Nat \ {0} /\ RefreshTTL \in Nat \ {0}

DhRow == [code : {"none", "ready", "consumed"},
          access : Nat, accessExp : Nat,
          refresh : Nat, refreshExp : Nat, sharingEnd : Nat,
          revoked : BOOLEAN]

NoDhRow == [code |-> "none", access |-> 0, accessExp |-> 0,
            refresh |-> 0, refreshExp |-> 0, sharingEnd |-> 0,
            revoked |-> FALSE]

(* requestConsent and confirmConsent: the consumer agrees to share for the *)
(* duration, 0 for once-off access                                         *)
Grant(d, duration, t) ==
  [d EXCEPT !.code = "ready",
            !.sharingEnd = IF duration = 0 THEN 0 ELSE t + duration]

(* AssertValidAndCurrent; the expiry of the auth code and the end of       *)
(* sharing are compared in a way that never throws (lines 128, 129)        *)
ValidAndCurrent(d, t) ==
  /\ ~d.revoked
  /\ ~(d.refreshExp # 0 /\ d.refreshExp < t)

(* Mistake the runs must notice: a code that has been used is good again.  *)
CodeReusable(d, t) == d.code # "none" /\ ValidAndCurrent(d, t)

(* getTokenByAuthCode and getTokenByRefreshToken find the consent *)
CodeAccepted(d, t) == d.code = "ready" /\ ValidAndCurrent(d, t)

TokenActive(d, token, t) ==
  /\ token # 0
  /\ d.code = "consumed"
  /\ d.refresh = token
  /\ ValidAndCurrent(d, t)

(* RegenerateTokens: new tokens at each use, the old ones are forgotten *)
Regenerate(d, t) ==
  LET n == d.access + 1
      life == t + RefreshTTL
  IN  [d EXCEPT !.code = "consumed",
                !.access = n,
                !.accessExp = t + AccessTTL,
                !.refresh = IF d.sharingEnd # 0 THEN n ELSE @,
                !.refreshExp = IF d.sharingEnd = 0 THEN @
                               ELSE IF life > d.sharingEnd THEN d.sharingEnd
                               ELSE life]

(* revokeArrangement: refreshToken = undefined is not written by the save *)
RevokeArrangement(d) == [d EXCEPT !.revoked = TRUE]

(* revokeRefreshToken: no match is not an error *)
RevokeRefreshToken(d, token) ==
  IF token # 0 /\ d.refresh = token THEN RevokeArrangement(d) ELSE d

(* getActiveConsentByAccessToken *)
ServesAccessToken(d, token, t) ==
  d.access = token /\ ~d.revoked /\ t <= d.accessExp

(* TokenIDTokenPair *)
TokenReply(d) ==
  [access |-> d.access, expiresIn |-> AccessTTL, refresh |-> d.refresh,
   refreshExp |-> d.refreshExp, sharingEnd |-> d.sharingEnd]
=============================================================================
