------------------------- MODULE ClientRegistration -------------------------
(***************************************************************************)
(* The registration of one software product as a client of one data holder *)
(* brand: the table of registrations, the evaluations of                   *)
(* CheckAndUpdateClientRegistration that work on it, the caches of their   *)
(* processes and the registration at the data holder.                      *)
(*                                                                         *)
(* Every request of the backend that talks to the data holder evaluates    *)
(* this dependency, and so does the housekeeper on its interval.  A client *)
(* is the number of its issue by the data holder.  What the gateway wants  *)
(* to be registered (redirect URIs, algorithms, the statement of the       *)
(* register) is a version number.                                          *)
(***************************************************************************)
EXTENDS Naturals, FiniteSets

CONSTANTS
  Handlers,       \* requests under way at a time, in any process
  Housekeeper,    \* the DynamicClientRegistration task
  Processes,
  ProcessOf,      \* the process of each evaluation, which owns its cache
  MaxHealing,     \* MAXIMUM_HEALING_ITERATIONS
  \* bounds of the model
  MaxClients, MaxVersion, MaxFaults

ASSUME HousekeeperAssumption == Housekeeper \notin Handlers
ASSUME ProcessAssumption ==
  ProcessOf \in [Handlers \cup {Housekeeper} -> Processes]
ASSUME NumberAssumption ==
  /\ MaxHealing \in Nat
  /\ MaxClients \in Nat
  /\ MaxVersion \in Nat \ {0}
  /\ MaxFaults \in Nat

Evaluations == Handlers \cup {Housekeeper}

Clients == 1 .. MaxClients
Versions == 1 .. MaxVersion

VARIABLES
  row,      \* the status of the row of each client, "none" before it has one
  holder,   \* the client that is active at the data holder, and its version
  issued,   \* how many clients the data holder has issued
  wanted,   \* the version the gateway is configured for
  ev,       \* what each evaluation holds
  cache,    \* CheckAndUpdateClientRegistration and DhRegAccessToken, cached
  faults    \* calls, saves and processes that have failed

vars == <<row, holder, issued, wanted, ev, cache, faults>>

PCs == {"idle", "check", "find", "post", "load", "delete", "insert", "token",
        "get", "put", "findUpdated", "saveUpdated", "use"}

(* want: the version read at the start of the iteration;  old: rows loaded *)
(* and still to be marked DELETED;  token: the client the access token is  *)
(* for                                                                     *)
Local == [pc : PCs, iter : Nat, want : Versions \cup {0},
          client : Clients \cup {0}, old : SUBSET Clients,
          token : Clients \cup {0}]

Idle == [pc |-> "idle", iter |-> 0, want |-> 0, client |-> 0, old |-> {},
         token |-> 0]

(* fresh: younger than minAge;  usable: younger than maxAge *)
Entry == [client : Clients, age : {"fresh", "usable"}]
            \cup {[client |-> 0, age |-> "none"]}

NoEntry == [client |-> 0, age |-> "none"]
Fresh(c) == [client |-> c, age |-> "fresh"]

Cache == [registration : Entry, token : Entry]

Init ==
  /\ row = [c \in Clients |-> "none"]
  /\ holder = [client |-> 0, version |-> 0]
  /\ issued = 0
  /\ wanted = 1
  /\ ev = [e \in Evaluations |-> Idle]
  /\ cache = [p \in Processes |-> [registration |-> NoEntry, token |-> NoEntry]]
  /\ faults = 0

-----------------------------------------------------------------------------
At(e, pc) == ev[e].pc = pc

Set(e, local) == ev' = [ev EXCEPT ![e] = local]

GoTo(e, pc) == Set(e, [ev[e] EXCEPT !.pc = pc])

Mine(e) == cache[ProcessOf[e]]

CacheRegistration(e, c) ==
  cache' = [cache EXCEPT ![ProcessOf[e]].registration = Fresh(c)]

CacheToken(e, c) ==
  cache' = [cache EXCEPT ![ProcessOf[e]].token = Fresh(c)]

(* What has been cached is served while it is too fresh to update, and     *)
(* until it expires in the first iteration of a request.  Both entries are *)
(* in the last third of every cache trail, so that no later iteration uses *)
(* them, and the housekeeper ignores all caches.                           *)
Serves(e, entry) ==
  \/ entry.age = "fresh"
  \/ entry.age = "usable" /\ e \in Handlers /\ ev[e].iter = 0

(* The iteration has failed.  A request is healed; ignoreCache "all" leaves *)
(* the housekeeper one iteration.                                          *)
Fail(e) ==
  Set(e, IF e \in Handlers /\ ev[e].iter < MaxHealing
         THEN [Idle EXCEPT !.pc = "check", !.iter = ev[e].iter + 1]
         ELSE Idle)

(* CheckAndUpdateClientRegistration has its result, client c.  A request   *)
(* goes on to call the data holder as that client.                         *)
Obtained(e, c) ==
  Set(e, IF e \in Handlers
         THEN [Idle EXCEPT !.pc = "use", !.client = c, !.iter = ev[e].iter]
         ELSE Idle)

Current == {c \in Clients : row[c] = "CURRENT"}

-----------------------------------------------------------------------------
(* Mistakes the runs must notice.                                          *)

(* DhNewClientRegistration is evaluated whether there is one or not        *)
FindNone(e) ==
  /\ At(e, "find")
  /\ GoTo(e, "post")
  /\ UNCHANGED <<row, holder, issued, wanted, cache, faults>>

(* whatever the data holder has matches the expectation                    *)
AnythingMatches(e) ==
  /\ At(e, "get")
  /\ ev[e].token = ev[e].client
  /\ holder.client = ev[e].client
  /\ Obtained(e, ev[e].client)
  /\ CacheRegistration(e, ev[e].client)
  /\ UNCHANGED <<row, holder, issued, wanted, faults>>

(* an entry that has expired keeps its value                               *)
OlderKept(entry) ==
  [entry EXCEPT !.age = IF @ = "fresh" THEN "usable" ELSE "none"]

-----------------------------------------------------------------------------
(* A request arrives, or the interval of the housekeeper has passed.       *)
Start(e) ==
  /\ At(e, "idle")
  /\ GoTo(e, "check")
  /\ UNCHANGED <<row, holder, issued, wanted, cache, faults>>

(* The cached result is served, or what the gateway wants is read anew.    *)
Check(e) ==
  LET entry == Mine(e).registration IN
  /\ At(e, "check")
  /\ \/ Serves(e, entry) /\ Obtained(e, entry.client)
     \/ /\ ~Serves(e, entry)
        /\ Set(e, [ev[e] EXCEPT !.pc = "find", !.want = wanted])
  /\ UNCHANGED <<row, holder, issued, wanted, cache, faults>>

(* GetActiveRegistrationByIds throws when there is more than one; without  *)
(* any, DhNewClientRegistration is evaluated.                              *)
Find(e) ==
  /\ At(e, "find")
  /\ \/ Current = {} /\ GoTo(e, "post")
     \/ \E c \in Clients :
          /\ Current = {c}
          /\ Set(e, [ev[e] EXCEPT !.pc = "token", !.client = c])
     \/ Cardinality(Current) > 1 /\ Fail(e)
  /\ UNCHANGED <<row, holder, issued, wanted, cache, faults>>

-----------------------------------------------------------------------------
(* Registration of a new client.                                           *)

(* The data holder issues a client and deletes those before it.  Two       *)
(* evaluations can go on deleting each other's rows and registering again, *)
(* so that there is no end to it: beyond MaxClients it refuses.            *)
Register(e) ==
  /\ issued < MaxClients
  /\ issued' = issued + 1
  /\ holder' = [client |-> issued + 1, version |-> ev[e].want]

NewRegistrationAtDataholder(e) ==
  /\ At(e, "post")
  /\ \/ /\ Register(e)
        /\ Set(e, [ev[e] EXCEPT !.pc = "load", !.client = issued + 1])
     \/ /\ issued = MaxClients
        /\ Fail(e)
        /\ UNCHANGED <<holder, issued>>
  /\ UNCHANGED <<row, wanted, cache, faults>>

(* NewRegistration loads the rows of the product and the brand, whatever   *)
(* their status, ...                                                       *)
Load(e) ==
  LET rows == {c \in Clients : row[c] # "none"} IN
  /\ At(e, "load")
  /\ Set(e, [ev[e] EXCEPT !.old = rows,
                          !.pc = IF rows = {} THEN "insert" ELSE "delete"])
  /\ UNCHANGED <<row, holder, issued, wanted, cache, faults>>

(* ... saves each as DELETED ...                                           *)
MarkDeleted(e) ==
  /\ At(e, "delete")
  /\ \E c \in ev[e].old :
       LET rest == ev[e].old \ {c} IN
       /\ row' = [row EXCEPT ![c] = "DELETED"]
       /\ Set(e, [ev[e] EXCEPT !.old = rest,
                               !.pc = IF rest = {} THEN "insert" ELSE "delete"])
  /\ UNCHANGED <<holder, issued, wanted, cache, faults>>

(* ... and inserts the new one.                                            *)
Insert(e) ==
  /\ At(e, "insert")
  /\ row' = [row EXCEPT ![ev[e].client] = "CURRENT"]
  /\ GoTo(e, "token")
  /\ UNCHANGED <<holder, issued, wanted, cache, faults>>

-----------------------------------------------------------------------------
(* Comparison with the registration at the data holder, and its update.    *)

(* DhRegAccessToken: the data holder knows only its active client.         *)
GetToken(e) ==
  LET entry == Mine(e).token
      c == ev[e].client
  IN
  /\ At(e, "token")
  /\ \/ /\ Serves(e, entry)
        /\ Set(e, [ev[e] EXCEPT !.pc = "get", !.token = entry.client])
        /\ UNCHANGED cache
     \/ /\ ~Serves(e, entry)
        /\ holder.client = c
        /\ Set(e, [ev[e] EXCEPT !.pc = "get", !.token = c])
        /\ CacheToken(e, c)
     \/ /\ ~Serves(e, entry)
        /\ holder.client # c
        /\ Fail(e)
        /\ UNCHANGED cache
  /\ UNCHANGED <<row, holder, issued, wanted, faults>>

(* The data holder answers 403 when the token is not of the client that is *)
(* asked for and 401 when it does not know the client.                     *)
Readable(e) ==
  /\ ev[e].token = ev[e].client
  /\ holder.client = ev[e].client

(* DhRegistrationMatchesExpectation decides whether to update.             *)
CurrentRegistrationAtDataholder(e) ==
  /\ At(e, "get")
  /\ \/ /\ Readable(e)
        /\ holder.version = ev[e].want
        /\ Obtained(e, ev[e].client)
        /\ CacheRegistration(e, ev[e].client)
     \/ /\ Readable(e)
        /\ holder.version # ev[e].want
        /\ GoTo(e, "put")
        /\ UNCHANGED cache
     \/ /\ ~Readable(e)
        /\ Fail(e)
        /\ UNCHANGED cache
  /\ UNCHANGED <<row, holder, issued, wanted, faults>>

(* The data holder updates the client of the token.                        *)
Update(e) ==
  /\ holder.client = ev[e].token
  /\ holder' = [holder EXCEPT !.version = ev[e].want]

UpdateRegistrationAtDataholder(e) ==
  /\ At(e, "put")
  /\ \/ /\ Update(e)
        /\ Set(e, [ev[e] EXCEPT !.pc = "findUpdated", !.client = ev[e].token])
     \/ /\ holder.client # ev[e].token
        /\ Fail(e)
        /\ UNCHANGED holder
  /\ UNCHANGED <<row, issued, wanted, cache, faults>>

(* UpdateRegistration loads the CURRENT row of the client ...              *)
FindUpdated(e) ==
  /\ At(e, "findUpdated")
  /\ IF row[ev[e].client] = "CURRENT" THEN GoTo(e, "saveUpdated") ELSE Fail(e)
  /\ UNCHANGED <<row, holder, issued, wanted, cache, faults>>

(* ... and saves it as CURRENT.                                            *)
SaveUpdated(e) ==
  /\ At(e, "saveUpdated")
  /\ row' = [row EXCEPT ![ev[e].client] = "CURRENT"]
  /\ CacheRegistration(e, ev[e].client)
  /\ Obtained(e, ev[e].client)
  /\ UNCHANGED <<holder, issued, wanted, faults>>

(* The request calls the data holder, which knows only its active client.  *)
Use(e) ==
  /\ At(e, "use")
  /\ IF holder.client = ev[e].client THEN Set(e, Idle) ELSE Fail(e)
  /\ UNCHANGED <<row, holder, issued, wanted, cache, faults>>

-----------------------------------------------------------------------------
(* The world around.                                                       *)

(* The configuration or the metadata at the register changes.              *)
WantAnother ==
  /\ wanted < MaxVersion
  /\ wanted' = wanted + 1
  /\ UNCHANGED <<row, holder, issued, ev, cache, faults>>

Older(entry) == IF entry.age = "fresh" THEN [entry EXCEPT !.age = "usable"]
                                       ELSE NoEntry

AgeRegistration(p) ==
  /\ cache[p].registration # NoEntry
  /\ cache' = [cache EXCEPT ![p].registration = Older(@)]
  /\ UNCHANGED <<row, holder, issued, wanted, ev, faults>>

AgeToken(p) ==
  /\ cache[p].token # NoEntry
  /\ cache' = [cache EXCEPT ![p].token = Older(@)]
  /\ UNCHANGED <<row, holder, issued, wanted, ev, faults>>

-----------------------------------------------------------------------------
(* What can go wrong, at most MaxFaults times.                             *)

Fault == faults < MaxFaults /\ faults' = faults + 1

(* A call or a statement fails without effect.                             *)
StepFails(e) ==
  /\ ev[e].pc \notin {"idle", "check"}
  /\ Fault
  /\ Fail(e)
  /\ UNCHANGED <<row, holder, issued, wanted, cache>>

(* The data holder has acted and the answer is lost.                       *)
AnswerLost(e) ==
  /\ \/ At(e, "post") /\ Register(e)
     \/ At(e, "put") /\ Update(e) /\ UNCHANGED issued
  /\ Fault
  /\ Fail(e)
  /\ UNCHANGED <<row, wanted, cache>>

ProcessStops(p) ==
  /\ Fault
  /\ \E e \in Evaluations : ProcessOf[e] = p /\ ~At(e, "idle")
  /\ ev' = [e \in Evaluations |-> IF ProcessOf[e] = p THEN Idle ELSE ev[e]]
  /\ cache' = [cache EXCEPT ![p] = [registration |-> NoEntry, token |-> NoEntry]]
  /\ UNCHANGED <<row, holder, issued, wanted>>

-----------------------------------------------------------------------------
Work(e) ==
  \/ Check(e) \/ Find(e)
  \/ NewRegistrationAtDataholder(e) \/ Load(e) \/ MarkDeleted(e) \/ Insert(e)
  \/ GetToken(e) \/ CurrentRegistrationAtDataholder(e)
  \/ UpdateRegistrationAtDataholder(e) \/ FindUpdated(e) \/ SaveUpdated(e)
  \/ Use(e)

Next ==
  \/ \E e \in Evaluations : Start(e) \/ Work(e)
  \/ \E e \in Evaluations : StepFails(e) \/ AnswerLost(e)
  \/ \E p \in Processes : AgeRegistration(p) \/ AgeToken(p) \/ ProcessStops(p)
  \/ WantAnother

Spec == Init /\ [][Next]_vars

(* Calls are answered or time out and the event loop resumes evaluations,  *)
(* OnInterval starts the housekeeper's again and again, and what is cached *)
(* gets older.  No request is bound to arrive.                             *)
FairSpec ==
  /\ Spec
  /\ \A e \in Evaluations : WF_vars(Work(e))
  /\ WF_vars(Start(Housekeeper))
  /\ \A p \in Processes : WF_vars(AgeRegistration(p)) /\ WF_vars(AgeToken(p))

-----------------------------------------------------------------------------
(* Every variable has the shape the code gives it. *)
TypeOK ==
  /\ row \in [Clients -> {"none", "CURRENT", "DELETED"}]
  /\ holder \in [client : Clients \cup {0}, version : Versions \cup {0}]
  /\ issued \in 0 .. MaxClients
  /\ wanted \in Versions
  /\ ev \in [Evaluations -> Local]
  /\ cache \in [Processes -> Cache]
  /\ faults \in Nat

Bootstrapping == {"post", "load", "delete", "insert"}

(* The data holder knows the one client the table has, and nobody works on *)
(* another.                                                                *)
Settled(c) ==
  /\ Current = {c}
  /\ holder.client = c
  /\ \A e \in Evaluations :
       /\ ev[e].pc \notin Bootstrapping
       /\ ev[e].pc \in {"findUpdated", "saveUpdated"} => ev[e].client = c

(* A registration that has been settled stays: whatever tokens of former   *)
(* clients are cached and whatever calls are lost, no evaluation registers *)
(* again, brings a former row back or deletes this one                     *)
(* (CheckAndUpdateClientRegistration).                                     *)
RegistrationSettles == [][\A c \in Clients : Settled(c) => Settled(c)']_vars

(* While evaluations do not overlap, a CURRENT row is the only one and the *)
(* data holder knows its client, also after a registration whose answer or *)
(* whose row was lost (NewRegistration).  For runs with no handlers.       *)
CurrentIsActive == \A c \in Clients : row[c] = "CURRENT" => holder.client = c

(* The assertion in GetActiveRegistrationByIds: 'Too many active           *)
(* registrations for this software product.  Expected exactly 1.'          *)
AtMostOneCurrent == Cardinality(Current) <= 1

(* Once the gateway has stopped changing what it wants, a settled          *)
(* registration comes to be as wanted and stays so, although tokens and    *)
(* results are cached and evaluations that began with an older version     *)
(* still update (DynamicClientRegistration of the housekeeper).            *)
EventuallyUpToDate ==
  <>[](\A c \in Clients : Settled(c) => holder.version = wanted)
=============================================================================
