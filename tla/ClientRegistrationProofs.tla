---------------------- MODULE ClientRegistrationProofs ----------------------
(***************************************************************************)
(* Theorems about ClientRegistration, for any number of requests in any    *)
(* number of processes.                                                    *)
(***************************************************************************)
EXTENDS ClientRegistration, TLAPS

(* An evaluation that has passed the search for a registration works on a  *)
(* client, and one that uses a token has one.                              *)
WorkingOnClient(l) ==
  /\ l.pc \in {"load", "delete", "insert", "token", "get", "put",
               "findUpdated", "saveUpdated"} => l.client \in Clients
  /\ l.pc \in {"get", "put"} => l.token \in Clients

IInv == TypeOK /\ \A e \in Evaluations : WorkingOnClient(ev[e])

(* What an evaluation may hold. *)
GoodLocal == {l \in Local : WorkingOnClient(l)}

-----------------------------------------------------------------------------
LEMMA IdleGood == Idle \in GoodLocal
BY DEF Idle, GoodLocal, Local, WorkingOnClient, PCs

(* Setting the local state of an evaluation to a good one keeps the part   *)
(* of the invariant that speaks of evaluations.                            *)
LEMMA SetKeeps ==
  ASSUME IInv, NEW e \in Evaluations, NEW l \in GoodLocal, Set(e, l)
  PROVE  /\ ev' \in [Evaluations -> Local]
         /\ \A f \in Evaluations : WorkingOnClient(ev'[f])
BY DEF IInv, TypeOK, Set, GoodLocal

LEMMA FailKeeps ==
  ASSUME IInv, NEW e \in Evaluations, Fail(e)
  PROVE  /\ ev' \in [Evaluations -> Local]
         /\ \A f \in Evaluations : WorkingOnClient(ev'[f])
<1> DEFINE l == IF e \in Handlers /\ ev[e].iter < MaxHealing
                THEN [Idle EXCEPT !.pc = "check", !.iter = ev[e].iter + 1]
                ELSE Idle
<1>1. ev[e].iter \in Nat
  BY DEF IInv, TypeOK, Local
<1>2. l \in GoodLocal
  <2>1. \A n \in Nat : [Idle EXCEPT !.pc = "check", !.iter = n] \in GoodLocal
    BY DEF Idle, GoodLocal, Local, WorkingOnClient, PCs
  <2>2. ev[e].iter + 1 \in Nat
    BY <1>1
  <2>3. [Idle EXCEPT !.pc = "check", !.iter = ev[e].iter + 1] \in GoodLocal
    BY <2>1, <2>2
  <2> QED
    BY <2>3, IdleGood
<1>3. Set(e, l)
  BY DEF Fail
<1> QED
  BY <1>2, <1>3, SetKeeps

LEMMA ObtainedKeeps ==
  ASSUME IInv, NEW e \in Evaluations, NEW c \in Clients, Obtained(e, c)
  PROVE  /\ ev' \in [Evaluations -> Local]
         /\ \A f \in Evaluations : WorkingOnClient(ev'[f])
<1> DEFINE l == IF e \in Handlers
                THEN [Idle EXCEPT !.pc = "use", !.client = c, !.iter = ev[e].iter]
                ELSE Idle
<1>1. ev[e].iter \in Nat
  BY DEF IInv, TypeOK, Local
<1>2. l \in GoodLocal
  <2>1. \A n \in Nat :
          [Idle EXCEPT !.pc = "use", !.client = c, !.iter = n] \in GoodLocal
    BY DEF Idle, GoodLocal, Local, WorkingOnClient, PCs
  <2> QED
    BY <1>1, <2>1, IdleGood
<1>3. Set(e, l)
  BY DEF Obtained
<1> QED
  BY <1>2, <1>3, SetKeeps

(* What is cached can be served only if it is the client of an evaluation. *)
LEMMA ServedIsClient ==
  ASSUME IInv, NEW e \in Evaluations
  PROVE  /\ Serves(e, Mine(e).registration) => Mine(e).registration.client \in Clients
         /\ Serves(e, Mine(e).token) => Mine(e).token.client \in Clients
<1>1. ProcessOf[e] \in Processes
  BY ProcessAssumption DEF Evaluations
<1>2. Mine(e) \in Cache
  BY <1>1 DEF IInv, TypeOK, Mine
<1>3. Mine(e).registration \in Entry /\ Mine(e).token \in Entry
  BY <1>2 DEF Cache
<1>4. \A x \in Entry : x.age # "none" => x.client \in Clients
  BY DEF Entry
<1> QED
  BY <1>3, <1>4 DEF Serves

LEMMA CacheKeeps ==
  ASSUME IInv, NEW e \in Evaluations, NEW c \in Clients,
         \/ CacheRegistration(e, c)
         \/ CacheToken(e, c)
         \/ UNCHANGED cache
  PROVE  cache' \in [Processes -> Cache]
<1>1. ProcessOf[e] \in Processes
  BY ProcessAssumption DEF Evaluations
<1>2. cache \in [Processes -> Cache]
  BY DEF IInv, TypeOK
<1>3. Fresh(c) \in Entry
  BY DEF Fresh, Entry
<1> QED
  BY <1>1, <1>2, <1>3 DEF CacheRegistration, CacheToken, Cache

-----------------------------------------------------------------------------
LEMMA InitIInv == Init => IInv
<1> SUFFICES ASSUME Init PROVE IInv
  OBVIOUS
<1>1. NoEntry \in Entry
  BY DEF NoEntry, Entry
<1>2. cache \in [Processes -> Cache]
  BY <1>1 DEF Init, Cache
<1>3. ev \in [Evaluations -> Local] /\ \A e \in Evaluations : WorkingOnClient(ev[e])
  BY IdleGood DEF Init, GoodLocal
<1> QED
  BY <1>2, <1>3, NumberAssumption DEF Init, IInv, TypeOK, Versions

LEMMA WorkKeeps ==
  ASSUME IInv, NEW e \in Evaluations, Start(e) \/ Work(e)
  PROVE  IInv'
<1> DEFINE EvGood == /\ ev' \in [Evaluations -> Local]
                     /\ \A f \in Evaluations : WorkingOnClient(ev'[f])
<1> USE NumberAssumption
<1>0. /\ TypeOK
      /\ ev[e] \in Local
      /\ WorkingOnClient(ev[e])
  BY DEF IInv, TypeOK
<1>1. CASE Start(e)
  <2>1. [ev[e] EXCEPT !.pc = "check"] \in GoodLocal
    BY <1>0 DEF GoodLocal, Local, WorkingOnClient, PCs
  <2>2. EvGood
    BY <1>1, <2>1, SetKeeps DEF Start, GoTo
  <2> QED
    BY <1>0, <1>1, <2>2 DEF Start, IInv, TypeOK
<1>2. CASE Check(e)
  <2>1. [ev[e] EXCEPT !.pc = "find", !.want = wanted] \in GoodLocal
    BY <1>0 DEF GoodLocal, Local, WorkingOnClient, PCs, TypeOK
  <2>2. CASE Serves(e, Mine(e).registration)
    BY <1>2, <2>2, ServedIsClient, ObtainedKeeps, <1>0 DEF Check, IInv, TypeOK
  <2>3. CASE ~Serves(e, Mine(e).registration)
    BY <1>2, <2>1, <2>3, SetKeeps, <1>0 DEF Check, IInv, TypeOK
  <2> QED
    BY <2>2, <2>3
<1>3. CASE Find(e)
  <2>1. [ev[e] EXCEPT !.pc = "post"] \in GoodLocal
    BY <1>0 DEF GoodLocal, Local, WorkingOnClient, PCs
  <2>2. \A c \in Clients : [ev[e] EXCEPT !.pc = "token", !.client = c] \in GoodLocal
    BY <1>0 DEF GoodLocal, Local, WorkingOnClient, PCs
  <2>3. EvGood
    <3>1. CASE GoTo(e, "post")
      BY <3>1, <2>1, SetKeeps DEF GoTo
    <3>2. CASE \E c \in Clients : Set(e, [ev[e] EXCEPT !.pc = "token", !.client = c])
      BY <3>2, <2>2, SetKeeps
    <3>3. CASE Fail(e)
      BY <3>3, FailKeeps
    <3> QED
      BY <1>3, <3>1, <3>2, <3>3 DEF Find
  <2> QED
    BY <1>0, <1>3, <2>3 DEF Find, IInv, TypeOK
<1>4. CASE NewRegistrationAtDataholder(e)
  <2>1. CASE Register(e) /\ Set(e, [ev[e] EXCEPT !.pc = "load", !.client = issued + 1])
    <3>1. issued + 1 \in Clients /\ issued' \in 0 .. MaxClients
      BY <1>0, <2>1 DEF TypeOK, Clients, Register
    <3>2. holder' \in [client : Clients \cup {0}, version : Versions \cup {0}]
      BY <1>0, <2>1, <3>1 DEF Register, Local
    <3>3. [ev[e] EXCEPT !.pc = "load", !.client = issued + 1] \in GoodLocal
      BY <1>0, <3>1 DEF GoodLocal, Local, WorkingOnClient, PCs
    <3>4. EvGood
      BY <2>1, <3>3, SetKeeps
    <3> QED
      BY <1>0, <1>4, <3>1, <3>2, <3>4 DEF NewRegistrationAtDataholder, IInv, TypeOK
  <2>2. CASE Fail(e) /\ UNCHANGED <<holder, issued>>
    BY <1>0, <1>4, <2>2, FailKeeps DEF NewRegistrationAtDataholder, IInv, TypeOK
  <2> QED
    BY <1>4, <2>1, <2>2 DEF NewRegistrationAtDataholder
<1>5. CASE Load(e)
  <2> DEFINE rows == {c \in Clients : row[c] # "none"}
             l == [ev[e] EXCEPT !.old = rows,
                                !.pc = IF rows = {} THEN "insert" ELSE "delete"]
  <2>1. l \in GoodLocal
    BY <1>0, <1>5 DEF GoodLocal, Local, WorkingOnClient, PCs, Load, At
  <2>2. EvGood
    BY <1>5, <2>1, SetKeeps DEF Load
  <2> QED
    BY <1>0, <1>5, <2>2 DEF Load, IInv, TypeOK
<1>6. CASE MarkDeleted(e)
  <2>1. PICK c \in ev[e].old :
          /\ row' = [row EXCEPT ![c] = "DELETED"]
          /\ Set(e, [ev[e] EXCEPT !.old = @ \ {c},
                       !.pc = IF ev[e].old \ {c} = {} THEN "insert" ELSE "delete"])
    BY <1>6 DEF MarkDeleted
  <2>2. [ev[e] EXCEPT !.old = @ \ {c},
           !.pc = IF ev[e].old \ {c} = {} THEN "insert" ELSE "delete"] \in GoodLocal
    BY <1>0, <1>6 DEF GoodLocal, Local, WorkingOnClient, PCs, MarkDeleted, At
  <2>3. EvGood
    BY <2>1, <2>2, SetKeeps
  <2> QED
    BY <1>0, <1>6, <2>1, <2>3 DEF MarkDeleted, IInv, TypeOK
<1>7. CASE Insert(e)
  <2>1. [ev[e] EXCEPT !.pc = "token"] \in GoodLocal
    BY <1>0, <1>7 DEF GoodLocal, Local, WorkingOnClient, PCs, Insert, At
  <2>2. EvGood
    BY <1>7, <2>1, SetKeeps DEF Insert, GoTo
  <2> QED
    BY <1>0, <1>7, <2>2 DEF Insert, IInv, TypeOK
<1>8. CASE GetToken(e)
  <2>1. ev[e].client \in Clients
    BY <1>0, <1>8 DEF GetToken, At, WorkingOnClient
  <2>2. \A t \in Clients : [ev[e] EXCEPT !.pc = "get", !.token = t] \in GoodLocal
    BY <1>0, <2>1 DEF GoodLocal, Local, WorkingOnClient, PCs
  <2>3. EvGood
    <3>1. CASE /\ Serves(e, Mine(e).token)
               /\ Set(e, [ev[e] EXCEPT !.pc = "get", !.token = Mine(e).token.client])
      BY <3>1, <2>2, ServedIsClient, SetKeeps
    <3>2. CASE Set(e, [ev[e] EXCEPT !.pc = "get", !.token = ev[e].client])
      BY <3>2, <2>1, <2>2, SetKeeps
    <3>3. CASE Fail(e)
      BY <3>3, FailKeeps
    <3> QED
      BY <1>8, <3>1, <3>2, <3>3 DEF GetToken
  <2>4. cache' \in [Processes -> Cache]
    BY <1>8, <2>1, CacheKeeps DEF GetToken
  <2> QED
    BY <1>0, <1>8, <2>3, <2>4 DEF GetToken, IInv, TypeOK
<1>9. CASE CurrentRegistrationAtDataholder(e)
  <2>1. ev[e].client \in Clients
    BY <1>0, <1>9 DEF CurrentRegistrationAtDataholder, At, WorkingOnClient
  <2>2. [ev[e] EXCEPT !.pc = "put"] \in GoodLocal
    BY <1>0, <1>9 DEF CurrentRegistrationAtDataholder, At, GoodLocal, Local, WorkingOnClient, PCs
  <2>3. EvGood
    <3>1. CASE Obtained(e, ev[e].client)
      BY <3>1, <2>1, ObtainedKeeps
    <3>2. CASE GoTo(e, "put")
      BY <3>2, <2>2, SetKeeps DEF GoTo
    <3>3. CASE Fail(e)
      BY <3>3, FailKeeps
    <3> QED
      BY <1>9, <3>1, <3>2, <3>3 DEF CurrentRegistrationAtDataholder
  <2>4. cache' \in [Processes -> Cache]
    BY <1>9, <2>1, CacheKeeps DEF CurrentRegistrationAtDataholder
  <2> QED
    BY <1>0, <1>9, <2>3, <2>4 DEF CurrentRegistrationAtDataholder, IInv, TypeOK
<1>10. CASE UpdateRegistrationAtDataholder(e)
  <2>1. ev[e].token \in Clients
    BY <1>0, <1>10 DEF UpdateRegistrationAtDataholder, At, WorkingOnClient
  <2>2. [ev[e] EXCEPT !.pc = "findUpdated", !.client = ev[e].token] \in GoodLocal
    BY <1>0, <2>1 DEF GoodLocal, Local, WorkingOnClient, PCs
  <2>3. EvGood
    <3>1. CASE Set(e, [ev[e] EXCEPT !.pc = "findUpdated", !.client = ev[e].token])
      BY <3>1, <2>2, SetKeeps
    <3>2. CASE Fail(e)
      BY <3>2, FailKeeps
    <3> QED
      BY <1>10, <3>1, <3>2 DEF UpdateRegistrationAtDataholder
  <2>4. holder' \in [client : Clients \cup {0}, version : Versions \cup {0}]
    BY <1>0, <1>10 DEF UpdateRegistrationAtDataholder, Update, TypeOK, Local
  <2> QED
    BY <1>0, <1>10, <2>3, <2>4 DEF UpdateRegistrationAtDataholder, IInv, TypeOK
<1>11. CASE FindUpdated(e)
  <2>1. [ev[e] EXCEPT !.pc = "saveUpdated"] \in GoodLocal
    BY <1>0, <1>11 DEF FindUpdated, At, GoodLocal, Local, WorkingOnClient, PCs
  <2>2. EvGood
    <3>1. CASE GoTo(e, "saveUpdated")
      BY <3>1, <2>1, SetKeeps DEF GoTo
    <3>2. CASE Fail(e)
      BY <3>2, FailKeeps
    <3> QED
      BY <1>11, <3>1, <3>2 DEF FindUpdated
  <2> QED
    BY <1>0, <1>11, <2>2 DEF FindUpdated, IInv, TypeOK
<1>12. CASE SaveUpdated(e)
  <2>1. ev[e].client \in Clients
    BY <1>0, <1>12 DEF SaveUpdated, At, WorkingOnClient
  <2>2. EvGood /\ cache' \in [Processes -> Cache]
    BY <1>12, <2>1, ObtainedKeeps, CacheKeeps DEF SaveUpdated
  <2> QED
    BY <1>0, <1>12, <2>2 DEF SaveUpdated, IInv, TypeOK
<1>13. CASE Use(e)
  <2>1. EvGood
    BY <1>13, IdleGood, SetKeeps, FailKeeps DEF Use
  <2> QED
    BY <1>0, <1>13, <2>1 DEF Use, IInv, TypeOK
<1> QED
  BY <1>1, <1>2, <1>3, <1>4, <1>5, <1>6, <1>7, <1>8, <1>9, <1>10, <1>11,
     <1>12, <1>13 DEF Work

LEMMA FailureKeeps ==
  ASSUME IInv, NEW e \in Evaluations, StepFails(e) \/ AnswerLost(e)
  PROVE  IInv'
<1> USE NumberAssumption
<1>0. TypeOK /\ ev[e] \in Local
  BY DEF IInv, TypeOK
<1>1. /\ ev' \in [Evaluations -> Local]
      /\ \A f \in Evaluations : WorkingOnClient(ev'[f])
  BY FailKeeps DEF StepFails, AnswerLost
<1>2. faults' \in Nat
  BY <1>0 DEF TypeOK, Fault, StepFails, AnswerLost
<1>3. CASE StepFails(e)
  BY <1>0, <1>1, <1>2, <1>3 DEF StepFails, IInv, TypeOK
<1>4. CASE AnswerLost(e)
  <2>1. issued' \in 0 .. MaxClients
    BY <1>0, <1>4 DEF TypeOK, AnswerLost, Register
  <2>2. holder' \in [client : Clients \cup {0}, version : Versions \cup {0}]
    <3>1. CASE Register(e)
      <4>1. issued + 1 \in Clients
        BY <1>0, <3>1 DEF TypeOK, Clients, Register
      <4> QED
        BY <1>0, <3>1, <4>1 DEF Register, Local
    <3>2. CASE Update(e)
      BY <1>0, <3>2 DEF Update, TypeOK, Local
    <3> QED
      BY <1>4, <3>1, <3>2 DEF AnswerLost
  <2> QED
    BY <1>0, <1>1, <1>2, <1>4, <2>1, <2>2 DEF AnswerLost, IInv, TypeOK
<1> QED
  BY <1>3, <1>4

LEMMA WorldKeeps ==
  ASSUME IInv,
         \/ \E p \in Processes : AgeRegistration(p) \/ AgeToken(p) \/ ProcessStops(p)
         \/ WantAnother
  PROVE  IInv'
<1> USE NumberAssumption
<1>0. TypeOK
  BY DEF IInv
<1>1. NoEntry \in Entry /\ \A x \in Entry : Older(x) \in Entry
  BY DEF NoEntry, Entry, Older
<1>2. ASSUME NEW p \in Processes, AgeRegistration(p)
      PROVE  IInv'
  <2>1. Older(cache[p].registration) \in Entry
    BY <1>0, <1>1 DEF TypeOK, Cache
  <2>2. cache' \in [Processes -> Cache]
    BY <1>0, <1>2, <2>1 DEF AgeRegistration, TypeOK, Cache
  <2> QED
    BY <1>0, <1>2, <2>2 DEF AgeRegistration, IInv, TypeOK
<1>3. ASSUME NEW p \in Processes, AgeToken(p)
      PROVE  IInv'
  <2>1. Older(cache[p].token) \in Entry
    BY <1>0, <1>1 DEF TypeOK, Cache
  <2>2. cache' \in [Processes -> Cache]
    BY <1>0, <1>3, <2>1 DEF AgeToken, TypeOK, Cache
  <2> QED
    BY <1>0, <1>3, <2>2 DEF AgeToken, IInv, TypeOK
<1>4. ASSUME NEW p \in Processes, ProcessStops(p)
      PROVE  IInv'
  <2>1. /\ ev' \in [Evaluations -> Local]
        /\ \A f \in Evaluations : WorkingOnClient(ev'[f])
    BY <1>0, <1>4, IdleGood DEF ProcessStops, IInv, TypeOK, GoodLocal
  <2>2. cache' \in [Processes -> Cache]
    BY <1>0, <1>1, <1>4 DEF ProcessStops, TypeOK, Cache
  <2> QED
    BY <1>0, <1>4, <2>1, <2>2 DEF ProcessStops, Fault, IInv, TypeOK
<1>5. CASE WantAnother
  <2>1. wanted' \in Versions
    BY <1>0, <1>5 DEF WantAnother, TypeOK, Versions
  <2> QED
    BY <1>0, <1>5, <2>1 DEF WantAnother, IInv, TypeOK
<1> QED
  BY <1>2, <1>3, <1>4, <1>5

LEMMA NextIInv ==
  ASSUME IInv, [Next]_vars
  PROVE  IInv'
<1>1. CASE UNCHANGED vars
  BY <1>1 DEF vars, IInv, TypeOK
<1>2. CASE Next
  BY <1>2, WorkKeeps, FailureKeeps, WorldKeeps DEF Next
<1> QED
  BY <1>1, <1>2

(* The table, the caches, the data holder and the evaluations keep their   *)
(* types, and an evaluation past the search works on a client that was     *)
(* issued (CheckAndUpdateClientRegistration).                              *)
THEOREM TypeCorrect == Spec => []TypeOK
<1>1. IInv => TypeOK
  BY DEF IInv
<1> QED
  BY <1>1, InitIInv, NextIInv, PTL DEF Spec

THEOREM Invariance == Spec => []IInv
  BY InitIInv, NextIInv, PTL DEF Spec

-----------------------------------------------------------------------------
(* What an evaluation may go on with while c is settled. *)
Harmless(l, c) ==
  /\ l.pc \notin Bootstrapping
  /\ l.pc \in {"findUpdated", "saveUpdated"} => l.client = c

(* A step that leaves the table and the data holder's client as they are   *)
(* and moves evaluations to harmless places keeps c settled.               *)
LEMMA HarmlessSettles ==
  ASSUME IInv, NEW c \in Clients, Settled(c),
         row' = row, holder'.client = holder.client,
         \A e \in Evaluations : ev'[e] = ev[e] \/ Harmless(ev'[e], c)
  PROVE  Settled(c)'
<1>1. Current' = Current
  BY DEF Current
<1>2. \A e \in Evaluations : Harmless(ev'[e], c)
  BY DEF Settled, Harmless
<1> QED
  BY <1>1, <1>2 DEF Settled, Harmless

LEMMA SetHarmless ==
  ASSUME IInv, NEW e \in Evaluations, NEW l, NEW c, Set(e, l), Harmless(l, c)
  PROVE  \A f \in Evaluations : ev'[f] = ev[f] \/ Harmless(ev'[f], c)
BY DEF IInv, TypeOK, Set

LEMMA FailHarmless ==
  ASSUME IInv, NEW e \in Evaluations, NEW c, Fail(e)
  PROVE  \A f \in Evaluations : ev'[f] = ev[f] \/ Harmless(ev'[f], c)
<1> DEFINE l == IF e \in Handlers /\ ev[e].iter < MaxHealing
                THEN [Idle EXCEPT !.pc = "check", !.iter = ev[e].iter + 1]
                ELSE Idle
<1>1. Harmless(l, c)
  BY DEF Harmless, Idle, Bootstrapping
<1> QED
  BY <1>1, SetHarmless DEF Fail

LEMMA ObtainedHarmless ==
  ASSUME IInv, NEW e \in Evaluations, NEW c, NEW d, Obtained(e, d)
  PROVE  \A f \in Evaluations : ev'[f] = ev[f] \/ Harmless(ev'[f], c)
<1> DEFINE l == IF e \in Handlers
                THEN [Idle EXCEPT !.pc = "use", !.client = d, !.iter = ev[e].iter]
                ELSE Idle
<1>1. Harmless(l, c)
  BY DEF Harmless, Idle, Bootstrapping
<1> QED
  BY <1>1, SetHarmless DEF Obtained

LEMMA WorkSettles ==
  ASSUME IInv, NEW c \in Clients, Settled(c),
         NEW e \in Evaluations, Start(e) \/ Work(e)
  PROVE  Settled(c)'
<1> DEFINE EvHarmless == \A f \in Evaluations : ev'[f] = ev[f] \/ Harmless(ev'[f], c)
<1>0. ev[e] \in Local /\ Harmless(ev[e], c) /\ holder.client = c /\ Current = {c}
  BY DEF IInv, TypeOK, Settled, Harmless
<1>1. CASE Start(e)
  <2>1. Harmless([ev[e] EXCEPT !.pc = "check"], c)
    BY <1>0 DEF Harmless, Bootstrapping, Local
  <2> QED
    BY <1>1, <2>1, SetHarmless, HarmlessSettles DEF Start, GoTo
<1>2. CASE Check(e)
  <2>1. Harmless([ev[e] EXCEPT !.pc = "find", !.want = wanted], c)
    BY <1>0 DEF Harmless, Bootstrapping, Local
  <2>2. EvHarmless
    BY <1>2, <2>1, SetHarmless, ObtainedHarmless DEF Check
  <2> QED
    BY <1>2, <2>2, HarmlessSettles DEF Check
<1>3. CASE Find(e)
  <2>1. \A d \in Clients : Harmless([ev[e] EXCEPT !.pc = "token", !.client = d], c)
    BY <1>0 DEF Harmless, Bootstrapping, Local
  <2>2. Current # {}
    BY <1>0
  <2>3. EvHarmless
    <3>1. CASE \E d \in Clients : Set(e, [ev[e] EXCEPT !.pc = "token", !.client = d])
      BY <3>1, <2>1, SetHarmless
    <3>2. CASE Fail(e)
      BY <3>2, FailHarmless
    <3> QED
      BY <1>3, <2>2, <3>1, <3>2 DEF Find
  <2> QED
    BY <1>3, <2>3, HarmlessSettles DEF Find
<1>4. CASE NewRegistrationAtDataholder(e) \/ Load(e) \/ MarkDeleted(e) \/ Insert(e)
  BY <1>0, <1>4 DEF NewRegistrationAtDataholder, Load, MarkDeleted, Insert, At,
                    Harmless, Bootstrapping
<1>5. CASE GetToken(e)
  <2>1. \A t : Harmless([ev[e] EXCEPT !.pc = "get", !.token = t], c)
    BY <1>0 DEF Harmless, Bootstrapping, Local
  <2>2. EvHarmless
    <3>1. CASE \E t : Set(e, [ev[e] EXCEPT !.pc = "get", !.token = t])
      BY <3>1, <2>1, SetHarmless
    <3>2. CASE Fail(e)
      BY <3>2, FailHarmless
    <3> QED
      BY <1>5, <3>1, <3>2 DEF GetToken
  <2> QED
    BY <1>5, <2>2, HarmlessSettles DEF GetToken
<1>6. CASE CurrentRegistrationAtDataholder(e)
  <2>1. Harmless([ev[e] EXCEPT !.pc = "put"], c)
    BY <1>0 DEF Harmless, Bootstrapping, Local
  <2>2. EvHarmless
    <3>1. CASE Obtained(e, ev[e].client)
      BY <3>1, ObtainedHarmless
    <3>2. CASE GoTo(e, "put")
      BY <3>2, <2>1, SetHarmless DEF GoTo
    <3>3. CASE Fail(e)
      BY <3>3, FailHarmless
    <3> QED
      BY <1>6, <3>1, <3>2, <3>3 DEF CurrentRegistrationAtDataholder
  <2> QED
    BY <1>6, <2>2, HarmlessSettles DEF CurrentRegistrationAtDataholder
<1>7. CASE UpdateRegistrationAtDataholder(e)
  \* an update succeeds only with a token of the client the holder knows: c
  <2>1. CASE Update(e) /\ Set(e, [ev[e] EXCEPT !.pc = "findUpdated", !.client = ev[e].token])
    <3>1. ev[e].token = c
      BY <1>0, <2>1 DEF Update
    <3>2. Harmless([ev[e] EXCEPT !.pc = "findUpdated", !.client = ev[e].token], c)
      BY <1>0, <3>1 DEF Harmless, Bootstrapping, Local
    <3>3. holder'.client = holder.client
      BY <2>1 DEF Update, IInv, TypeOK
    <3> QED
      BY <1>7, <2>1, <3>2, <3>3, SetHarmless, HarmlessSettles
         DEF UpdateRegistrationAtDataholder
  <2>2. CASE Fail(e) /\ UNCHANGED holder
    BY <1>7, <2>2, FailHarmless, HarmlessSettles DEF UpdateRegistrationAtDataholder
  <2> QED
    BY <1>7, <2>1, <2>2 DEF UpdateRegistrationAtDataholder
<1>8. CASE FindUpdated(e)
  <2>1. Harmless([ev[e] EXCEPT !.pc = "saveUpdated"], c)
    BY <1>0, <1>8 DEF FindUpdated, At, Harmless, Bootstrapping, Local
  <2>2. EvHarmless
    BY <1>8, <2>1, SetHarmless, FailHarmless DEF FindUpdated, GoTo
  <2> QED
    BY <1>8, <2>2, HarmlessSettles DEF FindUpdated
<1>9. CASE SaveUpdated(e)
  \* the row that is saved as CURRENT is the one that is CURRENT
  <2>1. ev[e].client = c
    BY <1>0, <1>9 DEF SaveUpdated, At, Harmless
  <2>2. row[c] = "CURRENT"
    BY <1>0 DEF Current
  <2>3. row' = row
    BY <1>9, <2>1, <2>2 DEF SaveUpdated, IInv, TypeOK
  <2> QED
    BY <1>9, <2>3, ObtainedHarmless, HarmlessSettles DEF SaveUpdated
<1>10. CASE Use(e)
  <2>1. Harmless(Idle, c)
    BY DEF Harmless, Idle, Bootstrapping
  <2>2. EvHarmless
    BY <1>10, <2>1, SetHarmless, FailHarmless DEF Use
  <2> QED
    BY <1>10, <2>2, HarmlessSettles DEF Use
<1> QED
  BY <1>1, <1>2, <1>3, <1>4, <1>5, <1>6, <1>7, <1>8, <1>9, <1>10 DEF Work

LEMMA OthersSettle ==
  ASSUME IInv, NEW c \in Clients, Settled(c),
         \/ \E e \in Evaluations : StepFails(e) \/ AnswerLost(e)
         \/ \E p \in Processes : AgeRegistration(p) \/ AgeToken(p) \/ ProcessStops(p)
         \/ WantAnother
         \/ UNCHANGED vars
  PROVE  Settled(c)'
<1>0. holder.client = c
  BY DEF Settled
<1>1. ASSUME NEW e \in Evaluations, StepFails(e)
      PROVE  Settled(c)'
  BY <1>1, FailHarmless, HarmlessSettles DEF StepFails
<1>2. ASSUME NEW e \in Evaluations, AnswerLost(e)
      PROVE  Settled(c)'
  <2>1. ~At(e, "post")
    BY DEF Settled, At, Bootstrapping
  <2>2. Update(e) /\ Fail(e) /\ row' = row
    BY <1>2, <2>1 DEF AnswerLost
  <2>3. holder'.client = holder.client
    BY <2>2 DEF Update, IInv, TypeOK
  <2> QED
    BY <2>2, <2>3, FailHarmless, HarmlessSettles
<1>3. ASSUME NEW p \in Processes, ProcessStops(p)
      PROVE  Settled(c)'
  <2>1. Harmless(Idle, c)
    BY DEF Harmless, Idle, Bootstrapping
  <2>2. \A f \in Evaluations : ev'[f] = ev[f] \/ Harmless(ev'[f], c)
    BY <1>3, <2>1 DEF ProcessStops
  <2> QED
    BY <1>3, <2>2, HarmlessSettles DEF ProcessStops
<1>4. CASE \/ \E p \in Processes : AgeRegistration(p) \/ AgeToken(p)
           \/ WantAnother
           \/ UNCHANGED vars
  <2>1. row' = row /\ holder' = holder /\ ev' = ev
    BY <1>4 DEF AgeRegistration, AgeToken, WantAnother, vars
  <2> QED
    BY <2>1, HarmlessSettles
<1> QED
  BY <1>1, <1>2, <1>3, <1>4

(* A registration that has settled stays, for any number of evaluations in *)
(* any number of processes, whatever is cached and lost: an update can     *)
(* only be one of the client the data holder knows, and no search comes    *)
(* back empty (CheckAndUpdateClientRegistration).                          *)
THEOREM SettledForGood == Spec => RegistrationSettles
<1>1. ASSUME IInv, [Next]_vars, NEW c \in Clients, Settled(c)
      PROVE  Settled(c)'
  BY <1>1, WorkSettles, OthersSettle DEF Next
<1>2. IInv /\ [Next]_vars => [\A c \in Clients : Settled(c) => Settled(c)']_vars
  BY <1>1
<1> QED
  BY <1>2, Invariance, PTL DEF Spec, RegistrationSettles

-----------------------------------------------------------------------------
(* The housekeeper on its own: what it knows of the table and of the data  *)
(* holder stays true until it acts on it.                                  *)

NoneCurrent == \A c \in Clients : row[c] # "CURRENT"

KnowsTable(l) ==
  /\ l.pc \in Bootstrapping => NoneCurrent
  /\ l.pc \in {"load", "delete", "insert"} => holder.client = l.client
  /\ l.pc = "saveUpdated" => row[l.client] = "CURRENT"

Alone == Handlers = {} => CurrentIsActive /\ KnowsTable(ev[Housekeeper])

LEMMA InitAlone == Init => Alone
BY DEF Init, Alone, CurrentIsActive, KnowsTable, Bootstrapping, Idle, Evaluations

(* A step that leaves the table and the client of the data holder.         *)
LEMMA QuietAlone ==
  ASSUME IInv, CurrentIsActive, NEW l, row' = row, holder'.client = holder.client,
         l = ev'[Housekeeper], KnowsTable(l)
  PROVE  CurrentIsActive' /\ KnowsTable(ev[Housekeeper])'
BY DEF CurrentIsActive, KnowsTable, NoneCurrent

(* To give up, to be done and to start anew need no knowledge.             *)
LEMMA OutsideKnows ==
  ASSUME IInv, Handlers = {}, NEW e \in Evaluations,
         Fail(e) \/ Set(e, Idle) \/ (\E c : Obtained(e, c)) \/ GoTo(e, "check")
  PROVE  /\ ev'[e].pc \notin Bootstrapping \cup {"saveUpdated"}
         /\ KnowsTable(ev'[e])
<1>1. e \notin Handlers /\ ev \in [Evaluations -> Local] /\ ev[e] \in Local
  BY DEF IInv, TypeOK
<1>2. ev'[e] = Idle \/ ev'[e].pc = "check"
  BY <1>1 DEF Fail, Set, Obtained, GoTo, Local
<1> QED
  BY <1>2 DEF KnowsTable, Bootstrapping, Idle

LEMMA NextAlone == IInv /\ Alone /\ [Next]_vars => Alone'
<1> SUFFICES ASSUME IInv, Handlers = {}, CurrentIsActive,
                    KnowsTable(ev[Housekeeper]), [Next]_vars
             PROVE  (CurrentIsActive /\ KnowsTable(ev[Housekeeper]))'
  BY DEF Alone
<1> DEFINE e == Housekeeper
           l == ev[e]
           Goal == (CurrentIsActive /\ KnowsTable(ev[Housekeeper]))'
<1>0. /\ Evaluations = {e} /\ e \in Evaluations /\ l \in Local
      /\ ev \in [Evaluations -> Local]
      /\ row \in [Clients -> {"none", "CURRENT", "DELETED"}]
      /\ WorkingOnClient(l)
  BY DEF IInv, TypeOK, Evaluations
<1>1. ASSUME row' = row, holder'.client = holder.client,
             \/ ev'[e] = l
             \/ Fail(e) \/ Set(e, Idle) \/ (\E c : Obtained(e, c)) \/ GoTo(e, "check")
      PROVE  Goal
  BY <1>0, <1>1, QuietAlone, OutsideKnows
<1>2. ASSUME NEW pc, GoTo(e, pc) PROVE ev'[e].pc = pc /\ ev'[e].client = l.client
  BY <1>0, <1>2 DEF GoTo, Set, Local
<1>3. ASSUME NEW l1, Set(e, l1) PROVE ev'[e] = l1
  BY <1>0, <1>3 DEF Set
<1>4. CASE Start(e)
  BY <1>1, <1>4 DEF Start
<1>5. CASE Check(e)
  <2>1. CASE \E c : Obtained(e, c)
    BY <1>1, <1>5, <2>1 DEF Check
  <2>2. CASE Set(e, [l EXCEPT !.pc = "find", !.want = wanted])
    <3>1. ev'[e].pc = "find"
      BY <1>0, <1>3, <2>2 DEF Local
    <3> QED
      BY <1>5, <3>1, QuietAlone DEF Check, KnowsTable, Bootstrapping
  <2> QED
    BY <1>5, <2>1, <2>2 DEF Check
<1>6. CASE Find(e)
  <2>1. CASE Current = {} /\ GoTo(e, "post")
    <3>1. ev'[e].pc = "post" /\ NoneCurrent
      BY <1>2, <2>1 DEF Current, NoneCurrent
    <3> QED
      BY <1>6, <3>1, QuietAlone DEF Find, KnowsTable, Bootstrapping
  <2>2. CASE \E c \in Clients : Set(e, [l EXCEPT !.pc = "token", !.client = c])
    <3>1. ev'[e].pc = "token"
      BY <1>0, <1>3, <2>2 DEF Local
    <3> QED
      BY <1>6, <3>1, QuietAlone DEF Find, KnowsTable, Bootstrapping
  <2>3. CASE Fail(e)
    BY <1>1, <1>6, <2>3 DEF Find
  <2> QED
    BY <1>6, <2>1, <2>2, <2>3 DEF Find
<1>7. CASE NewRegistrationAtDataholder(e)
  <2>1. NoneCurrent /\ row' = row
    BY <1>7 DEF NewRegistrationAtDataholder, At, KnowsTable, Bootstrapping
  <2>2. CurrentIsActive'
    BY <2>1 DEF NoneCurrent, CurrentIsActive
  <2>3. CASE Register(e) /\ Set(e, [l EXCEPT !.pc = "load", !.client = issued + 1])
    <3>1. ev'[e].pc = "load" /\ ev'[e].client = issued + 1
      BY <1>0, <1>3, <2>3 DEF Local
    <3>2. holder'.client = issued + 1
      BY <2>3 DEF Register
    <3> QED
      BY <2>1, <2>2, <3>1, <3>2 DEF KnowsTable, NoneCurrent
  <2>4. CASE Fail(e) /\ UNCHANGED holder
    BY <1>1, <2>1, <2>4
  <2> QED
    BY <1>7, <2>3, <2>4 DEF NewRegistrationAtDataholder
<1>8. CASE Load(e)
  <2>1. PICK rows, pc : /\ Set(e, [l EXCEPT !.old = rows, !.pc = pc])
                        /\ pc = IF rows = {} THEN "insert" ELSE "delete"
    BY <1>8, Zenon DEF Load
  <2>2. ev'[e].pc \in {"insert", "delete"} /\ ev'[e].client = l.client
    BY <1>0, <1>3, <2>1 DEF Local
  <2>3. NoneCurrent /\ holder.client = l.client
    BY <1>8 DEF Load, At, KnowsTable, Bootstrapping
  <2> QED
    BY <1>8, <2>2, <2>3, QuietAlone DEF Load, KnowsTable, Bootstrapping
<1>9. CASE MarkDeleted(e)
  <2>1. PICK c, rest, pc :
           /\ row' = [row EXCEPT ![c] = "DELETED"]
           /\ Set(e, [l EXCEPT !.old = rest, !.pc = pc])
           /\ pc = IF rest = {} THEN "insert" ELSE "delete"
    BY <1>9, Zenon DEF MarkDeleted
  <2>2. ev'[e].pc \in {"insert", "delete"} /\ ev'[e].client = l.client
    BY <1>0, <1>3, <2>1 DEF Local
  <2>3. NoneCurrent /\ holder' = holder /\ holder.client = l.client
    BY <1>9 DEF MarkDeleted, At, KnowsTable, Bootstrapping
  <2>4. NoneCurrent'
    BY <1>0, <2>1, <2>3 DEF NoneCurrent
  <2> QED
    BY <2>2, <2>3, <2>4 DEF KnowsTable, CurrentIsActive, NoneCurrent
<1>10. CASE Insert(e)
  <2>1. /\ NoneCurrent /\ holder' = holder /\ holder.client = l.client
        /\ row' = [row EXCEPT ![l.client] = "CURRENT"]
        /\ l.client \in Clients /\ GoTo(e, "token")
    BY <1>0, <1>10 DEF Insert, At, KnowsTable, Bootstrapping, WorkingOnClient
  <2>2. CurrentIsActive'
    BY <1>0, <2>1 DEF CurrentIsActive, NoneCurrent
  <2>3. ev'[e].pc = "token"
    BY <1>2, <2>1
  <2> QED
    BY <2>2, <2>3 DEF KnowsTable, Bootstrapping
<1>11. CASE GetToken(e)
  <2>1. CASE \E t : Set(e, [l EXCEPT !.pc = "get", !.token = t])
    <3>1. ev'[e].pc = "get"
      BY <1>0, <1>3, <2>1 DEF Local
    <3> QED
      BY <1>11, <3>1, QuietAlone DEF GetToken, KnowsTable, Bootstrapping
  <2>2. CASE Fail(e)
    BY <1>1, <1>11, <2>2 DEF GetToken
  <2> QED
    BY <1>11, <2>1, <2>2 DEF GetToken
<1>12. CASE CurrentRegistrationAtDataholder(e)
  <2>1. CASE GoTo(e, "put")
    BY <1>2, <1>12, <2>1, QuietAlone
       DEF CurrentRegistrationAtDataholder, KnowsTable, Bootstrapping
  <2> QED
    BY <1>1, <1>12, <2>1 DEF CurrentRegistrationAtDataholder
<1>13. CASE UpdateRegistrationAtDataholder(e)
  <2>1. CASE Update(e) /\ Set(e, [l EXCEPT !.pc = "findUpdated", !.client = l.token])
    <3>1. ev'[e].pc = "findUpdated"
      BY <1>0, <1>3, <2>1 DEF Local
    <3>2. holder'.client = holder.client
      BY <2>1 DEF Update, IInv, TypeOK
    <3> QED
      BY <1>13, <3>1, <3>2, QuietAlone
         DEF UpdateRegistrationAtDataholder, KnowsTable, Bootstrapping
  <2>2. CASE Fail(e) /\ UNCHANGED holder
    BY <1>1, <1>13, <2>2 DEF UpdateRegistrationAtDataholder
  <2> QED
    BY <1>13, <2>1, <2>2 DEF UpdateRegistrationAtDataholder
<1>14. CASE FindUpdated(e)
  <2>1. CASE row[l.client] = "CURRENT" /\ GoTo(e, "saveUpdated")
    BY <1>2, <1>14, <2>1, QuietAlone DEF FindUpdated, KnowsTable, Bootstrapping
  <2> QED
    BY <1>1, <1>14, <2>1 DEF FindUpdated
<1>15. CASE SaveUpdated(e)
  <2>1. row[l.client] = "CURRENT"
    BY <1>15 DEF SaveUpdated, At, KnowsTable
  <2>2. row' = row
    BY <1>0, <1>15, <2>1 DEF SaveUpdated
  <2> QED
    BY <1>1, <1>15, <2>2 DEF SaveUpdated
<1>16. CASE Use(e)
  BY <1>1, <1>16 DEF Use
<1>17. CASE StepFails(e)
  BY <1>1, <1>17 DEF StepFails
<1>18. CASE AnswerLost(e)
  <2>1. CASE At(e, "post") /\ Register(e)
    <3>1. NoneCurrent /\ row' = row /\ Fail(e)
      BY <1>18, <2>1 DEF AnswerLost, At, KnowsTable, Bootstrapping
    <3>2. ev'[e].pc \notin Bootstrapping \cup {"saveUpdated"}
      BY <1>0, <3>1, OutsideKnows
    <3> QED
      BY <3>1, <3>2 DEF CurrentIsActive, KnowsTable, NoneCurrent, Bootstrapping
  <2>2. CASE Update(e)
    <3>1. holder'.client = holder.client
      BY <2>2 DEF Update, IInv, TypeOK
    <3> QED
      BY <1>1, <1>18, <3>1 DEF AnswerLost
  <2> QED
    BY <1>18, <2>1, <2>2 DEF AnswerLost
<1>19. ASSUME NEW p \in Processes, ProcessStops(p) PROVE Goal
  <2>1. row' = row /\ holder' = holder /\ ev'[e] \in {l, Idle}
    BY <1>0, <1>19 DEF ProcessStops
  <2>2. KnowsTable(Idle)
    BY DEF KnowsTable, Idle, Bootstrapping
  <2> QED
    BY <2>1, <2>2, QuietAlone
<1>20. CASE \/ \E p \in Processes : AgeRegistration(p) \/ AgeToken(p)
            \/ WantAnother \/ UNCHANGED vars
  BY <1>1, <1>20 DEF AgeRegistration, AgeToken, WantAnother, vars
<1> QED
  BY <1>0, <1>4, <1>5, <1>6, <1>7, <1>8, <1>9, <1>10, <1>11, <1>12, <1>13,
     <1>14, <1>15, <1>16, <1>17, <1>18, <1>19, <1>20 DEF Next, Work

(* As long as only the housekeeper evaluates the registration, a CURRENT   *)
(* row is the only one and of the client the data holder knows, whatever   *)
(* calls, answers and rows are lost and however often its process stops    *)
(* (NewRegistration, UpdateRegistration).                                  *)
THEOREM AloneIsActive == Spec => [](Handlers = {} => CurrentIsActive)
<1>1. Alone => (Handlers = {} => CurrentIsActive)
  BY DEF Alone
<1> QED
  BY <1>1, InitAlone, NextAlone, Invariance, PTL DEF Spec
=============================================================================
