------------------------ MODULE DependencyEvaluator ------------------------
(***************************************************************************)
(* CommsDependencyEvaluator: how the gateway gets the result of a node of  *)
(* its dependency graph.  An evaluation walks through what the node needs, *)
(* serves from the cache what it may and evaluates the rest.  When a step  *)
(* fails it starts again with fewer of the caches enabled ("healing"),     *)
(* until none is left.                                                     *)
(*                                                                         *)
(* Evaluations share the cache and interleave at every await.  The data    *)
(* are facts about the ecosystem that change while copies of them are      *)
(* cached.  A fact has versions: of a status, the even ones are good (the  *)
(* brand is active, the data holder is up) and the odd ones bad;  an       *)
(* address works only in its current version.                              *)
(*                                                                         *)
(* Time is counted in ticks and an evaluation is short: it ends within the *)
(* tick it started in.                                                     *)
(***************************************************************************)
EXTENDS Integers, Sequences, SequencesExt, FiniteSetsExt

CONSTANTS
  Name,           \* the names of the nodes of the graph
  Node,           \* those of the part of it that is looked at
  Preassertions,  \* of a node, a sequence of nodes evaluated before it
  Dependencies,   \* of a node, the sequence of nodes its evaluator gets
  Trail,          \* of a node, the generated cacheTrail
  Cached,         \* the nodes without noCache
  MinAge,         \* of a node, how long its result is not fetched again
  MaxAge,         \* of a node, when its result expires; 0 if it never does
  Client,         \* who asks for results: requests and the housekeeper
  Target,         \* of a client, the nodes it asks for
  IgnoreCache,    \* of a client, the option "none", "top" or "all"
  MaxHealing,     \* MAXIMUM_HEALING_ITERATIONS
  Status,         \* facts that are good or bad
  Address,        \* facts that are current or out of date
  Reads,          \* of a node, the facts its evaluator looks up
  Carries,        \* of a node, the facts its result is about
  Judges,         \* of a node, the statuses its evaluator throws on
  Calls,          \* of a node, the addresses its evaluator calls
  Forwards,       \* of a node, the addresses the validator that a request
                  \* passes to get calls: it forwards the request
  Delay,          \* of a node and a status that its result tells, by how
                  \* many ticks what it tells may be out of date
  Unnoticed,      \* of a node and a status that its result vouches for, for
                  \* how many ticks the status may have been bad all the same
  LastVersion,    \* bound: of a fact, the last version
  MaxChanges,     \* bound: changes of facts
  MaxFailures,    \* bound: calls and cache updates that fail
  AgeCap          \* bound: how long a status has been bad is counted so far

Fact == Status \cup Address
Version == UNION {0 .. LastVersion[f] : f \in Fact}
Age == 0 .. AgeCap

ASSUME GraphAssumption ==
  /\ Node \subseteq Name
  /\ Preassertions \in [Node -> Seq(Node)]
  /\ Dependencies \in [Node -> Seq(Node)]
  /\ Trail \in [Node -> Seq(Name)]
  /\ MinAge \in [Node -> Nat] /\ MaxAge \in [Node -> Nat]
  /\ \A n \in Node : MinAge[n] < AgeCap /\ MaxAge[n] <= AgeCap
  /\ AgeCap \in Nat

ASSUME ClientAssumption ==
  /\ \A c \in Client :
       /\ Target[c] \subseteq Node /\ Target[c] # {}
       /\ IgnoreCache[c] \in {"none", "top", "all"}
  /\ MaxHealing \in Nat \ {0}

ASSUME FactAssumption ==
  /\ LastVersion \in [Fact -> Nat]
  /\ MaxChanges \in Nat /\ MaxFailures \in Nat
  /\ \A n \in Node : /\ Reads[n] \subseteq Fact
                     /\ Judges[n] \subseteq Status /\ Calls[n] \subseteq Fact

Claims(n) == Reads[n] \cup Carries[n]

(* An evaluator judges, calls and carries on what its dependencies say, a  *)
(* request goes to an address that its credentials bring: they are handed  *)
(* nothing else                                                            *)
ASSUME InformedAssumption ==
  \A n \in Node :
    /\ \A f \in Judges[n] \cup Calls[n] \cup (Carries[n] \ Reads[n]) :
         \E m \in ToSet(Dependencies[n]) : f \in Claims(m)
    /\ Forwards[n] \subseteq Claims(n) \cap Fact

VARIABLES
  cache,      \* of a node, [in, age, about]: the stored result
  world,      \* of a fact, its version
  badFor,     \* of a status, the ticks for which it has been bad
  ev,         \* of a client, the state of its CommsDependencyEvaluator
  changes,    \* how many facts have changed
  failures    \* how many calls and updates have failed

vars == <<cache, world, badFor, ev, changes, failures>>

(* What a result says of the facts: NoClaim of those it is not about       *)
NoClaim == LastVersion
Claim == [Fact -> Version]
Entry == [in : BOOLEAN, age : Age, about : Claim]
Frame == [node : Node, next : Nat \ {0}]

(* done and about: evaluationCache; hold: a result that is not yet in the  *)
(* cache, or the one that the validator of the request is called with;     *)
(* excused: in this iteration a call failed, a fact changed, or a result   *)
(* was served because it was too fresh to be fetched again                 *)
Evaluation ==
  [pc : {"idle", "run", "store", "use", "ok", "failed"},
   target : Node, iteration : Nat, done : SUBSET Node,
   about : [Node -> Claim], stack : Seq(Frame), hold : Claim,
   excused : BOOLEAN]

Running(c) == ev[c].pc \in {"run", "store", "use"}
Healthy == \A f \in Status : world[f] % 2 = 0

-----------------------------------------------------------------------------
(* The caches an iteration may use.                                        *)

(* node.spec.cacheTrail, the node itself unless ignoreCache is "top", and  *)
(* nothing at all if it is "all"                                           *)
CacheTrailOf(c, n) ==
  IF IgnoreCache[c] = "all" THEN <<>>
  ELSE IF n \in Cached /\ IgnoreCache[c] = "none" THEN Append(Trail[n], n)
  ELSE Trail[n]

MaxIterations(len) == IF MaxHealing < len THEN MaxHealing ELSE len

(* Math.max(0, length - Math.ceil(length * i / max)); for an empty trail   *)
(* that is NaN, and slice(0, NaN) is empty too                             *)
Kept(len, i) ==
  IF len = 0 THEN 0
  ELSE len - ((len * i + MaxIterations(len) - 1) \div MaxIterations(len))

CachingDependencies(c, n, i) ==
  LET trail == CacheTrailOf(c, n) IN ToSet(SubSeq(trail, 1, Kept(Len(trail), i)))

LastIteration(c) == MaxIterations(Len(CacheTrailOf(c, ev[c].target)))

-----------------------------------------------------------------------------
(* One walk through the graph.                                             *)

Top(c) == Last(ev[c].stack)

(* The steps of evaluate(n): its preassertions, the look into the caches,  *)
(* its dependencies, the call of its evaluator                             *)
LookupAt(n) == Len(Preassertions[n]) + 1
CallAt(n) == LookupAt(n) + Len(Dependencies[n]) + 1
NodeAt(n, k) == IF k < LookupAt(n) THEN Preassertions[n][k]
                ELSE Dependencies[n][k - LookupAt(n)]

AtLookup(c) == ev[c].pc = "run" /\ Top(c).next = LookupAt(Top(c).node)
AtCall(c) == ev[c].pc = "run" /\ Top(c).next = CallAt(Top(c).node)

Advance(stack) ==
  [stack EXCEPT ![Len(stack)].next = Last(stack).next + 1]

(* A new iteration starts with an empty evaluationCache                    *)
Begin(pc, n, i, stack, hold, excused) ==
  [pc |-> pc, target |-> n, iteration |-> i, done |-> {},
   about |-> [m \in Node |-> NoClaim], stack |-> stack, hold |-> hold,
   excused |-> excused]

Walk(n, i) ==
  Begin("run", n, i, <<[node |-> n, next |-> 1]>>, NoClaim, FALSE)
Leave(e, pc, hold, excused) ==
  Begin(pc, e.target, IF pc = "use" THEN e.iteration ELSE 0, <<>>, hold, excused)

(* remember, and return to the node that needs n                           *)
Return(e, n, about) ==
  LET outer == Front(e.stack) IN
  IF outer = <<>>
  THEN IF Forwards[e.target] = {} THEN Leave(e, "ok", NoClaim, e.excused)
       ELSE Leave(e, "use", about, e.excused)
  ELSE [e EXCEPT !.pc = "run", !.done = e.done \cup {n}, !.about[n] = about,
                 !.hold = NoClaim, !.stack = Advance(outer)]

(* A mistake the runs must notice: evaluationCache is not reset            *)
FailKeepingResults(c, excused) ==
  IF ev[c].iteration < LastIteration(c)
  THEN [ev[c] EXCEPT !.pc = "run", !.iteration = @ + 1, !.excused = FALSE,
                     !.hold = NoClaim,
                     !.stack = <<[node |-> ev[c].target, next |-> 1]>>]
  ELSE Leave(ev[c], "failed", NoClaim, ev[c].excused \/ excused)

(* The iteration fails, wherever in the walk it was, and get goes on to    *)
(* the next one, or gives up                                               *)
Fail(c, excused) ==
  IF ev[c].iteration < LastIteration(c)
  THEN Walk(ev[c].target, ev[c].iteration + 1)
  ELSE Leave(ev[c], "failed", NoClaim, ev[c].excused \/ excused)

Evaluates(c, e) == ev' = [ev EXCEPT ![c] = e]

Start(c, n) ==
  /\ ~Running(c)
  /\ Evaluates(c, Walk(n, 0))
  /\ UNCHANGED <<cache, world, badFor, changes, failures>>

Descend(c) ==
  /\ ev[c].pc = "run" /\ ~AtLookup(c) /\ ~AtCall(c)
  /\ LET inner == [node |-> NodeAt(Top(c).node, Top(c).next), next |-> 1]
     IN  Evaluates(c, [ev[c] EXCEPT !.stack = Append(ev[c].stack, inner)])
  /\ UNCHANGED <<cache, world, badFor, changes, failures>>

(* Mistakes the runs must notice: a minimum age that never ends, a maximum *)
(* age that is not looked at                                               *)
TooFreshForEver(n) == MinAge[n] # 0
NeverExpired(n) == FALSE

(* FetchCache: tooFreshToUpdate holds up to freshUntil, expired from       *)
(* expiresAt on                                                            *)
TooFresh(n) == MinAge[n] # 0 /\ cache[n].age <= MinAge[n]
Expired(n) == MaxAge[n] # 0 /\ cache[n].age >= MaxAge[n]

ServedFresh(n) == n \in Cached /\ cache[n].in /\ TooFresh(n)
ServedEnabled(c, n) ==
  /\ n \in Cached /\ cache[n].in
  /\ ~TooFresh(n) /\ ~Expired(n)
  /\ n \in CachingDependencies(c, ev[c].target, ev[c].iteration)

(* A node is not evaluated twice in one iteration.  Else its result comes  *)
(* from the cache, if it is too fresh to be fetched again or if this       *)
(* iteration may use the cache, or from its evaluator.                     *)
Lookup(c) ==
  /\ AtLookup(c)
  /\ LET n == Top(c).node IN Evaluates(c,
       IF n \in ev[c].done THEN Return(ev[c], n, ev[c].about[n])
       ELSE IF ServedFresh(n)
            THEN [Return(ev[c], n, cache[n].about) EXCEPT !.excused = TRUE]
       ELSE IF ServedEnabled(c, n) THEN Return(ev[c], n, cache[n].about)
       ELSE [ev[c] EXCEPT !.stack = Advance(ev[c].stack)])
  /\ UNCHANGED <<cache, world, badFor, changes, failures>>

(* What the dependencies of a node say of a fact: the oldest of their      *)
(* versions                                                                *)
Known(c, n, f) ==
  LET versions == {ev[c].about[m][f] : m \in ToSet(Dependencies[n])}
  IN  CHOOSE v \in versions \cup {LastVersion[f]} :
        \A w \in versions : v <= w

Refused(c, n) ==
  \/ \E f \in Judges[n] : Known(c, n, f) % 2 # 0
  \/ \E f \in Calls[n] : Known(c, n, f) # world[f]

ResultOf(c, n) ==
  [f \in Fact |-> IF f \in Reads[n] THEN world[f]
                  ELSE IF f \in Carries[n] THEN Known(c, n, f)
                  ELSE LastVersion[f]]

(* The evaluator throws, because of what it got, or because its call       *)
(* failed, or returns;  the cache is updated after another await           *)
Throw(c) ==
  /\ AtCall(c) /\ Refused(c, Top(c).node)
  /\ Evaluates(c, Fail(c, FALSE))
  /\ UNCHANGED <<cache, world, badFor, changes, failures>>

CallFails(c) ==
  /\ AtCall(c) /\ Reads[Top(c).node] \cup Calls[Top(c).node] # {}
  /\ failures < MaxFailures
  /\ failures' = failures + 1
  /\ Evaluates(c, Fail(c, TRUE))
  /\ UNCHANGED <<cache, world, badFor, changes>>

Call(c) ==
  /\ AtCall(c) /\ ~Refused(c, Top(c).node)
  /\ LET n == Top(c).node IN Evaluates(c,
       IF n \in Cached
       THEN [ev[c] EXCEPT !.pc = "store", !.hold = ResultOf(c, n)]
       ELSE Return(ev[c], n, ResultOf(c, n)))
  /\ UNCHANGED <<cache, world, badFor, changes, failures>>

Store(c) ==
  /\ ev[c].pc = "store"
  /\ cache' = [cache EXCEPT ![Top(c).node] =
                 [in |-> TRUE, age |-> 0, about |-> ev[c].hold]]
  /\ Evaluates(c, Return(ev[c], Top(c).node, ev[c].hold))
  /\ UNCHANGED <<world, badFor, changes, failures>>

(* a cache update that fails is logged, and the result returned all the    *)
(* same                                                                    *)
StoreFails(c) ==
  /\ ev[c].pc = "store"
  /\ failures < MaxFailures
  /\ failures' = failures + 1
  /\ Evaluates(c, Return(ev[c], Top(c).node, ev[c].hold))
  /\ UNCHANGED <<cache, world, badFor, changes>>

(* The validator of the request turns the result down, or get returns it   *)
OutOfDate(c) == \E f \in Forwards[ev[c].target] : ev[c].hold[f] # world[f]

Invalid(c) ==
  /\ ev[c].pc = "use" /\ OutOfDate(c)
  /\ Evaluates(c, Fail(c, FALSE))
  /\ UNCHANGED <<cache, world, badFor, changes, failures>>

ForwardFails(c) ==
  /\ ev[c].pc = "use" /\ Forwards[ev[c].target] # {}
  /\ failures < MaxFailures
  /\ failures' = failures + 1
  /\ Evaluates(c, Fail(c, TRUE))
  /\ UNCHANGED <<cache, world, badFor, changes>>

Valid(c) ==
  /\ ev[c].pc = "use" /\ ~OutOfDate(c)
  /\ Evaluates(c, Leave(ev[c], "ok", NoClaim, ev[c].excused))
  /\ UNCHANGED <<cache, world, badFor, changes, failures>>

-----------------------------------------------------------------------------
(* What happens around the gateway.                                        *)

Change(f) ==
  /\ changes < MaxChanges
  /\ world[f] < LastVersion[f]
  /\ world' = [world EXCEPT ![f] = @ + 1]
  /\ badFor' = [badFor EXCEPT ![f] = 0]
  /\ changes' = changes + 1
  /\ ev' = [c \in Client |-> [ev[c] EXCEPT !.excused = ev[c].excused \/ Running(c)]]
  /\ UNCHANGED <<cache, failures>>

(* A mistake the runs must notice: an age that is never too old            *)
OlderWithoutLimit(age, limit) == age + 1

(* A result that is past its ages is just too old                          *)
TooOld(n) == IF MaxAge[n] > MinAge[n] THEN MaxAge[n] ELSE MinAge[n] + 1
Older(age, limit) == IF age < limit THEN age + 1 ELSE age

Tick ==
  /\ \A c \in Client : ~Running(c)
  /\ cache' = [n \in Node |-> IF cache[n].in
                              THEN [cache[n] EXCEPT !.age = Older(@, TooOld(n))]
                              ELSE cache[n]]
  /\ badFor' = [f \in Fact |-> IF f \in Status /\ world[f] % 2 # 0
                               THEN Older(badFor[f], AgeCap) ELSE 0]
  /\ UNCHANGED <<world, ev, changes, failures>>

-----------------------------------------------------------------------------
Init ==
  /\ cache = [n \in Node |-> [in |-> FALSE, age |-> 0, about |-> NoClaim]]
  /\ world = [f \in Fact |-> 0]
  /\ badFor = [f \in Fact |-> 0]
  /\ ev = [c \in Client |->
            Begin("idle", CHOOSE n \in Target[c] : TRUE, 0, <<>>, NoClaim,
                  FALSE)]
  /\ changes = 0
  /\ failures = 0

Step(c) ==
  \/ Descend(c)
  \/ Lookup(c)
  \/ Throw(c)
  \/ Call(c)
  \/ Store(c)
  \/ Invalid(c)
  \/ Valid(c)

Next ==
  \/ \E c \in Client : \E n \in Target[c] : Start(c, n)
  \/ \E c \in Client : Step(c) \/ CallFails(c) \/ StoreFails(c) \/ ForwardFails(c)
  \/ \E f \in Fact : Change(f)
  \/ Tick

Spec == Init /\ [][Next]_vars

(* An evaluation goes on once it has started, results are asked for again  *)
(* and again, and time passes: requests cannot fill a tick for ever.       *)
Fairness ==
  /\ \A c \in Client : WF_vars(Step(c) \/ \E n \in Target[c] : Start(c, n))
  /\ SF_vars(Tick)

FairSpec == Spec /\ Fairness

-----------------------------------------------------------------------------
TypeOK ==
  /\ cache \in [Node -> Entry]
  /\ world \in [Fact -> Version]
  /\ badFor \in [Fact -> Age]
  /\ ev \in [Client -> Evaluation]
  /\ changes \in 0 .. MaxChanges
  /\ failures \in 0 .. MaxFailures

(* An evaluation is about to contact the data holder for its request       *)
Contact(c) ==
  LET n == ev[c].target IN
  \/ Calls[n] # {} /\ AtCall(c) /\ Top(c).node = n /\ ~Refused(c, n)
  \/ Forwards[n] # {} /\ ev[c].pc = "use" /\ ~OutOfDate(c)

(* What the caches on the way to a node can add up to.  A result of it is  *)
(* out of date by no more than what it was made of, and by the time for    *)
(* which it is itself served.                                              *)
Expires(n) == n \notin Cached \/ MaxAge[n] # 0
Served(n) == IF n \in Cached THEN TooOld(n) - 1 ELSE 0

ASSUME DelayAssumption ==
  \A n \in Node : \A f \in DOMAIN Delay[n] :
    /\ f \in Status \cap Claims(n) /\ Expires(n)
    /\ Delay[n][f] \in Nat
    /\ IF f \in Reads[n] THEN Served(n) <= Delay[n][f]
       ELSE \A m \in ToSet(Dependencies[n]) :
              f \in Claims(m) => /\ f \in DOMAIN Delay[m]
                                /\ Delay[m][f] + Served(n) <= Delay[n][f]

(* A result vouches for a status because a preassertion of its node does,  *)
(* which is evaluated anew in every walk, because what it was made of      *)
(* does, or because its evaluator has judged what it was told.             *)
AssertedBefore(n, f) ==
  \E m \in ToSet(Preassertions[n]) :
    f \in DOMAIN Unnoticed[m] /\ Unnoticed[m][f] <= Unnoticed[n][f]
VouchedFor(n, f) ==
  \E m \in ToSet(Dependencies[n]) :
    f \in DOMAIN Unnoticed[m] /\ Unnoticed[m][f] + Served(n) <= Unnoticed[n][f]
Judged(n, f) ==
  /\ f \in Judges[n]
  /\ \A m \in ToSet(Dependencies[n]) :
       f \in Claims(m) => /\ f \in DOMAIN Delay[m]
                         /\ Delay[m][f] + Served(n) <= Unnoticed[n][f]

ASSUME UnnoticedAssumption ==
  \A n \in Node : \A f \in DOMAIN Unnoticed[n] :
    /\ f \in Status /\ Unnoticed[n][f] \in Nat
    /\ \/ AssertedBefore(n, f)
       \/ Expires(n) /\ (VouchedFor(n, f) \/ Judged(n, f))

(* Whatever is served from the caches, an evaluation that gets as far as   *)
(* the call of its target has noticed a status that has been bad for       *)
(* longer than the caches on the way from it can add up to.                *)
NoticedWithinMaxAges ==
  \A c \in Client : Contact(c) =>
    \A f \in DOMAIN Unnoticed[ev[c].target] :
      badFor[f] <= Unnoticed[ev[c].target][f]

(* The iterations trust the caches less and less, so that a failure in the *)
(* last is the fault of no stale copy: something failed or changed while   *)
(* it ran, a result was too fresh to be fetched again, or a status is bad. *)
FailureHasReason ==
  [][\A c \in Client :
       Running(c) /\ ev'[c].pc = "failed" => ev'[c].excused \/ ~Healthy]_vars

(* Once the data holder is active and up and stays so, requests are        *)
(* answered again, although the address it had is cached for ever.         *)
Recovers == \A c \in Client : []<>(Healthy => ev[c].pc = "ok")
=============================================================================
