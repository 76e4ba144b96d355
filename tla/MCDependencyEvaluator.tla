----------------------- MODULE MCDependencyEvaluator -----------------------
(***************************************************************************)
(* The part of the graph between the data holder's entry at the register   *)
(* and two nodes that contact the data holder, with the trails of the      *)
(* whole graph.  What is left out (tokens, registrations, configuration)   *)
(* is taken to succeed.                                                    *)
(***************************************************************************)
EXTENDS DependencyEvaluator, DependencyGraph


CONSTANTS request, housekeeper

MCNode == {"DataHolderBrands", "DataHolderBrandMetadata",
          "DataHolderStatus", "AssertDataHolderIsUp", "DataHolderUpAndReady",
          "DataHolderOidc", "ConsumerDataAccessCredentials",
          "GetAuthorizationRequest"}

Within(seq) == SelectSeq(seq, LAMBDA n : n \in MCNode)

(* Seconds to ticks: 300 -> 2 and 14400 -> 3 keep the order of the ages.   *)
Ticks(seconds) == CASE seconds = 0 -> 0
                    [] seconds \in 1 .. 300 -> 2
                    [] OTHER -> 3

MCName == Names
MCPreassertions == [n \in MCNode |-> Within(NodeOf(n).preassertions)]
MCDependencies == [n \in MCNode |-> Within(NodeOf(n).dependencies)]
MCTrail == [n \in MCNode |-> CacheTrail[n]]
MCCached == {n \in MCNode : NodeOf(n).cache.cached}
MCMinAge == [n \in MCNode |-> Ticks(NodeOf(n).cache.minAge)]
MCMaxAge == [n \in MCNode |-> Ticks(NodeOf(n).cache.maxAge)]

(* brand: the status of the data holder at the register; status: its own;  *)
(* base: its base URIs at the register; endpoints: those it publishes      *)
Facts(of) == of @@ [n \in MCNode |-> {}]

MCStatus == {"brand", "status"}
MCAddress == {"base", "endpoints"}
MCReads == Facts("DataHolderBrands" :> {"brand", "base"}
                 @@ "DataHolderStatus" :> {"status"}
                 @@ "DataHolderOidc" :> {"endpoints"})
MCCarries == Facts("DataHolderBrandMetadata" :> {"base"}
                   @@ "ConsumerDataAccessCredentials" :> {"base"})
MCJudges == Facts("DataHolderBrandMetadata" :> {"brand"}
                  @@ "AssertDataHolderIsUp" :> {"status"})
MCCalls == Facts("DataHolderStatus" :> {"base"} @@ "DataHolderOidc" :> {"base"}
                 @@ "GetAuthorizationRequest" :> {"endpoints"})
MCForwards == Facts("ConsumerDataAccessCredentials" :> {"base"})
MCLastVersion == "brand" :> 1 @@ "status" :> 1 @@ "base" :> 1
                 @@ "endpoints" :> 1

MCTarget == request :> {"ConsumerDataAccessCredentials",
                        "GetAuthorizationRequest"}
            @@ housekeeper :> {"DataHolderBrands"}
MCIgnoreCache == request :> "none" @@ housekeeper :> "top"

(* The brand is read where its copy is served up to its maximum age, and   *)
(* judged at once.  The status is read, judged and vouched for by three    *)
(* nodes, of which the first and the last are served up to theirs.         *)
MCDelay ==
  [n \in MCNode |->
     CASE n = "DataHolderBrands" -> "brand" :> MCMaxAge[n] - 1
       [] n = "DataHolderStatus" -> "status" :> MCMaxAge[n] - 1
       [] OTHER -> <<>>]

BrandUnnoticed == MCMaxAge["DataHolderBrands"] - 1
StatusUnnoticed == MCMaxAge["DataHolderStatus"] - 1
                     + MCMaxAge["DataHolderUpAndReady"] - 1
MCUnnoticed ==
  [n \in MCNode |->
     CASE n = "DataHolderBrandMetadata" -> "brand" :> BrandUnnoticed
       [] n = "AssertDataHolderIsUp" ->
            "status" :> MCMaxAge["DataHolderStatus"] - 1
       [] n = "DataHolderUpAndReady" -> "status" :> StatusUnnoticed
       [] n \in MCTarget[request] -> "brand" :> BrandUnnoticed
                                     @@ "status" :> StatusUnnoticed
       [] OTHER -> <<>>]
=============================================================================
