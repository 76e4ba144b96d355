-------------------------- MODULE DependencyGraph --------------------------
(***************************************************************************)
(* The graph of DependencyGraph.generated.ts: what every node depends on,  *)
(* how long its result may be cached, and the cache trail that the         *)
(* generator derives from both.                                            *)
(*                                                                         *)
(* The groups keep the order of the file, in which every node comes after  *)
(* its dependencies.  Evaluators, validators, parameters and projections   *)
(* are not part of the graph;  neither are the conditions of the two       *)
(* conditional dependencies, which the generator ignores.                  *)
(***************************************************************************)
EXTENDS Naturals, Sequences, SequencesExt

(* No minimum age is 0, and so is no maximum age: such a result never      *)
(* expires.                                                                *)
NoCache == [cached |-> FALSE, minAge |-> 0, maxAge |-> 0]
Cache(minAge, maxAge) == [cached |-> TRUE, minAge |-> minAge, maxAge |-> maxAge]
Forever == Cache(0, 0)

(* disabled: the dependencies marked disableCache, which the generator     *)
(* takes out of the trail of the node (and the evaluator does not look at) *)
Dependency(name, preassertions, dependencies, disabled, caching) ==
  [name |-> name, preassertions |-> preassertions,
   dependencies |-> dependencies, disabled |-> disabled, cache |-> caching]

Simple(name, dependencies, caching) ==
  Dependency(name, <<>>, dependencies, {}, caching)

ConfigurationNodes == <<
  Simple("AdrConnectivityConfig", <<>>, NoCache),
  Simple("SoftwareProductConfigs", <<"AdrConnectivityConfig">>, Forever),
  Simple("SoftwareProductConfig", <<"SoftwareProductConfigs">>, Forever),
  Simple("DataRecipientJwks", <<"AdrConnectivityConfig">>, Forever) >>

RegisterNodes == <<
  Simple("RegisterOidc", <<"AdrConnectivityConfig">>, Cache(3600, 0)),
  Simple("DataRecipientStatus", <<"AdrConnectivityConfig">>, Cache(300, 0)),
  Simple("AssertDataRecipientIsActive", <<"DataRecipientStatus">>, NoCache),
  Simple("SoftwareProductStatus",
         <<"AdrConnectivityConfig", "SoftwareProductConfig">>, Cache(300, 0)),
  Simple("AssertSoftwareProductStatusIsActive",
         <<"SoftwareProductStatus", "SoftwareProductConfig">>, NoCache),
  Simple("RegisterAccessCredentials",
         <<"AdrConnectivityConfig", "DataRecipientJwks", "RegisterOidc",
           "SoftwareProductConfig", "AssertDataRecipientIsActive">>,
         Cache(30, 300)),
  Simple("RegisterAccessCredentialsDHB",
         <<"AdrConnectivityConfig", "DataRecipientJwks", "RegisterOidc",
           "SoftwareProductConfigs", "AssertDataRecipientIsActive">>,
         Cache(30, 300)) >>

DataHolderNodes == <<
  Simple("DataHolderBrands",
         <<"AdrConnectivityConfig", "RegisterAccessCredentialsDHB">>,
         Cache(0, 14400)),
  Simple("DataHolderBrandMetadata", <<"DataHolderBrands">>, NoCache),
  Simple("AssertDataHolderActiveAtRegister", <<"DataHolderBrandMetadata">>,
         NoCache),
  Simple("DataHolderStatus",
         <<"AdrConnectivityConfig", "DataHolderBrandMetadata">>, Cache(0, 300)),
  Simple("AssertDataHolderIsUp",
         <<"DataHolderBrandMetadata", "DataHolderStatus">>, NoCache),
  Simple("DataHolderUpAndReady",
         <<"DataHolderBrandMetadata", "AssertDataHolderActiveAtRegister",
           "AssertDataHolderIsUp">>, Cache(0, 300)),
  Simple("DataHolderOidc",
         <<"DataHolderBrandMetadata", "DataHolderUpAndReady">>, Cache(300, 0)),
  Simple("DataHolderJwks", <<"DataHolderOidc">>, Cache(300, 0)),
  Simple("DataHolderRevocationJwks", <<"DataHolderBrandMetadata">>,
         Cache(300, 0)) >>

RegistrationNodes == <<
  Simple("SoftwareStatementAssertion",
         <<"SoftwareProductConfig", "AdrConnectivityConfig",
           "RegisterAccessCredentials">>, Cache(300, 1800)),
  Simple("CurrentClientRegistration",
         <<"SoftwareProductConfig", "DataHolderBrandMetadata">>, NoCache),
  Simple("DhNewClientRegistration",
         <<"AdrConnectivityConfig", "SoftwareProductConfig",
           "DataRecipientJwks", "DataHolderOidc", "DataHolderBrandMetadata",
           "DataHolderUpAndReady", "SoftwareStatementAssertion">>, NoCache),
  Simple("BootstrapClientRegistration",
         <<"AssertSoftwareProductStatusIsActive", "CurrentClientRegistration",
           "DhNewClientRegistration">>, NoCache),
  Simple("DhRegAccessToken",
         <<"DataRecipientJwks", "DataHolderOidc",
           "BootstrapClientRegistration">>, Cache(60, 300)),
  Simple("DhDeleteClientRegistration",
         <<"AdrConnectivityConfig", "SoftwareProductConfig",
           "DataRecipientJwks", "DataHolderOidc", "DataHolderBrandMetadata",
           "DataHolderUpAndReady", "CurrentClientRegistration",
           "DhRegAccessToken">>, NoCache),
  Simple("CheckAndUpdateClientRegistration",
         <<"AssertSoftwareProductStatusIsActive", "AdrConnectivityConfig",
           "SoftwareProductConfig", "DataRecipientJwks", "DataHolderOidc",
           "DataHolderUpAndReady", "SoftwareStatementAssertion",
           "BootstrapClientRegistration", "DhRegAccessToken">>,
         Cache(600, 3600)) >>

ConsentNodes == <<
  Dependency("GetAuthorizationRequest",
         <<"AssertSoftwareProductStatusIsActive", "DataHolderOidc",
           "DataHolderUpAndReady">>,
         <<"DataHolderOidc", "DataHolderUpAndReady",
           "CheckAndUpdateClientRegistration", "AdrConnectivityConfig",
           "SoftwareProductConfig", "DataRecipientJwks",
           "DataHolderBrandMetadata">>,
         {"DataHolderOidc", "DataHolderUpAndReady"}, NoCache),
  Dependency("SyncRefreshTokenStatus",
         <<"AssertSoftwareProductStatusIsActive">>,
         <<"DataRecipientJwks", "DataHolderOidc",
           "CheckAndUpdateClientRegistration">>, {}, Cache(0, 3600)),
  Dependency("FetchTokens", <<"AssertSoftwareProductStatusIsActive">>,
         <<"DataRecipientJwks", "DataHolderOidc",
           "CheckAndUpdateClientRegistration", "SyncRefreshTokenStatus">>,
         {}, NoCache),
  Simple("FetchTokensAndUpdateClaims",
         <<"DataRecipientJwks", "DataHolderOidc", "DataHolderJwks",
           "CheckAndUpdateClientRegistration", "FetchTokens">>, NoCache),
  Simple("ConsentRefreshTokens", <<"FetchTokensAndUpdateClaims">>, NoCache),
  Simple("ConsentCurrentAccessToken",
         <<"AssertSoftwareProductStatusIsActive", "DataRecipientJwks",
           "DataHolderOidc", "CheckAndUpdateClientRegistration",
           "ConsentRefreshTokens">>, NoCache) >>

AccessNodes == <<
  Simple("ConsumerDataAccessCredentials",
         <<"DataHolderUpAndReady", "DataHolderOidc",
           "ConsentCurrentAccessToken", "DataHolderBrandMetadata">>, NoCache),
  Simple("UserInfoAccessCredentials",
         <<"DataHolderUpAndReady", "DataHolderOidc",
           "ConsentCurrentAccessToken", "DataHolderBrandMetadata">>, NoCache),
  Simple("ConsentUserInfo",
         <<"DataHolderOidc", "ConsentCurrentAccessToken">>, NoCache),
  Simple("AssertValidAuthorizeResponse",
         <<"CheckAndUpdateClientRegistration", "DataHolderOidc",
           "DataHolderJwks", "DataRecipientJwks">>, NoCache),
  Simple("FinaliseConsent",
         <<"AssertValidAuthorizeResponse", "FetchTokensAndUpdateClaims">>,
         NoCache),
  Simple("PropagateRevokeConsent",
         <<"AdrConnectivityConfig", "DataRecipientJwks", "DataHolderOidc",
           "CheckAndUpdateClientRegistration">>, NoCache) >>

AllNodes == ConfigurationNodes \o RegisterNodes \o DataHolderNodes
                  \o RegistrationNodes \o ConsentNodes \o AccessNodes

Names == {AllNodes[i].name : i \in DOMAIN AllNodes}
NodeOf(n) == AllNodes[CHOOSE i \in DOMAIN AllNodes :
                            AllNodes[i].name = n]

(* Preassertions are evaluated first, and come first in the trail.         *)
Needs(d) == d.preassertions \o d.dependencies

(***************************************************************************)
(* The generator goes once through the nodes and gathers the trails of     *)
(* what each needs, of every name the first copy, without those that are   *)
(* disabled.  The trail it hands on to later nodes ends with the node      *)
(* itself if that is cached;  the one it writes to the file does not.      *)
(***************************************************************************)
HandOn(d, trail) == IF d.cache.cached THEN Append(trail, d.name) ELSE trail

Gather(d, trails) ==
  LET needs == Needs(d)
      upTo[i \in 0 .. Len(needs)] ==
        IF i = 0 THEN <<>>
        ELSE LET kept == upTo[i - 1]
                 more == HandOn(NodeOf(needs[i]), trails[needs[i]])
             IN  kept \o SelectSeq(more, LAMBDA n : n \notin ToSet(kept))
  IN  SelectSeq(upTo[Len(needs)], LAMBDA n : n \notin d.disabled)

GatherAll(trails, nodes) ==
  LET upTo[i \in 0 .. Len(nodes)] ==
        IF i = 0 THEN trails
        ELSE LET sofar == upTo[i - 1]
             IN  sofar @@ (nodes[i].name :> Gather(nodes[i], sofar))
  IN  upTo[Len(nodes)]

ConfigurationTrails == GatherAll(<<>>, ConfigurationNodes)
RegisterTrails == GatherAll(ConfigurationTrails, RegisterNodes)
DataHolderTrails == GatherAll(RegisterTrails, DataHolderNodes)
RegistrationTrails == GatherAll(DataHolderTrails, RegistrationNodes)
ConsentTrails == GatherAll(RegistrationTrails, ConsentNodes)
CacheTrail == GatherAll(ConsentTrails, AccessNodes)
=============================================================================
