------------------------------ MODULE ControlPlane ------------------------------
(***************************************************************************)
(* edge/controlplane/core.py without its files: a tenant profile is        *)
(* validated, bound to the facts of one node, built into a manifest,       *)
(* compiled, and checked with the code the node will check it with.        *)
(***************************************************************************)
EXTENDS EdgeCompiler

CONSTANT PublicHosts     \* real public DNS names

Kinds == {"synthetic", "direct", "private"}
Live == {"direct", "private"}

FixtureHost == "pbx-fixture.invalid"
CarrierHost == "carrier.vivolution.ae"
FixturePort == 16061
PbxPort == 5061         \* of the live kinds
FixtureRange == [start |-> 21000, end |-> 21127]
CarrierRange == [start |-> 30000, end |-> 30127]

(* A profile, but for sequence and lineage; both nodes share it.            *)
ProfileBody ==
  [kind : Kinds, host : STRING, port : Nat, sources : SUBSET Networks,
   range : [start : Nat, end : Nat], prefix : STRING, sessions : Nat,
   maximum : Nat, reserved : Nat, fixtureSecrets : BOOLEAN, ttl : Nat]

(* FirstTenantProfile.from_mapping: each kind has its PBX authority.        *)
PublicSources(b) == b.sources # {} /\ b.sources \subseteq PublicNets

ProfileRange(b) == RangeOK(b.range, ReservedPorts \cup {b.port})

PbxOK(b) ==
  CASE b.kind = "synthetic" ->
         /\ b.host = FixtureHost /\ b.port = FixturePort
         /\ b.sources = {FixtureNet} /\ SameRange(b.range, FixtureRange)
    [] b.kind = "direct" ->
         /\ b.host \in PublicHosts /\ b.port = PbxPort
         /\ PublicSources(b) /\ ProfileRange(b)
    [] b.kind = "private" ->
         /\ b.host = CarrierHost /\ b.port = PbxPort
         /\ b.sources = {FixtureNet} /\ SameRange(b.range, CarrierRange)

RoutingOK(b) ==
  /\ b.kind \in Live => b.prefix = "+971"
  /\ b.sessions \in 1..64
  /\ b.kind \in Live => Size(b.range) >= 2 * b.sessions

ProfileCapacityOK(b) ==
  /\ b.reserved \in 1..64 /\ b.maximum \in 1..64
  /\ b.reserved <= b.maximum /\ b.maximum = b.sessions

ProfileSecretsOK(b) == b.kind \in Live => ~b.fixtureSecrets

ProfileOK(b) ==
  /\ b.kind \in Kinds /\ b.ttl \in 300..3600
  /\ PbxOK(b) /\ RoutingOK(b) /\ ProfileCapacityOK(b) /\ ProfileSecretsOK(b)

(* Accepted state is Nothing or what an earlier release says of itself:     *)
(* live kinds prove their kind and generation.                              *)
MinimumGeneration(kind) ==
  CASE kind = "synthetic" -> 1 [] kind = "direct" -> 2 [] kind = "private" -> 3

AcceptedStateOK(b, accepted) ==
  accepted # Nothing /\ b.kind \in Live =>
    /\ accepted.body.kind = b.kind
    /\ accepted.generation >= MinimumGeneration(b.kind)

(* The sequence is one above the accepted state, and 1 without one.         *)
NextSequence(accepted) == IF accepted = Nothing THEN 1 ELSE accepted.sequence + 1

(* _bind_profile_to_facts.                                                  *)
Bound(b, f, accepted) ==
  /\ b.sources = f.sources /\ SameRange(b.range, f.range)
  /\ f.synthetic = {}
  /\ b.kind \in Live =>
       /\ f.generation >= MinimumGeneration(b.kind)
       /\ accepted # Nothing => accepted.generation = f.generation

-----------------------------------------------------------------------------
(* _build_manifest.                                                         *)

ResourceIds(kind) ==
  [type \in {"connector", "listener", "TEAMS_TO_PBX", "PBX_TO_TEAMS"} |->
     <<type, kind>>]

MediaId == <<"media", "first-tenant">>
CapacityId == <<"capacity", "first-tenant">>

Resource(f, type, id, artifacts, spec) ==
  [type |-> type, id |-> id, tenant |-> f.tenant, artifacts |-> artifacts,
   spec |-> spec]

Connector(b) ==
  [host |-> b.host, serverName |-> b.host, port |-> b.port, start |-> b.range.start,
   end |-> b.range.end, sources |-> b.sources, credential |-> "pbxClientIdentity"]

Listener(b, f) ==
  [port |-> f.listenerPort, sources |-> b.sources, mutual |-> TRUE,
   certificate |-> "pbxServerIdentity", ca |-> "pbxClientCa"]

Route(b, direction) ==
  [direction |-> direction, prefix |-> b.prefix, priority |-> 100, enabled |-> TRUE,
   connector |-> ResourceIds(b.kind)["connector"]]

Media(b, f) ==
  [address |-> f.address, start |-> f.media.start, end |-> f.media.end,
   sessions |-> b.sessions]

Resources(b, f) ==
  LET ids == ResourceIds(b.kind) IN
    {Resource(f, "connector", ids["connector"], {"OPENSIPS"}, Connector(b)),
     Resource(f, "listener", ids["listener"], {"OPENSIPS", "NFTABLES"}, Listener(b, f)),
     Resource(f, "media", MediaId, {"RTPENGINE", "NFTABLES"}, Media(b, f)),
     Resource(f, "capacity", CapacityId, {"OPENSIPS", "RTPENGINE"},
              [maximum |-> b.maximum, reserved |-> b.reserved])}
    \cup {Resource(f, "route", ids[d], {"OPENSIPS"}, Route(b, d)) :
            d \in {"TEAMS_TO_PBX", "PBX_TO_TEAMS"}}

SecretReferences(f) ==
  {[ref |-> s[1], purpose |-> s[2], tenant |-> f.tenant, onNode |-> TRUE] :
     s \in {<<"pbxClientIdentity", "CLIENT_IDENTITY">>,
            <<"pbxServerIdentity", "SERVER_IDENTITY">>, <<"pbxClientCa", "CLIENT_CA">>}}

(* _build_health_gates.                                                     *)
HealthGates(m) ==
  [i \in 1..3 |-> [type |-> HealthOrder[i], refs |-> GateRefs(m, HealthOrder[i]),
                   timeout |-> 30, attempts |-> IF i = 3 THEN 3 ELSE 1]]

Target(f) == [node |-> f.node, generation |-> f.generation, tenant |-> f.tenant]

Rollback(f, accepted) ==
  IF accepted = Nothing THEN Nothing
  ELSE [target |-> Target(f), sequence |-> accepted.sequence, digest |-> accepted]

(* The manifest without artifacts and gates, then with both.                *)
Draft(b, f, accepted, issued) ==
  [target |-> Target(f), lifecycle |-> "ACTIVE", sequence |-> NextSequence(accepted),
   issued |-> issued, expires |-> issued + b.ttl, previous |-> accepted,
   rollback |-> Rollback(f, accepted), secrets |-> SecretReferences(f),
   resources |-> Resources(b, f), artifacts |-> {}, gates |-> <<>>]

(* Rendered before the manifest is signed.                                  *)
Declared(m, rendered, f) ==
  {[id |-> kind, kind |-> kind, tenant |-> f.tenant, content |-> rendered[kind]] :
     kind \in TenantArtifactKinds}

BuildManifest(b, f, accepted, issued) ==
  LET draft == Draft(b, f, accepted, issued)
  IN  [draft EXCEPT !.artifacts = Declared(draft, Render(draft, f), f),
                    !.gates = HealthGates(draft)]

(* _validation_context: the profile's own accepted state.                   *)
SigningContext(f, accepted, issued) ==
  FactsContext(f, IF accepted = Nothing THEN Nothing
                  ELSE [sequence |-> accepted.sequence, digest |-> accepted], issued)

Envelope(m, keys) == [manifest |-> m, keys |-> keys]

(* materialize_first_tenant, up to its return: checks before, and after.    *)
MayMaterialize(b, f, accepted) ==
  /\ ProfileOK(b) /\ AcceptedStateOK(b, accepted) /\ FactsOK(f)
  /\ Bound(b, f, accepted)

Checked(b, f, accepted, issued, key) ==
  LET m == BuildManifest(b, f, accepted, issued)
      e == Envelope(m, {key})
  IN  /\ ValidateEnvelope(m, SigningContext(f, accepted, issued))
      /\ Compiles(e, f, Receipt(e))

Materializes(b, f, accepted, issued, key) ==
  MayMaterialize(b, f, accepted) /\ Checked(b, f, accepted, issued, key)
=============================================================================
