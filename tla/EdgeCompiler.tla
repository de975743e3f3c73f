------------------------------ MODULE EdgeCompiler ------------------------------
(***************************************************************************)
(* edge/compiler/core.py: three artifacts rendered from a signed manifest  *)
(* and the facts of one node.  The control plane compiles before it signs, *)
(* the node compiles again, and only equal digests count.  A rendered file *)
(* is the record of what its text depends on.                              *)
(***************************************************************************)
EXTENDS ManifestContract

CONSTANTS
  PublicNets,     \* globally routable networks
  FixtureNet      \* 10.20.1.4/32

Networks == PublicNets \cup {FixtureNet}

TeamsPort == 5061
ListenerPort == 15061
TenantMedia == [start |-> 20000, end |-> 20255]
ClusterMedia == [start |-> 20000, end |-> 29999]
HealthOrder == <<"ARTIFACT_DIGESTS", "OPENSIPS_CONFIG", "RTPENGINE_READY">>

GateParameters ==
  [ARTIFACT_DIGESTS |-> [timeout |-> 30, attempts |-> 1],
   OPENSIPS_CONFIG  |-> [timeout |-> 30, attempts |-> 1],
   RTPENGINE_READY  |-> [timeout |-> 30, attempts |-> 3]]

(* NodeFacts: locally trusted, never taken from a manifest.                 *)
NodeFacts ==
  [node : STRING, generation : Nat, tenant : STRING, address : STRING,
   sources : SUBSET Networks, signaling : SUBSET PublicNets,
   teamsMedia : SUBSET PublicNets, synthetic : SUBSET {FixtureNet},
   listenerPort : Nat, media : [start : Nat, end : Nat],
   range : [start : Nat, end : Nat]]

(* NodeFacts.from_mapping.                                                  *)
FactsOK(f) ==
  /\ f.sources # {} /\ f.signaling # {} /\ f.teamsMedia # {}
  /\ f.sources \cap (f.signaling \cup f.teamsMedia) = {}
  /\ f.sources \cap f.synthetic = {}
  /\ f.listenerPort = ListenerPort /\ SameRange(f.media, TenantMedia)
  /\ \A port \in ReservedPorts : ~Inside(port, ClusterMedia)
  /\ RangeOK(f.range, ReservedPorts)

-----------------------------------------------------------------------------
(* What the agent verified, and the contract once more at the time of       *)
(* issue, with the lineage the manifest itself claims.                      *)

PlanOf(m) == [manifest |-> m, gates |-> m.gates]

Receipt(e) == [manifest |-> e.manifest, plan |-> PlanOf(e.manifest), keys |-> e.keys]

ReceiptOK(e, receipt) ==
  /\ receipt.manifest = e.manifest
  /\ receipt.keys # {} /\ receipt.keys \subseteq e.keys

FactsContext(f, accepted, now) ==
  [node |-> f.node, generation |-> f.generation, tenant |-> f.tenant,
   listenerPort |-> f.listenerPort, media |-> f.media, range |-> f.range,
   address |-> f.address, sources |-> f.sources, accepted |-> accepted, now |-> now]

ClaimedLineage(m) ==
  IF m.sequence = 1 THEN Nothing
  ELSE [sequence |-> m.rollback.sequence, digest |-> m.rollback.digest]

RevalidateContract(m, f) ==
  /\ m.sequence = 1 \/ m.rollback # Nothing
  /\ ValidateEnvelope(m, FactsContext(f, ClaimedLineage(m), m.issued))

(* build_local_health_gate_plan: the order and parameters are exact.        *)
GatePlanOK(m) ==
  /\ [i \in DOMAIN m.gates |-> m.gates[i].type] = HealthOrder
  /\ \A i \in DOMAIN m.gates :
       /\ m.gates[i].timeout = GateParameters[m.gates[i].type].timeout
       /\ m.gates[i].attempts = GateParameters[m.gates[i].type].attempts

-----------------------------------------------------------------------------
(* _extract_effective: narrower than the contract.                          *)

(* Mutant: any two routes.                                                  *)
AnyRoutes(m) == Cardinality(Of(m, "route")) = 2

RoutesExact(m) ==
  /\ Cardinality(Of(m, "route")) = 2
  /\ \A r, s \in Of(m, "route") : r.spec.prefix = s.spec.prefix
  /\ \A r \in Of(m, "route") : r.spec.enabled

NetworksExact(m, f) ==
  /\ Spec(m, "connector").sources = Spec(m, "listener").sources
  /\ Spec(m, "listener").sources = f.sources
  /\ f.sources \cap (f.signaling \cup f.teamsMedia \cup f.synthetic) = {}

SessionsExact(m, f) ==
  /\ Spec(m, "media").sessions <= Size(f.media) \div 4
  /\ Spec(m, "media").sessions <= Size(f.range) \div 2
  /\ Spec(m, "capacity").maximum = Spec(m, "media").sessions

ExtractOK(m, f) ==
  /\ m.lifecycle = "ACTIVE"
  /\ TargetsContext(m, f)
  /\ RoutesExact(m) /\ NetworksExact(m, f)
  /\ SameRange(Spec(m, "connector"), f.range)
  /\ Spec(m, "listener").port = f.listenerPort
  /\ SameRange(Spec(m, "media"), f.media) /\ Spec(m, "media").address = f.address
  /\ SessionsExact(m, f)
  /\ {a.kind : a \in m.artifacts} = TenantArtifactKinds /\ Cardinality(m.artifacts) = 3
  /\ Spec(m, "connector").host = Spec(m, "connector").serverName

(* The fragment of the two routes, as far as a manifest decides it.         *)
OpensipsFragment(m, f) ==
  [token |-> [tenant |-> f.tenant, node |-> f.node],
   pbx |-> [host |-> Spec(m, "connector").host, port |-> Spec(m, "connector").port],
   prefix |-> (CHOOSE r \in Of(m, "route") : TRUE).spec.prefix,
   range |-> f.range]

RtpengineConfig(m, f) ==
  [address |-> f.address, media |-> f.media, sessions |-> Spec(m, "media").sessions]

(* A rule accepts a protocol from a set of networks to a port range; media  *)
(* of the PBX comes from its destination range only.                        *)
Rule(sources, protocol, to, from) ==
  [sources |-> sources, protocol |-> protocol, to |-> to, from |-> from]

Port(p) == [start |-> p, end |-> p]

AnyPort == [start |-> 0, end |-> 65535]

SyntheticRules(f) ==
  IF f.synthetic = {} THEN {}
  ELSE {Rule(f.synthetic, "udp", f.media, AnyPort),
        Rule(f.synthetic, "tcp", Port(TeamsPort), AnyPort)}

(* Mutant: the media rule forgets the source ports.                         *)
NftablesAnyPort(m, f) ==
  {Rule(Spec(m, "listener").sources, "tcp", Port(ListenerPort), AnyPort),
   Rule(Spec(m, "listener").sources, "udp", f.media, AnyPort),
   Rule(f.teamsMedia, "udp", f.media, AnyPort),
   Rule(f.signaling, "tcp", Port(TeamsPort), AnyPort)}

NftablesPolicy(m, f) ==
  {Rule(Spec(m, "listener").sources, "tcp", Port(ListenerPort), AnyPort),
   Rule(Spec(m, "listener").sources, "udp", f.media, f.range),
   Rule(f.teamsMedia, "udp", f.media, AnyPort),
   Rule(f.signaling, "tcp", Port(TeamsPort), AnyPort)} \cup SyntheticRules(f)

Render(m, f) ==
  [OPENSIPS |-> OpensipsFragment(m, f), RTPENGINE |-> RtpengineConfig(m, f),
   NFTABLES |-> NftablesPolicy(m, f)]

(* The digest of an artifact is its content.                                *)
MatchDeclarations(m, rendered) ==
  \A a \in m.artifacts : a.content = rendered[a.kind]

(* compile_tenant_bundle of an envelope with the agent's receipt.           *)
Compiles(e, f, receipt) ==
  /\ FactsOK(f) /\ ReceiptOK(e, receipt)
  /\ e.manifest.lifecycle = "ACTIVE"
  /\ RevalidateContract(e.manifest, f)
  /\ GatePlanOK(e.manifest) /\ receipt.plan = PlanOf(e.manifest)
  /\ ExtractOK(e.manifest, f)
  /\ MatchDeclarations(e.manifest, Render(e.manifest, f))

(* Secrets stay out of the bundle by construction: no rendered file depends *)
(* on a secret reference.                                                   *)
CompileEvidence(e, f) ==
  [manifest |-> e.manifest, facts |-> f, artifacts |-> Render(e.manifest, f),
   plan |-> PlanOf(e.manifest), range |-> f.range,
   synthetic |-> f.synthetic # {}]
=============================================================================
