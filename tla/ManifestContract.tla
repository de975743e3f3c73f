---------------------------- MODULE ManifestContract ----------------------------
(***************************************************************************)
(* edge/schema/manifest_tool.py: the contract every tenant manifest meets, *)
(* as the control plane checks it before signing, the agent before staging *)
(* and the root runtime before running it.  A manifest is a record of what *)
(* the checks read; a digest is the value it is the digest of.  Manifests  *)
(* of cluster scope are made by nobody and are left out.                   *)
(*                                                                         *)
(* A context is what a validator knows locally: node, generation, tenant,  *)
(* ports and ranges, source networks, the accepted release and the time.   *)
(***************************************************************************)
EXTENDS Naturals, Sequences, FiniteSets

CONSTANT Nothing

TenantResourceTypes == {"connector", "listener", "route", "media", "capacity"}

TenantArtifactKinds == {"OPENSIPS", "RTPENGINE", "NFTABLES"}

GateTypes == {"ARTIFACT_DIGESTS", "OPENSIPS_CONFIG", "RTPENGINE_READY"}

(* Shared Teams TLS, tenant TLS, RTPengine ng and cli.                      *)
ReservedPorts == {5061, 15061, 2223, 2224}

Size(range) == range.end - range.start + 1

SameRange(a, b) == a.start = b.start /\ a.end = b.end

Inside(port, range) == range.start <= port /\ port <= range.end

(* A PBX media destination range.                                           *)
RangeOK(range, occupied) ==
  /\ range.start \in 1024..65534 /\ range.end \in 1025..65535
  /\ range.start % 2 = 0 /\ range.end % 2 = 1 /\ range.start <= range.end
  /\ Size(range) <= 4096
  /\ \A port \in occupied : ~Inside(port, range)

Of(m, type) == {r \in m.resources : r.type = type}

Spec(m, type) == (CHOOSE r \in Of(m, type) : TRUE).spec

-----------------------------------------------------------------------------
(* The parts of a manifest.                                                 *)

ArtifactsOK(m) ==
  /\ m.artifacts # {}
  /\ \A a, b \in m.artifacts : a.id = b.id => a = b
  /\ \A a \in m.artifacts : a.tenant = m.target.tenant /\ a.kind \in TenantArtifactKinds

SecretReferencesOK(m) ==
  /\ \A s, t \in m.secrets : s.ref = t.ref => s = t
  /\ \A s \in m.secrets : /\ s.tenant = m.target.tenant
                          /\ s.purpose \in {"CLIENT_IDENTITY", "SERVER_IDENTITY",
                                            "CLIENT_CA", "RTPENGINE_CONTROL"}

ConnectorOK(spec) ==
  /\ RangeOK(spec, ReservedPorts \cup {spec.port})
  /\ spec.port \in 1..65535 /\ spec.sources # {}

ListenerOK(spec) ==
  spec.port \in 1024..65535 /\ spec.port # 5061 /\ spec.sources # {} /\ spec.mutual

RouteOK(spec) == spec.direction \in {"TEAMS_TO_PBX", "PBX_TO_TEAMS"}

(* Two ports for RTP and RTCP on each of the two legs.                      *)
MediaOK(spec) ==
  /\ spec.start \in 1024..65534 /\ spec.end \in 1025..65535
  /\ spec.start % 2 = 0 /\ spec.end % 2 = 1 /\ spec.start <= spec.end
  /\ spec.sessions >= 1 /\ Size(spec) >= 4 * spec.sessions

CapacityOK(spec) == spec.reserved >= 1 /\ spec.reserved <= spec.maximum

(* What each type may be configured by, and the secrets it consumes.        *)
ConfiguredBy(type) ==
  CASE type = "listener" -> {"OPENSIPS", "NFTABLES"}
    [] type = "media"    -> {"RTPENGINE", "NFTABLES"}
    [] type = "capacity" -> {"OPENSIPS", "RTPENGINE"}
    [] OTHER             -> {"OPENSIPS"}

Consumes(r) ==
  CASE r.type = "connector" -> {[ref |-> r.spec.credential, purpose |-> "CLIENT_IDENTITY"]}
    [] r.type = "listener"  -> {[ref |-> r.spec.certificate, purpose |-> "SERVER_IDENTITY"],
                                [ref |-> r.spec.ca, purpose |-> "CLIENT_CA"]}
    [] OTHER                -> {}

ResourceOK(m, r) ==
  /\ r.type \in TenantResourceTypes /\ r.tenant = m.target.tenant
  /\ r.artifacts # {} /\ r.artifacts \subseteq {a.id : a \in m.artifacts}
  /\ \A a \in m.artifacts : a.id \in r.artifacts => a.kind \in ConfiguredBy(r.type)
  /\ CASE r.type = "connector" -> ConnectorOK(r.spec)
       [] r.type = "listener"  -> ListenerOK(r.spec)
       [] r.type = "route"     -> RouteOK(r.spec)
       [] r.type = "media"     -> MediaOK(r.spec)
       [] r.type = "capacity"  -> CapacityOK(r.spec)

(* One connector, listener, media block and capacity, and routes both ways  *)
(* over the connector, without two of one key.                              *)
InventoryOK(m) ==
  /\ \A type \in TenantResourceTypes \ {"route"} : Cardinality(Of(m, type)) = 1
  /\ {r.spec.direction : r \in Of(m, "route")} = {"TEAMS_TO_PBX", "PBX_TO_TEAMS"}
  /\ \A r, s \in m.resources : r.id = s.id => r = s
  /\ \A r \in Of(m, "route") : \E c \in Of(m, "connector") : r.spec.connector = c.id
  /\ \A r, s \in Of(m, "route") :
       /\ r.spec.direction = s.spec.direction /\ r.spec.prefix = s.spec.prefix
       /\ r.spec.priority = s.spec.priority
       => r = s

SessionsFit(m) ==
  /\ Size(Spec(m, "connector")) \div 2 >= Spec(m, "media").sessions
  /\ Spec(m, "capacity").maximum <= Spec(m, "media").sessions
  /\ Spec(m, "capacity").reserved <= Spec(m, "media").sessions

(* Every artifact and secret is used, the secrets for their one purpose.    *)
NothingUnused(m) ==
  LET used == UNION {Consumes(r) : r \in m.resources} IN
    /\ {a.id : a \in m.artifacts} = UNION {r.artifacts : r \in m.resources}
    /\ {u.ref : u \in used} = {s.ref : s \in m.secrets}
    /\ \A u \in used, s \in m.secrets :
         u.ref = s.ref => s.onNode /\ u.purpose = s.purpose

GateRefs(m, type) ==
  {r.id : r \in {r \in m.resources :
     CASE type = "ARTIFACT_DIGESTS" -> TRUE
       [] type = "OPENSIPS_CONFIG"  -> r.type \in {"connector", "listener", "route"}
       [] type = "RTPENGINE_READY"  -> r.type = "media"}}

GatesOK(m) ==
  /\ {m.gates[i].type : i \in DOMAIN m.gates} = GateTypes /\ Len(m.gates) = 3
  /\ \A i \in DOMAIN m.gates :
       /\ m.gates[i].refs = GateRefs(m, m.gates[i].type)
       /\ m.gates[i].timeout \in 1..600 /\ m.gates[i].attempts \in 1..10

RollbackOK(m) ==
  IF m.sequence = 1 THEN m.previous = Nothing /\ m.rollback = Nothing
  ELSE /\ m.previous # Nothing /\ m.rollback # Nothing
       /\ m.rollback.target = m.target
       /\ m.rollback.sequence < m.sequence /\ m.rollback.digest = m.previous

(* A tenant's absence carries nothing but its gate.                         *)
AbsenceOK(m) ==
  /\ m.resources = {} /\ m.artifacts = {} /\ m.secrets = {}
  /\ Len(m.gates) = 1 /\ m.gates[1].type = "TENANT_RESOURCES_ABSENT"
  /\ m.gates[1].refs = {}

-----------------------------------------------------------------------------
(* validate_envelope.                                                       *)

(* Activation time, in seconds: a TTL of an hour at most, five minutes of   *)
(* clock skew ahead.                                                        *)
TimeOK(m, now) ==
  /\ m.issued < m.expires /\ m.expires - m.issued <= 3600
  /\ m.issued <= now + 300 /\ now - m.issued <= 3600 /\ now < m.expires

StructureOK(m) ==
  /\ m.lifecycle = "ACTIVE" =>
       /\ ArtifactsOK(m) /\ SecretReferencesOK(m)
       /\ \A r \in m.resources : ResourceOK(m, r)
       /\ InventoryOK(m) /\ SessionsFit(m) /\ NothingUnused(m) /\ GatesOK(m)
  /\ m.lifecycle = "ABSENT" => AbsenceOK(m)
  /\ RollbackOK(m)

TargetsContext(m, ctx) ==
  m.target = [node |-> ctx.node, generation |-> ctx.generation, tenant |-> ctx.tenant]

(* The ports, ranges and address are those the node was given.              *)
AllocationOK(m, ctx) ==
  /\ Spec(m, "listener").port = ctx.listenerPort
  /\ SameRange(Spec(m, "media"), ctx.media)
  /\ SameRange(Spec(m, "connector"), ctx.range)
  /\ Spec(m, "media").address = ctx.address

(* Networks here are disjoint, so a subset of CIDRs is a subset of networks.*)
SourcesOK(m, ctx) ==
  /\ Spec(m, "connector").sources \subseteq ctx.sources
  /\ Spec(m, "listener").sources \subseteq ctx.sources

(* Mutant: a higher sequence is enough.                                     *)
HigherSequence(m, accepted) ==
  IF accepted = Nothing THEN TRUE ELSE m.sequence > accepted.sequence

(* High water and lineage: accepted is Nothing or a sequence and digest.    *)
AcceptedOK(m, accepted) ==
  IF accepted = Nothing
  THEN m.sequence > 0 /\ m.previous = Nothing /\ m.rollback = Nothing
  ELSE /\ m.sequence > accepted.sequence /\ m.previous = accepted.digest
       /\ m.rollback # Nothing /\ m.rollback.sequence = accepted.sequence

ValidateEnvelope(m, ctx) ==
  /\ TimeOK(m, ctx.now) /\ StructureOK(m) /\ TargetsContext(m, ctx)
  /\ m.lifecycle = "ACTIVE" => AllocationOK(m, ctx) /\ SourcesOK(m, ctx)
  /\ AcceptedOK(m, ctx.accepted)
=============================================================================
