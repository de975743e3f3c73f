----------------------------- MODULE RuntimeContracts -----------------------------
(***************************************************************************)
(* edge/runtime/contracts.py: the root runtime verifies the signed         *)
(* envelope, the agent's receipt and the compiler's files once more, under *)
(* an authority the manifest cannot reach, and renders what the services   *)
(* will run.  A configuration is the record of what decides whom it serves.*)
(***************************************************************************)
EXTENDS ControlPlane

CONSTANT MicrosoftHosts     \* names under onmicrosoft.com

CommonSecrets ==
  {"edge chain", "edge key", "microsoft CA", "pbx CA", "public CA"}

SecretNames(profile) ==
  IF profile = "synthetic"
  THEN CommonSecrets \cup {"fixture CA", "fixture certificate", "fixture key"}
  ELSE CommonSecrets

(* RuntimeAuthority.from_mapping.  A digest is the material itself.         *)
AuthorityOK(a) ==
  /\ a.profile \in Kinds /\ a.generation >= 1
  /\ a.administrators # {} /\ a.administrators \subseteq PublicNets
  /\ DOMAIN a.secrets = SecretNames(a.profile)

(* validate_secret_material: exactly the material of the authority, and a   *)
(* day of validity left in every leaf.                                      *)
SecretMaterialOK(f, a, secrets, now) ==
  /\ secrets = a.secrets
  /\ secrets["edge chain"].host = f.node
  /\ \A name \in {"edge chain", "fixture certificate"} \cap DOMAIN secrets :
       /\ secrets[name].from <= now /\ secrets[name].until >= now + 86400

(* validate_local_health_gate_plan.                                         *)
LocalHealthGatePlan(plan, m) ==
  /\ plan.manifest = m /\ Len(plan.gates) = 3
  /\ \A i \in 1..3 :
       /\ plan.gates[i].refs # {}
       /\ plan.gates[i].type = HealthOrder[i]
       /\ plan.gates[i].timeout = 30
       /\ plan.gates[i].attempts = GateParameters[HealthOrder[i]].attempts

-----------------------------------------------------------------------------
(* The three files of the compiler.                                         *)

(* parse_compiler_fragment: a route, whose fragment the file must be.       *)
ParsedFragment(file, f) ==
  /\ file.token = [tenant |-> f.tenant, node |-> f.node]
  /\ 1024 <= file.pbx.port /\ file.pbx.port <= 65535 /\ file.range = f.range

ParsedRtpengine(file, f) ==
  /\ file.address = f.address /\ file.media = f.media /\ file.sessions \in 1..64

(* expected_nft_policy is made of the facts alone.                          *)
ExpectedPolicy(f) ==
  {Rule(f.sources, "tcp", Port(ListenerPort), AnyPort),
   Rule(f.sources, "udp", f.media, f.range),
   Rule(f.teamsMedia, "udp", f.media, AnyPort),
   Rule(f.signaling, "tcp", Port(TeamsPort), AnyPort)} \cup SyntheticRules(f)

-----------------------------------------------------------------------------
(* Rendering.                                                               *)

(* render_runtime_rtpengine: what a realm advertises.                       *)
RuntimeRtpengine(f, a, spec) ==
  [media |-> spec.media, sessions |-> spec.sessions,
   realms |-> CASE a.profile = "synthetic" -> [default |-> "private address"]
                [] a.profile = "direct"    -> [default |-> f.address]
                [] a.profile = "private"   -> [private |-> "private address",
                                               public |-> f.address]]

(* The fixture plays Teams on a port of its own.                            *)
FixtureTeamsPort == 25061

(* Ports of Microsoft media processors, and of the fixtures.                *)
MicrosoftMedia == {[start |-> 3478, end |-> 3481], [start |-> 49152, end |-> 53247]}

FixtureMedia == {[start |-> 21000, end |-> 21127], [start |-> 22000, end |-> 22063]}

(* Mutant: the fixture is let in to the Teams ports under every profile.    *)
FixtureEverywhere(f, a) ==
  {Rule(a.administrators, "tcp", Port(22), AnyPort),
   Rule(f.sources, "tcp", Port(ListenerPort), AnyPort),
   Rule(f.sources, "udp", f.media, f.range),
   Rule(f.sources, "tcp", Port(TeamsPort), AnyPort),
   Rule(f.sources, "udp", f.media, AnyPort)}
  \cup (IF a.profile \in Live
        THEN {Rule(f.signaling, "tcp", Port(TeamsPort), AnyPort)}
               \cup {Rule(f.teamsMedia, "udp", f.media, r) : r \in MicrosoftMedia}
        ELSE {})

(* render_nftables: the input chain, dropping the rest; lo, established     *)
(* connections, ICMP and DHCP aside.                                        *)
NftablesInput(f, a) ==
  {Rule(a.administrators, "tcp", Port(22), AnyPort),
   Rule(f.sources, "tcp", Port(ListenerPort), AnyPort),
   Rule(f.sources, "udp", f.media, f.range)}
  \cup (IF a.profile \in Live
        THEN {Rule(f.signaling, "tcp", Port(TeamsPort), AnyPort)}
               \cup {Rule(f.teamsMedia, "udp", f.media, r) : r \in MicrosoftMedia}
        ELSE {Rule(f.sources, "tcp", Port(TeamsPort), AnyPort),
              Rule(f.sources, "udp", f.media, AnyPort)})

(* The output chain, as far as the profile decides it: to, not from.        *)
NftablesOutput(f, a, route) ==
  IF a.profile \in Live
  THEN {Rule(f.signaling, "tcp", Port(TeamsPort), AnyPort),
        Rule(f.sources, "tcp", Port(route.pbx.port), AnyPort),
        Rule(f.sources, "udp", f.range, f.media)}
         \cup {Rule(f.teamsMedia, "udp", r, f.media) : r \in MicrosoftMedia}
  ELSE {Rule({FixtureNet}, "tcp", Port(p), AnyPort) :
          p \in {FixturePort, FixtureTeamsPort}}
         \cup {Rule({FixtureNet}, "udp", r, f.media) : r \in FixtureMedia}

(* _runtime_tenant_fragment: where calls go.  Live profiles fail over       *)
(* between three Microsoft hubs.                                            *)
PbxTarget(f, a, route) ==
  IF a.profile = "direct" THEN [networks |-> f.sources, port |-> route.pbx.port]
  ELSE [networks |-> {FixtureNet},
        port |-> IF a.profile = "synthetic" THEN FixturePort ELSE PbxPort]

TeamsTarget(f, a) ==
  IF a.profile = "synthetic" THEN [networks |-> {FixtureNet}, port |-> FixtureTeamsPort]
  ELSE [networks |-> f.signaling, port |-> TeamsPort]

(* The realms a call passes through, each way; one without them.            *)
MediaDirections(a) ==
  IF a.profile = "private"
  THEN [TEAMS_TO_PBX |-> <<"public", "private">>, PBX_TO_TEAMS |-> <<"private", "public">>]
  ELSE [TEAMS_TO_PBX |-> <<"default", "default">>, PBX_TO_TEAMS |-> <<"default", "default">>]

(* _direct_options_routes: keepalives, in live profiles.                    *)
OptionsTargets(f, a, route) ==
  IF a.profile \in Live THEN {TeamsTarget(f, a), PbxTarget(f, a, route)} ELSE {}

(* _tls_domain: who is believed on a listener or a connection.              *)
TlsDomains(a) ==
  IF a.profile = "synthetic"
  THEN [teams |-> "fixture CA", pbx |-> "fixture CA", own |-> "fixture certificate"]
  ELSE [teams |-> "microsoft CA", pbx |-> "pbx CA", own |-> "edge chain"]

(* render_opensips: two listeners, each with its sources and its route.     *)
Opensips(f, a, route) ==
  [teamsSources |-> IF a.profile = "synthetic" THEN f.sources ELSE f.signaling,
   pbxSources |-> f.sources, domains |-> TlsDomains(a),
   pbx |-> PbxTarget(f, a, route), teams |-> TeamsTarget(f, a),
   options |-> OptionsTargets(f, a, route), directions |-> MediaDirections(a)]

Configuration(f, a, files) ==
  [opensips |-> Opensips(f, a, files["OPENSIPS"]),
   rtpengine |-> RuntimeRtpengine(f, a, files["RTPENGINE"]),
   input |-> NftablesInput(f, a), output |-> NftablesOutput(f, a, files["OPENSIPS"])]

-----------------------------------------------------------------------------
(* Validation.                                                              *)

(* _pinned_keyring and verify_authorized_signatures: one key.               *)
SignedBy(e, key) == key # Nothing /\ key \in e.keys

(* _validation_context: the agent's and the runtime's accepted release.     *)
NodeContext(f, active, now) ==
  FactsContext(f, IF active = Nothing THEN Nothing
                  ELSE [sequence |-> active.sequence, digest |-> active], now)

(* _verify_root_signed_envelope: root is the runtime's own replay floor and *)
(* active release.                                                          *)
RootVerifies(e, f, root, key, now) ==
  /\ ValidateEnvelope(e.manifest, NodeContext(f, root.active, now))
  /\ e.manifest.sequence > root.highest
  /\ SignedBy(e, key)
  /\ LocalHealthGatePlan(PlanOf(e.manifest), e.manifest)
  /\ {d.kind : d \in e.manifest.artifacts} = TenantArtifactKinds

(* _validate_signed_runtime_profile_identity: resource identifiers are the  *)
(* only sign of a profile in a manifest.                                    *)
ProfileIdentityOK(m, a) ==
  LET ids == {r.id : r \in m.resources}
      private == {ResourceIds("private")[t] : t \in DOMAIN ResourceIds("private")}
  IN  IF a.profile # "private" THEN ids \cap private = {}
      ELSE ids = private \cup {MediaId, CapacityId}

(* _validate_compile_evidence.                                              *)
EvidenceOK(evidence, f, files, receipt) ==
  /\ evidence.manifest = receipt.manifest /\ evidence.facts = f
  /\ evidence.range = f.range /\ evidence.synthetic = (f.synthetic # {})
  /\ LocalHealthGatePlan(evidence.plan, receipt.manifest)
  /\ evidence.plan = receipt.plan /\ evidence.artifacts = files

(* The rest of validate_candidate: what each profile requires of the facts  *)
(* and of the compiled route.                                               *)
SyntheticOK(f, route) ==
  /\ f.synthetic = {} /\ f.sources = {FixtureNet}
  /\ SameRange(f.range, FixtureRange)
  /\ route.pbx = [host |-> FixtureHost, port |-> FixturePort]

PrivateOK(f, a, route) ==
  /\ a.generation >= 3 /\ f.synthetic = {} /\ f.sources = {FixtureNet}
  /\ SameRange(f.range, CarrierRange)
  /\ route.pbx = [host |-> CarrierHost, port |-> PbxPort] /\ route.prefix = "+971"

DirectOK(f, a, route) ==
  /\ a.generation >= 2 /\ f.synthetic = {} /\ f.sources \subseteq PublicNets
  /\ route.pbx.host \in PublicHosts \ MicrosoftHosts /\ route.pbx.port = PbxPort
  /\ ~SameRange(route.range, FixtureRange) /\ Size(route.range) >= 100
  /\ route.prefix = "+971"

(* Mutant: the profile's own requirements are forgotten.                    *)
AnyProfile(f, a, route) == f.synthetic = {}

ProfileFits(f, a, route) ==
  CASE a.profile = "synthetic" -> SyntheticOK(f, route)
    [] a.profile = "private"   -> PrivateOK(f, a, route)
    [] a.profile = "direct"    -> DirectOK(f, a, route)

(* What the compiler hands to the runtime.                                  *)
HandOff(e, f) ==
  [envelope |-> e, receipt |-> Receipt(e), evidence |-> CompileEvidence(e, f),
   files |-> Render(e.manifest, f)]

ValidateCandidate(h, f, a, secrets, root, key, now) ==
  /\ FactsOK(f) /\ AuthorityOK(a)
  /\ a.node = f.node /\ a.generation = f.generation
  /\ RootVerifies(h.envelope, f, root, key, now)
  /\ ProfileIdentityOK(h.envelope.manifest, a)
  /\ ReceiptOK(h.envelope, h.receipt)
  /\ EvidenceOK(h.evidence, f, h.files, h.receipt)
  /\ MatchDeclarations(h.envelope.manifest, h.files)
  /\ SecretMaterialOK(f, a, secrets, now)
  /\ ParsedFragment(h.files["OPENSIPS"], f)
  /\ ProfileFits(f, a, h.files["OPENSIPS"])
  /\ ParsedRtpengine(h.files["RTPENGINE"], f)
  /\ h.files["NFTABLES"] = ExpectedPolicy(f)
=============================================================================
