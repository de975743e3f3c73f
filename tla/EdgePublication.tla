---------------------------- MODULE EdgePublication ----------------------------
(***************************************************************************)
(* How a signed release comes to run on an Edge node: the control plane    *)
(* generates its signing seed, signs a profile for one node and writes a   *)
(* release directory; the node's agent stages what it verifies, the node   *)
(* compiles it again, and the root runtime validates all of it before a    *)
(* commit.  Four validators written apart must agree, over replaced nodes, *)
(* expired releases, copied lineage and half-written directories.          *)
(***************************************************************************)
EXTENDS RuntimeContracts

CONSTANTS
  Nodes,          \* sbc1/A and sbc2/B
  Bodies,         \* profiles without their sequence and lineage
  FactsOf,        \* node to locally provisioned facts, by generation
  AuthorityOf,    \* node to the root runtime's authority, by generation
  Generators,     \* runs of generate-key; each would make its own seed
  Dirs,           \* names of output directories
  Step,           \* seconds to a tick
  MaxSequence, MaxTime    \* bounds

ASSUME PublicationConstants ==
  /\ Bodies \subseteq ProfileBody
  /\ FactsOf \in [Nodes -> Seq(NodeFacts)]
  /\ \A n \in Nodes : FactsOf[n] # <<>>
  /\ \A n \in Nodes : \A g \in DOMAIN FactsOf[n] :
       /\ FactsOf[n][g].node = n /\ FactsOf[n][g].generation = g
       /\ AuthorityOf[n][g].generation = g /\ AuthorityOf[n][g].node = n
       /\ AuthorityOK(AuthorityOf[n][g])
  /\ Step \in Nat
  /\ MaxSequence \in Nat /\ MaxTime \in Nat
  /\ Nothing \notin Generators

(* 10.20.1.4 is a private address.                                          *)
ASSUME FixtureIsPrivate == FixtureNet \notin PublicNets

VARIABLES
  seed,        \* the seed file: whose seed, and its hard links
  generating,  \* runs of generate-key
  announced,   \* seeds whose public metadata was printed, to be pinned by nodes
  shelf,       \* output directories
  fleet,       \* nodes: generation, the agent's state, the runtime's floor
  clock

publicationVars == <<seed, generating, announced, shelf, fleet, clock>>

-----------------------------------------------------------------------------
(* generate_private_seed: a temporary file is linked to its name, once.     *)

StartGenerate(g) ==
  /\ generating[g] = "ready"
  /\ generating' = [generating EXCEPT ![g] = "temporary"]
  /\ UNCHANGED <<seed, announced, shelf, fleet, clock>>

(* Mutant: the seed is renamed into place, over an existing one.            *)
RenameSeed(g) ==
  /\ generating[g] = "temporary"
  /\ seed' = [owner |-> g, links |-> 2]
  /\ generating' = [generating EXCEPT ![g] = "linked"]
  /\ UNCHANGED <<announced, shelf, fleet, clock>>

LinkSeed(g) ==
  /\ generating[g] = "temporary" /\ seed.owner = Nothing
  /\ seed' = [owner |-> g, links |-> 2]
  /\ generating' = [generating EXCEPT ![g] = "linked"]
  /\ UNCHANGED <<announced, shelf, fleet, clock>>

RefuseLink(g) ==
  /\ generating[g] = "temporary" /\ seed.owner # Nothing
  /\ generating' = [generating EXCEPT ![g] = "over"]
  /\ UNCHANGED <<seed, announced, shelf, fleet, clock>>

(* The directory may fail to sync: the seed stays, and nothing is printed.  *)
UnlinkTemporary(g) ==
  /\ generating[g] = "linked"
  /\ seed' = [seed EXCEPT !.links = 1]
  /\ announced' \in {announced, announced \cup {g}}
  /\ generating' = [generating EXCEPT ![g] = "over"]
  /\ UNCHANGED <<shelf, fleet, clock>>

(* Killed after the link, the run leaves a seed nobody can read or replace. *)
KillGenerator(g) ==
  /\ generating[g] \in {"temporary", "linked"}
  /\ generating' = [generating EXCEPT ![g] = "over"]
  /\ UNCHANGED <<seed, announced, shelf, fleet, clock>>

(* _read_private_seed.                                                      *)
SeedReadable == seed.owner # Nothing /\ seed.links = 1

-----------------------------------------------------------------------------
(* Releases.                                                                *)

Held(n) == {fleet[n].active, fleet[n].pending, fleet[n].aborted} \ {Nothing}

Shelved == {shelf[d].release : d \in {d \in Dirs : shelf[d] # Nothing}}

Known == Shelved \cup UNION {Held(n) : n \in Nodes}

FactsNow(n) == FactsOf[n][fleet[n].generation]

AuthorityNow(n) == AuthorityOf[n][fleet[n].generation]

SignedRelease(n, g, b, accepted) ==
  [node |-> n, generation |-> g, body |-> b, sequence |-> NextSequence(accepted),
   parent |-> accepted, issued |-> clock * Step, signer |-> seed.owner]

ManifestOf(r) ==
  BuildManifest(r.body, FactsOf[r.node][r.generation], r.parent, r.issued)

EnvelopeOf(r) == Envelope(ManifestOf(r), {r.signer})

(* The operator has the facts of any generation, and the digests of any     *)
(* release; the files are written in the order of their names.              *)
Materialize(d, n, b) ==
  /\ shelf[d] = Nothing /\ SeedReadable
  /\ \E g \in 1..fleet[n].generation, accepted \in Known \cup {Nothing} :
       /\ NextSequence(accepted) <= MaxSequence
       /\ Materializes(b, FactsOf[n][g], accepted, clock * Step, seed.owner)
       /\ shelf' = [shelf EXCEPT ![d] =
            [release |-> SignedRelease(n, g, b, accepted), files |-> {}, writing |-> TRUE]]
  /\ UNCHANGED <<seed, generating, announced, fleet, clock>>

(* Mutant: the envelope is written first.                                   *)
EnvelopeFirst == <<"envelope", "public key", "artifacts", "evidence">>

FileOrder == <<"artifacts", "evidence", "envelope", "public key">>

WriteFile(d) ==
  /\ shelf[d] # Nothing /\ shelf[d].writing
  /\ LET written == Cardinality(shelf[d].files) + 1 IN
       shelf' = [shelf EXCEPT ![d].files = @ \cup {FileOrder[written]},
                              ![d].writing = written < 4]
  /\ UNCHANGED <<seed, generating, announced, fleet, clock>>

KillWriter(d) ==
  /\ shelf[d] # Nothing /\ shelf[d].writing
  /\ shelf' = [shelf EXCEPT ![d].writing = FALSE]
  /\ UNCHANGED <<seed, generating, announced, fleet, clock>>

(* An existing directory is never written again; the operator removes it.   *)
RemoveDirectory(d) ==
  /\ shelf[d] # Nothing /\ ~shelf[d].writing
  /\ shelf' = [shelf EXCEPT ![d] = Nothing]
  /\ UNCHANGED <<seed, generating, announced, fleet, clock>>

-----------------------------------------------------------------------------
(* The node.                                                                *)

(* verify_and_stage, without the files.                                     *)
AgentVerifies(n, e, now) ==
  /\ e.manifest.sequence > fleet[n].highest /\ fleet[n].pending = Nothing
  /\ ValidateEnvelope(e.manifest, NodeContext(FactsNow(n), fleet[n].active, now))
  /\ \E key \in announced : SignedBy(e, key)

(* Sequence and pending candidate are looked at before anything else.       *)
AgentTakes(n, r) ==
  /\ r.sequence > fleet[n].highest /\ fleet[n].pending = Nothing
  /\ AgentVerifies(n, EnvelopeOf(r), clock * Step)

(* Mutant: the floor is raised at the commit.                               *)
StageBelowFloor(n, d) ==
  /\ shelf[d] # Nothing /\ "envelope" \in shelf[d].files
  /\ AgentTakes(n, shelf[d].release)
  /\ fleet' = [fleet EXCEPT ![n].pending = shelf[d].release]
  /\ UNCHANGED <<seed, generating, announced, shelf, clock>>

StageRelease(n, d) ==
  /\ shelf[d] # Nothing /\ "envelope" \in shelf[d].files
  /\ AgentTakes(n, shelf[d].release)
  /\ fleet' = [fleet EXCEPT ![n].pending = shelf[d].release,
                            ![n].highest = shelf[d].release.sequence]
  /\ UNCHANGED <<seed, generating, announced, shelf, clock>>

(* The node's compiler, and the runtime at the time it applies.             *)
RuntimeTakes(n, e, now) ==
  /\ Compiles(e, FactsNow(n), Receipt(e))
  /\ \E key \in announced :
       ValidateCandidate(HandOff(e, FactsNow(n)), FactsNow(n), AuthorityNow(n),
                         AuthorityNow(n).secrets,
                         [highest |-> fleet[n].floor, active |-> fleet[n].active], key, now)

(* A refused release can only be aborted; so can one that failed its gates, *)
(* before or after the runtime raised its floor.                            *)
CommitRelease(n) ==
  /\ fleet[n].pending # Nothing
  /\ RuntimeTakes(n, EnvelopeOf(fleet[n].pending), clock * Step)
  /\ fleet' = [fleet EXCEPT ![n].active = fleet[n].pending, ![n].pending = Nothing,
                            ![n].floor = fleet[n].pending.sequence]
  /\ UNCHANGED <<seed, generating, announced, shelf, clock>>

AbortRelease(n) ==
  /\ fleet[n].pending # Nothing
  /\ \E floor \in {fleet[n].floor, fleet[n].pending.sequence} :
       /\ floor # fleet[n].floor =>
            RuntimeTakes(n, EnvelopeOf(fleet[n].pending), clock * Step)
       /\ fleet' = [fleet EXCEPT ![n].aborted = fleet[n].pending,
                                 ![n].pending = Nothing, ![n].floor = floor]
  /\ UNCHANGED <<seed, generating, announced, shelf, clock>>

NewNode(generation) ==
  [generation |-> generation, highest |-> 0, active |-> Nothing,
   pending |-> Nothing, aborted |-> Nothing, floor |-> 0]

(* A replacement has a new generation, new facts and a fresh agent.         *)
ReplaceNode(n) ==
  /\ fleet[n].generation < Len(FactsOf[n])
  /\ fleet' = [fleet EXCEPT ![n] = NewNode(fleet[n].generation + 1)]
  /\ UNCHANGED <<seed, generating, announced, shelf, clock>>

(* MaxTime bounds time.                                                     *)
Tick ==
  /\ clock < MaxTime /\ clock' = clock + 1
  /\ UNCHANGED <<seed, generating, announced, shelf, fleet>>

PublicationInit ==
  /\ seed = [owner |-> Nothing, links |-> 0]
  /\ generating = [g \in Generators |-> "ready"]
  /\ announced = {}
  /\ shelf = [d \in Dirs |-> Nothing]
  /\ fleet = [n \in Nodes |-> NewNode(1)]
  /\ clock = 0

PublicationNext ==
  \/ \E g \in Generators :
       \/ StartGenerate(g) \/ LinkSeed(g) \/ RefuseLink(g)
       \/ UnlinkTemporary(g) \/ KillGenerator(g)
  \/ \E d \in Dirs :
       \/ \E n \in Nodes, b \in Bodies : Materialize(d, n, b)
       \/ WriteFile(d) \/ KillWriter(d) \/ RemoveDirectory(d)
       \/ \E n \in Nodes : StageRelease(n, d)
  \/ \E n \in Nodes : CommitRelease(n) \/ AbortRelease(n) \/ ReplaceNode(n)
  \/ Tick

PublicationSpec == PublicationInit /\ [][PublicationNext]_publicationVars

-----------------------------------------------------------------------------
(* What the same key might have signed for a node with a manifest of the    *)
(* contract but not by this control plane's build.                          *)

Variants == {"disabled route", "other prefix", "narrowed sources", "wider sources",
             "more sessions", "fewer attempts", "gates reordered", "other host",
             "connector only", "absent"}

Respecify(m, types, F(_)) ==
  [m EXCEPT !.resources =
     {IF r.type \in types THEN [r EXCEPT !.spec = F(r.spec)] ELSE r : r \in m.resources}]

Narrow(sources) == {CHOOSE s \in sources : TRUE}

Swapped(gates) == [gates EXCEPT ![1] = gates[2], ![2] = gates[1]]

Vary(m, variant) ==
  CASE variant = "disabled route" ->
         Respecify(m, {"route"}, LAMBDA s : [s EXCEPT !.enabled = s.direction = "TEAMS_TO_PBX"])
    [] variant = "other prefix" ->
         Respecify(m, {"route"}, LAMBDA s : [s EXCEPT !.prefix = s.direction])
    [] variant = "narrowed sources" ->
         Respecify(m, {"connector", "listener"},
                   LAMBDA s : [s EXCEPT !.sources = Narrow(s.sources)])
    [] variant = "wider sources" ->
         Respecify(m, {"connector", "listener"}, LAMBDA s : [s EXCEPT !.sources = Networks])
    [] variant = "connector only" ->
         Respecify(m, {"connector"}, LAMBDA s : [s EXCEPT !.sources = Networks])
    [] variant = "more sessions" ->
         Respecify(m, {"media"}, LAMBDA s : [s EXCEPT !.sessions = 65])
    [] variant = "other host" ->
         Respecify(m, {"connector"}, LAMBDA s : [s EXCEPT !.host = CarrierHost,
                                                          !.serverName = CarrierHost])
    [] variant = "fewer attempts" ->
         [m EXCEPT !.gates = [i \in DOMAIN @ |-> [@[i] EXCEPT !.attempts = 1]]]
    [] variant = "gates reordered" -> [m EXCEPT !.gates = Swapped(@)]
    [] variant = "absent" ->
         [m EXCEPT !.lifecycle = "ABSENT", !.resources = {}, !.artifacts = {}, !.secrets = {},
                   !.gates = <<[type |-> "TENANT_RESOURCES_ABSENT", refs |-> {},
                                timeout |-> 30, attempts |-> 1]>>]

(* Its declarations are those of what it renders.                           *)
Redeclare(m, f) ==
  IF m.lifecycle = "ABSENT" THEN m
  ELSE [m EXCEPT !.artifacts = Declared(m, Render(m, f), f)]

-----------------------------------------------------------------------------
(* Properties.                                                              *)

(* The type invariant.                                                      *)
PublicationTypeOK ==
  /\ seed.owner \in Generators \cup {Nothing} /\ seed.links \in 0..2
  /\ generating \in [Generators -> {"ready", "temporary", "linked", "over"}]
  /\ announced \subseteq Generators
  /\ \A n \in Nodes : /\ fleet[n].generation \in DOMAIN FactsOf[n]
                       /\ fleet[n].floor <= fleet[n].highest
  /\ \A r \in Known : /\ r.node \in Nodes /\ r.generation \in DOMAIN FactsOf[r.node]
                      /\ r.body \in Bodies /\ r.sequence \in 1..MaxSequence
                      /\ r.issued \in 0..(MaxTime * Step)

Deliverable(d) == shelf[d] # Nothing /\ "envelope" \in shelf[d].files

(* What the agent would stage from a release directory, half-written ones   *)
(* included, the node's own compiler builds to the signed digests: the      *)
(* agent asks for less than the compiler, and a staged release that does    *)
(* not compile can only be aborted, which burns its sequence.               *)
StageableBuilds ==
  \A n \in Nodes, d \in Dirs :
    Deliverable(d) /\ AgentTakes(n, shelf[d].release) =>
      /\ "artifacts" \in shelf[d].files
      /\ Compiles(EnvelopeOf(shelf[d].release), FactsNow(n),
                  Receipt(EnvelopeOf(shelf[d].release)))

(* Known: live PBX ranges under 100 ports or on the fixture's own, and      *)
(* hosts under onmicrosoft.com, which only the runtime refuses.             *)
RuntimeIsStricter(b) ==
  /\ b.kind = "direct"
  /\ \/ Size(b.range) < 100 \/ SameRange(b.range, FixtureRange)
     \/ b.host \in MicrosoftHosts

(* The leaves that the node's own secrets hold are its own and have a day   *)
(* left: no manifest decides that, and the runtime alone looks.             *)
SecretsFresh(n) ==
  SecretMaterialOK(FactsNow(n), AuthorityNow(n), AuthorityNow(n).secrets, clock * Step)

(* What the agent would stage the root runtime would run, on a node whose   *)
(* authority is of the profile's kind and whose secrets are fresh: nothing  *)
(* but the known differences is signed, staged and compiled to be refused   *)
(* at the end.                                                              *)
StageableRuns ==
  \A n \in Nodes, d \in Dirs :
    /\ Deliverable(d) /\ AgentTakes(n, shelf[d].release)
    /\ AuthorityNow(n).profile = shelf[d].release.body.kind /\ SecretsFresh(n)
    /\ ~RuntimeIsStricter(shelf[d].release.body)
    => RuntimeTakes(n, EnvelopeOf(shelf[d].release), clock * Step)

ForNode(n, r) == r.node = n /\ r.generation = fleet[n].generation

(* Whatever the key signs for a node, if agent, compiler and runtime all    *)
(* take it then it serves the peers, networks, ports and health gates that  *)
(* the node's own facts and authority give it, and no more sessions than    *)
(* have ports.                                                              *)
OnlyTheFactsDecide ==
  \A n \in Nodes, d \in Dirs, variant \in Variants :
    Deliverable(d) /\ ForNode(n, shelf[d].release) =>
      LET f == FactsNow(n)
          a == AuthorityNow(n)
          m == Redeclare(Vary(ManifestOf(shelf[d].release), variant), f)
          e == Envelope(m, {shelf[d].release.signer})
      IN  AgentVerifies(n, e, clock * Step) /\ RuntimeTakes(n, e, clock * Step) =>
            LET c == Configuration(f, a, Render(m, f)) IN
              /\ c.opensips.pbxSources = Spec(m, "listener").sources
              /\ Spec(m, "connector").sources = f.sources
              /\ c.rtpengine.media = f.media
              /\ 4 * c.rtpengine.sessions <= Size(f.media)
              /\ 2 * c.rtpengine.sessions <= Size(f.range)
              /\ m.gates[3].attempts = 3
              /\ \A r \in Of(m, "route") : r.spec.enabled

ConfigurationOf(n) ==
  Configuration(FactsNow(n), AuthorityNow(n),
                Render(ManifestOf(fleet[n].active), FactsNow(n)))

SourcesTo(rules, port) ==
  UNION {r.sources : r \in {r \in rules : r.protocol = "tcp" /\ Inside(port, r.to)}}

Reaches(rules, target) ==
  \E r \in rules : /\ r.protocol = "tcp" /\ Inside(target.port, r.to)
                   /\ target.networks \subseteq r.sources

(* In what a node runs, firewall and OpenSIPS let in the same networks on   *)
(* each listener, a network is let in as one peer unless it is the fixture, *)
(* every destination of a call or a keepalive can be reached, media goes    *)
(* out where it comes in, the fixture's authority is believed by nobody     *)
(* but the fixture, and no rule opens a control port of RTPengine.          *)
PeersHaveTheirListener ==
  \A n \in Nodes : fleet[n].active # Nothing =>
    LET c == ConfigurationOf(n)
        s == c.opensips
    IN  /\ SourcesTo(c.input, TeamsPort) = s.teamsSources
        /\ SourcesTo(c.input, ListenerPort) = s.pbxSources
        /\ s.teamsSources \cap s.pbxSources \subseteq {FixtureNet}
        /\ \A t \in {s.pbx, s.teams} \cup s.options : Reaches(c.output, t)
        /\ \E i \in c.input, o \in c.output :
             /\ i.protocol = "udp" /\ o.protocol = "udp"
             /\ SameRange(i.to, o.from) /\ SameRange(i.from, o.to)
             /\ i.sources = s.pbxSources /\ o.sources = s.pbxSources
        /\ s.domains.teams = "fixture CA" => s.teamsSources = {FixtureNet}
        /\ \A r \in c.input, p \in {2223, 2224} : ~Inside(p, r.to)

(* There is one signing key for good: what was announced, and what signed   *)
(* every release, is the seed in the file.                                  *)
OneSigningKey ==
  /\ announced \subseteq {seed.owner}
  /\ \A r \in Known : r.signer = seed.owner

(* A node holds releases for its own identity and generation, of one kind,  *)
(* although the agent does not know kinds, and runs only those of the kind  *)
(* its root authority names.                                                *)
OwnLineage ==
  \A n \in Nodes :
    /\ \A r \in Held(n) :
         /\ r.node = n /\ r.generation = fleet[n].generation
         /\ r.parent # Nothing => /\ r.parent.generation = r.generation
                                  /\ r.parent.body.kind = r.body.kind
    /\ fleet[n].active # Nothing => fleet[n].active.body.kind = AuthorityNow(n).profile

(* Every release a node commits continues the one it ran by one step, even  *)
(* when several were signed for the same sequence or from older lineage.    *)
ReleasesContinue ==
  [][\A n \in Nodes :
       fleet'[n].active # fleet[n].active /\ fleet'[n].active # Nothing =>
         /\ fleet'[n].active.parent = fleet[n].active
         /\ fleet'[n].active.sequence = NextSequence(fleet[n].active)]_publicationVars

(* Expected to fail.  controlplane/README.md: normal updates of one lineage *)
(* are preserved.  A node with a release and nothing pending takes one that *)
(* the control plane can make for it from that release.                     *)
UpdatesStayPossible ==
  \A n \in Nodes :
    fleet[n].active # Nothing /\ fleet[n].pending = Nothing =>
      \E b \in Bodies :
        /\ Materializes(b, FactsNow(n), fleet[n].active, clock * Step, seed.owner)
        /\ AgentTakes(n, SignedRelease(n, fleet[n].generation, b, fleet[n].active))

(* What the agent would stage builds and runs: the sequence number it burns *)
(* is not lost to a check that only a later component makes.                *)
StagedReleasesWork == StageableBuilds /\ StageableRuns

(* A node's releases are one lineage of its own, which each commit          *)
(* continues by one step.                                                   *)
LineageIsOne == []OwnLineage /\ ReleasesContinue

(* What a node runs follows from its own facts: nobody else decides, and    *)
(* the files made from them fit each other.                                 *)
NodesRunTheirFacts == OnlyTheFactsDecide /\ PeersHaveTheirListener
=============================================================================
