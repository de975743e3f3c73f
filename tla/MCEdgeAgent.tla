------------------------------ MODULE MCEdgeAgent ------------------------------
(***************************************************************************)
(* Four parts of the Edge that share no state: the agent's protected file, *)
(* the publication of signed releases, the signed health gates and the     *)
(* bootstrap import.  A behaviour is one of the part Init picks, and the   *)
(* others stand still.                                                     *)
(***************************************************************************)
EXTENDS EdgeAgent, EdgePublication, EdgeHealth, EdgeBootstrap, TLC

VARIABLE part

partVars == <<part, agentVars, publicationVars, healthVars, bootstrapVars>>

EdgeInit ==
  /\ part \in {"state", "publication", "health", "bootstrap"}
  /\ AgentInit /\ PublicationInit /\ HealthInit /\ BootstrapInit
  /\ part # "health" => hostPasses = AllChecks

(* Bound: every run of generate-key is over before the first release is     *)
(* staged; a run that starts later finds the seed and only refuses.         *)
KeysSettled ==
  (\E n \in Nodes : fleet[n].highest > 0) =>
    \A g \in Generators : generating[g] = "over"

EdgeNext ==
  /\ UNCHANGED part
  /\ \/ /\ part = "state" /\ AgentNext
        /\ UNCHANGED <<publicationVars, healthVars, bootstrapVars>>
     \/ /\ part = "publication" /\ PublicationNext /\ KeysSettled'
        /\ UNCHANGED <<agentVars, healthVars, bootstrapVars>>
     \/ /\ part = "health" /\ HealthNext
        /\ UNCHANGED <<agentVars, publicationVars, bootstrapVars>>
     \/ /\ part = "bootstrap" /\ BootstrapNext
        /\ UNCHANGED <<agentVars, publicationVars, healthVars>>

EdgeSpec == EdgeInit /\ [][EdgeNext]_partVars

-----------------------------------------------------------------------------
(* The agent's file: two first manifests, rivals c2 and d2 for sequence 2, a *)
(* c3 that follows c2, a d3 reissued against c1 after a failed sequence 2,   *)
(* and a c4 after c3.  e2 claims a null lineage above sequence 1, which      *)
(* _validate_rollback refuses.                                               *)
CONSTANTS c1, d1, c2, d2, e2, c3, d3, c4

MCCandidate == {c1, d1, c2, d2, e2, c3, d3, c4}
MCSeqOf == (c1 :> 1) @@ (d1 :> 1) @@ (c2 :> 2) @@ (d2 :> 2) @@ (e2 :> 2)
             @@ (c3 :> 3) @@ (d3 :> 3) @@ (c4 :> 4)
MCParent == (c1 :> Bootstrap) @@ (d1 :> Bootstrap) @@ (c2 :> c1) @@ (d2 :> c1)
             @@ (e2 :> Bootstrap) @@ (c3 :> c2) @@ (d3 :> c1) @@ (c4 :> c3)

-----------------------------------------------------------------------------
(* Publication: both nodes, fixture and live profiles, facts and authority   *)
(* that agree and that do not, ranges and secrets at their boundaries.       *)
CONSTANTS n1, n2, fx, ms, mm, ad

MCNodes == {"sbc1", "sbc2"}

SomeFacts(n, g, sources, first, last) ==
  [node |-> n, generation |-> g, tenant |-> "tenant", address |-> n,
   sources |-> sources, signaling |-> {ms}, teamsMedia |-> {mm}, synthetic |-> {},
   listenerPort |-> 15061, media |-> [start |-> 20000, end |-> 20255],
   range |-> [start |-> first, end |-> last]]

MCFacts ==
  [sbc1 |-> <<SomeFacts("sbc1", 1, {fx}, 21000, 21127),
              SomeFacts("sbc1", 2, {n1, n2}, 31000, 31099),
              SomeFacts("sbc1", 3, {fx}, 30000, 30127)>>,
   sbc2 |-> <<SomeFacts("sbc2", 1, {fx}, 21000, 21127),
              SomeFacts("sbc2", 2, {n1, n2}, 31000, 31003)>>]

(* The leaves of the private profile have less than a day left at time 1.    *)
Material(n, profile) ==
  [host |-> n, from |-> 0, until |-> IF profile = "private" THEN 88000 ELSE 90000]

SomeAuthority(n, g, profile) ==
  [node |-> n, generation |-> g, profile |-> profile, administrators |-> {ad},
   secrets |-> [s \in SecretNames(profile) |-> Material(n, profile)]]

MCAuthority ==
  [sbc1 |-> <<SomeAuthority("sbc1", 1, "synthetic"), SomeAuthority("sbc1", 2, "direct"),
              SomeAuthority("sbc1", 3, "private")>>,
   sbc2 |-> <<SomeAuthority("sbc2", 1, "direct"), SomeAuthority("sbc2", 2, "direct")>>]

SomeBody(kind, host, port, sources, first, last, sessions) ==
  [kind |-> kind, host |-> host, port |-> port, sources |-> sources,
   range |-> [start |-> first, end |-> last], prefix |-> "+971",
   sessions |-> sessions, maximum |-> sessions, reserved |-> 1,
   fixtureSecrets |-> kind = "synthetic", ttl |-> IF sessions = 2 THEN 3600 ELSE 900]

Synthetic(sessions) ==
  SomeBody("synthetic", "pbx-fixture.invalid", 16061, {fx}, 21000, 21127, sessions)

Private(sessions) ==
  SomeBody("private", "carrier.vivolution.ae", 5061, {fx}, 30000, 30127, sessions)

Direct(host, sources, last, sessions) ==
  SomeBody("direct", host, 5061, sources, 31000, last, sessions)

MCBodies ==
  {Synthetic(64), Synthetic(65), Private(64), Direct("pbx.a.ae", {n1, n2}, 31099, 50),
   Direct("pbx.a.ae", {n1, n2}, 31099, 51), Direct("pbx.a.ae", {n1}, 31099, 50),
   Direct("pbx.a.ae", {n1, n2}, 31003, 2)}

MCPublicNets == {n1, n2, ms, mm, ad}
MCPublicHosts == {"pbx.a.ae", "a.onmicrosoft.com"}
MCMicrosoftHosts == {"a.onmicrosoft.com"}

MCSymmetry == Permutations(Generators)

(* The type invariants of the four parts.                                   *)
EdgeTypesOK == AgentTypeOK /\ PublicationTypeOK /\ HealthTypeOK /\ BootstrapTypeOK
=============================================================================
