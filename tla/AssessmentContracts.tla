------------------------- MODULE AssessmentContracts -------------------------
(* The assessment contract (rightsgate/contracts.py): the records detector  *)
(* adapters hand over and the validators an assembled assessment must pass. *)
(* An exception of a validator ends the execution.  Wording, limitations,   *)
(* hashes, versions and locators are left out: a record's id is the tuple   *)
(* of the parts its id string is built from, and ids built from different   *)
(* parts differ.                                                            *)
EXTENDS Integers, FiniteSets

Component(id, state) == [id |-> id, state |-> state, mandatory |-> TRUE]

(* "holders" are the licences or the consent an item of evidence names,     *)
(* "subject" the reference or person it is about.                           *)
Evidence(id, kind, component, polarity, subject, holders) ==
  [id |-> id, kind |-> kind, component |-> component, polarity |-> polarity,
   subject |-> subject, holders |-> holders]

Claim(id, outcome, mandatory, evidence) ==
  [id |-> id, outcome |-> outcome, mandatory |-> mandatory, evidence |-> evidence]

Assessed(state, verdict, confidence) ==
  [state |-> state, verdict |-> verdict, confidence |-> confidence]

UniqueIds(S) == \A x, y \in S : x.id = y.id => x = y

Ids(S) == {x.id : x \in S}

EvidenceSemantics(claim) ==
  /\ claim.outcome \in {"SUPPORTED", "CONTRADICTED"} => claim.evidence # {}
  /\ claim.outcome = "NOT_ASSESSED" => claim.evidence = {}

(* Every edge of the exposure graph joins two of its nodes, and the root is *)
(* the asset.                                                               *)
TopologyValid(graph) ==
  /\ graph.root \in Ids(graph.nodes) /\ graph.root[1] = "ASSET"
  /\ UniqueIds(graph.nodes) /\ UniqueIds(graph.edges)
  /\ \A e \in graph.edges :
        e.from # e.to /\ {e.from, e.to} \subseteq Ids(graph.nodes)

GraphEvidence(graph) == UNION {x.evidence : x \in graph.nodes \cup graph.edges}

UnavailableIsUnknown(assessment) ==
  assessment.state = "UNAVAILABLE" => assessment.verdict = "UNKNOWN"

(* What the contract itself demands of a GO, whatever the policy said.      *)
ReleaseFloor(a) ==
  a.deployment.decision = "GO" =>
    /\ a.deployment.state = "COMPLETE"
    /\ \A c \in a.components : c.mandatory => c.state = "AVAILABLE"
    /\ a.provenance.state = "COMPLETE" /\ a.rights.state = "COMPLETE"
    /\ a.provenance.verdict \notin {"UNKNOWN", "TAMPERED"}
    /\ a.rights.verdict = "CLEAR"
    /\ \A c \in a.claims :
          c.mandatory => c.outcome \notin {"UNKNOWN", "NOT_ASSESSED"}

ReferentialIntegrity(a) ==
  /\ UniqueIds(a.components) /\ UniqueIds(a.evidence) /\ UniqueIds(a.claims)
  /\ GraphEvidence(a.graph) \subseteq Ids(a.evidence)
  /\ \A e \in a.evidence : e.component \in Ids(a.components)
  /\ \A c \in a.claims : c.evidence \subseteq Ids(a.evidence)

ContractAccepts(a) ==
  /\ \A c \in a.claims : EvidenceSemantics(c)
  /\ TopologyValid(a.graph)
  /\ UnavailableIsUnknown(a.provenance) /\ UnavailableIsUnknown(a.rights)
  /\ ReferentialIntegrity(a)
  /\ ReleaseFloor(a)
=============================================================================
