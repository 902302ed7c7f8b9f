------------------------ MODULE MCAssessmentExecution ------------------------
EXTENDS AssessmentExecution

(* One context in two territories whose use the caller padded with blanks,  *)
(* and one plain context in a single territory.                             *)
Context(territories, written) ==
  [policy |-> "p", territories |-> territories, channel |-> "web",
   audience |-> "adults", brand |-> "acme",
   use |-> [written |-> written, stripped |-> "ad"]]
Plain == Context({"IN"}, "ad")
Wide == Context({"IN", "US"}, " ad")

Scope(territories, from, until) ==
  [from |-> from, until |-> until, territories |-> territories,
   channels |-> {"web"}, uses |-> {"ad"}]
Licence(id, references, state, s) ==
  [id |-> id, references |-> references, state |-> state, from |-> s.from,
   until |-> s.until, territories |-> s.territories, channels |-> s.channels,
   uses |-> s.uses]
Grant(id, subject, s, uses) ==
  [id |-> id, subject |-> subject, from |-> s.from, until |-> s.until,
   territories |-> s.territories, channels |-> s.channels, uses |-> uses]

(* No licence; one per territory; one for everything that has expired and   *)
(* one that has been revoked; one that covers a reference everywhere.       *)
MCLicences ==
  {{}, {Licence("l1", {"r1"}, "ACTIVE", Scope({"IN"}, 0, 1)),
        Licence("l2", {"r1", "r2"}, "ACTIVE", Scope({"US"}, 0, 1))},
   {Licence("l1", {"r1", "r2"}, "ACTIVE", Scope({"*"}, 0, 0)),
    Licence("l2", {"r1"}, "REVOKED", Scope({"*"}, 0, 1))},
   {Licence("l1", {"r1"}, "ACTIVE", Scope({"*"}, 1, 2)),
    Licence("l2", {"r2"}, "ACTIVE", Scope({"IN", "US"}, 0, 1))}}

(* No registry, or two templates: of one person with a shared consent id    *)
(* and different scopes, or of two people.                                  *)
MCConsents ==
  {{}, {{[id |-> "t1", consent |-> Grant("c1", "ann", Scope({"*"}, 0, 1), {"*"})],
         [id |-> "t2", consent |-> Grant("c1", "ann", Scope({"IN"}, 0, 1), {"ad"})]}},
   {{[id |-> "t1", consent |-> Grant("c1", "ann", Scope({"*"}, 0, 1), {"ad"})],
     [id |-> "t2", consent |-> Grant("c2", "bob", Scope({"IN"}, 2, 3), {"*"})]}}}

MCWatermarks ==
  {{}, {{[id |-> "w1", brands |-> {"acme"}], [id |-> "w2", brands |-> {"other"}]}},
   {{[id |-> "w1", brands |-> {"*"}], [id |-> "w2", brands |-> {"acme"}]}}}

Everything == [channel |-> {"*"}, audience |-> {"*"}, brand |-> {"*"}, territory |-> {"*"}]
Policy(required, on, rules, allowed) ==
  [id |-> "p", allowed |-> allowed, required |-> required, rules |-> rules,
   requireProvenance |-> on, requireClearance |-> on, blockTampered |-> on,
   blockUnlicensed |-> on, blockUnconsented |-> on]
Rule == [id |-> "synthetic", effect |-> "BLOCK",
         scope |-> [Everything EXCEPT !.territory = {"US"}],
         provenance |-> {"AI_GENERATED"}, rights |-> {}]

(* All controls on; all off; licences may not block, but one rule does; one *)
(* that requires the policy compiler.                                       *)
Strict == Policy({"c2pa", "timeline", "likeness-consent"}, TRUE, {}, Everything)
Lenient == Policy({"forensics"}, FALSE, {}, Everything)
Mixed == [Policy({"watermark"}, TRUE, {Rule}, [Everything EXCEPT !.territory = {"US"}])
            EXCEPT !.blockUnlicensed = FALSE]
Circular == Policy({"policy-compiler"}, FALSE, {}, Everything)
MCPolicies == {Strict, Lenient, Mixed, Circular}

Shape(kind, bytes) == [kind |-> kind, bytes |-> bytes]
Asset(kind, bytes) == [declared |-> Shape(kind, "sha"), actual |-> Shape(kind, bytes)]

Request(asset, context, licences, consents, watermarks, policy) ==
  [asset |-> asset, context |-> context, at |-> 1, references |-> {"r1", "r2"},
   licences |-> licences, consents |-> consents, watermarks |-> watermarks,
   policy |-> policy]

(* A request with other bytes, one of an unsupported kind, one with another *)
(* policy, one with an orphaned licence; and all combinations.              *)
BadRequests ==
  {Request(a, Plain, {}, {}, {}, Policy({}, TRUE, {}, Everything)) :
     a \in {Asset("IMAGE", "other"), Asset("DOCUMENT", "sha")}}
  \cup {Request(Asset("IMAGE", "sha"), [Plain EXCEPT !.policy = "q"], {}, {}, {},
                Policy({}, TRUE, {}, Everything)),
        Request(Asset("IMAGE", "sha"), Plain,
                {Licence("l1", {"r3"}, "ACTIVE", Scope({"*"}, 0, 1))}, {}, {},
                Policy({}, TRUE, {}, Everything))}

(* Provenance, licences and consents, frames, and audio are varied apart:   *)
(* no lane reads what the others of these choices concern.                  *)
MCRequests ==
  BadRequests
  \cup {Request(Asset("IMAGE", "sha"), Plain, {}, {}, w, p) :
          w \in MCWatermarks, p \in MCPolicies}
  \cup {Request(Asset("IMAGE", "sha"), c, l, g, {}, p) :
          c \in {Plain, Wide}, l \in MCLicences, g \in MCConsents,
          p \in {Strict, Lenient, Mixed}}
  \cup {Request(Asset("VIDEO", "sha"), Wide, l, {}, {}, p) :
          l \in MCLicences, p \in {Strict, Lenient, Mixed}}
  \cup {Request(Asset("AUDIO", "sha"), c, {}, g, {}, p) :
          c \in {Plain, Wide}, g \in MCConsents, p \in {Strict, Lenient, Mixed}}

ManifestSeen(read, state, mismatch, sources) ==
  [read |-> read, state |-> state, mismatch |-> mismatch, sources |-> sources]
MCManifests ==
  {ManifestSeen("absent", "", FALSE, {}), ManifestSeen("error", "", FALSE, {}),
   ManifestSeen("present", "invalid", TRUE, {"trained"}),
   ManifestSeen("present", "invalid", FALSE, {}),
   ManifestSeen("present", "valid", FALSE, {"trained", "composite"}),
   ManifestSeen("present", "trusted", FALSE, {"trained"}),
   ManifestSeen("present", "unknown", FALSE, {})}

Seen(decoded, markers, edited, residual, matched, features, localized) ==
  [decoded |-> decoded, markers |-> markers, edited |-> edited,
   residual |-> residual, matched |-> matched, features |-> features,
   localized |-> localized]
MCImageObservations ==
  {Seen("no", "none", FALSE, "unmeasured", {}, FALSE, {}),
   Seen("over-budget", "none", FALSE, "unmeasured", {}, FALSE, {}),
   Seen("yes", "none", FALSE, "quiet", {}, TRUE, {}),
   Seen("yes", "tool-and-fields", FALSE, "anomalous", {"r1"}, FALSE, {}),
   Seen("yes", "tool", TRUE, "unmeasured", {"r1"}, TRUE, {"r1", "r2"})}
=============================================================================
