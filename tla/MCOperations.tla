---------------------------- MODULE MCOperations ----------------------------
(* The production host, the preparation of what it runs, the archives checked *)
(* in it and a CI run's way to the host share nothing that is modelled: a     *)
(* behaviour is of one part, and the others stay in their initial states, in  *)
(* which their fairness asks for nothing.                                     *)
EXTENDS MCProduction, Packages, Archive, HostAccess

VARIABLE part

\* The archives checked: images of one layer, every index of one or two children
\* against every tagged item; and, for one child, a missing file, a further root
\* and an untagged item. Among the manifests are one whose layer is not what the
\* config says, one for another platform and one that misnames its encoding.
ALayer(x, z) == [kind |-> "layer", content |-> x, gzip |-> z]
ALayers == {ALayer("a", TRUE), ALayer("a", FALSE), ALayer("b", TRUE)}
AConfig(arch, x) == [kind |-> "config", arch |-> arch, diffs |-> <<x>>]
AConfigs == {AConfig("amd64", "a"), AConfig("amd64", "b"), AConfig("arm64", "a")}
Desc(type, of) == [type |-> type, of |-> of]
AManifest(c, l, t) == [kind |-> "manifest", config |-> Desc("config", c), layers |-> <<Desc(t, l)>>]
AManifests ==
  {AManifest(c, ALayer(x, TRUE), "gzip") : c \in AConfigs, x \in {"a", "b"}}
  \cup {AManifest(AConfig("amd64", "a"), ALayer("a", FALSE), t) : t \in {"plain", "gzip"}}
NoFile == [kind |-> "none"]
Top(type, of, platform, name, subject) ==
  [type |-> type, of |-> of, platform |-> platform, attestation |-> FALSE, name |-> name, subject |-> subject]
AChildren == {Top("manifest", m, p, "none", NoFile) : m \in AManifests, p \in {"none", "amd64", "arm64"}}
AIndex(cs) == [kind |-> "index", children |-> cs]
Attestation(m) == [kind |-> "manifest", config |-> Desc("empty", NoFile), layers |-> <<Desc("statement", [kind |-> "statement"])>>]
LegacyItem(c, l, t) == [config |-> c, layers |-> <<l>>, tagged |-> t]

Parts(m) == {m, m.config.of, m.layers[1].of}
Blobs(cs) == {AIndex(cs)} \cup UNION {Parts(cs[i].of) : i \in DOMAIN cs}
OciArchive(cs, item) ==
  [pin |-> AIndex(cs), legacy |-> <<item>>, oci |-> TRUE,
   roots |-> <<Top("index", AIndex(cs), "none", "pinned", NoFile)>>, blobs |-> Blobs(cs) \cup {item.config, item.layers[1]}]
Without(ar, b) == [ar EXCEPT !.blobs = @ \ {b}]
WithRoot(ar, r) == [ar EXCEPT !.roots = Append(@, r), !.blobs = @ \cup Parts(r.of)]
WithItem(ar, item) == [ar EXCEPT !.legacy = Append(@, item), !.blobs = @ \cup {item.config, item.layers[1]}]
Classic(ar) == [ar EXCEPT !.oci = FALSE, !.pin = ar.legacy[1].config]

Items == {LegacyItem(c, l, TRUE) : c \in AConfigs, l \in ALayers}
Pairs == [1..2 -> AChildren]
Single == [1..1 -> AChildren]
ArchiveGiven ==
  \E item \in Items :
    \/ \E cs \in Pairs : archive = OciArchive(cs, item)
    \/ \E cs \in Single :
         LET ar == OciArchive(cs, item) IN
         \/ archive = Classic(ar)
         \/ \E b \in Blobs(cs) : archive = Without(ar, b)
         \/ \E m \in {Attestation(NoFile), AManifest(AConfig("amd64", "b"), ALayer("b", TRUE), "gzip")},
               n \in {"none", "pinned"}, s \in {cs[1].of, NoFile} : archive = WithRoot(ar, Top("manifest", m, "none", n, s))
         \/ \E i \in Items, t \in BOOLEAN : archive = WithItem(ar, [i EXCEPT !.tagged = t])

------------------------------------------------------------------------------
NoArchive == [oci |-> FALSE]

Init ==
  /\ ProductionInit /\ PackagesInit
  /\ \/ part \in {"production", "packages", "access"} /\ archive = NoArchive
     \/ part = "archive" /\ ArchiveGiven
  /\ ArchiveInit
  /\ AccessInit
  /\ (part = "production" \/ env = "development") /\ (part = "access" \/ borrowed)

Next ==
  \/ part = "production" /\ ProductionNext /\ UNCHANGED <<part, packageVars, archiveVars, accessVars>>
  \/ part = "packages" /\ PackagesNext /\ UNCHANGED <<part, productionVars, archiveVars, accessVars>>
  \/ part = "archive" /\ ArchiveNext /\ UNCHANGED <<part, productionVars, packageVars, accessVars>>
  \/ part = "access" /\ AccessNext /\ UNCHANGED <<part, productionVars, packageVars, archiveVars>>

allVars == <<part, productionVars, packageVars, archiveVars, accessVars>>
FairSpec == Init /\ [][Next]_allVars /\ ProductionFairness

\* The type invariants of the parts.
OperationsTypeOK == ProductionTypeOK /\ PackagesTypeOK /\ AccessTypeOK
=============================================================================
