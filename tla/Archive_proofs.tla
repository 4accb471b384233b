--------------------------- MODULE Archive_proofs ---------------------------
(* Every accepted archive gives both loaders the same image, and every package *)
(* that the host admits was built from the reviewed source.                   *)
EXTENDS Archive, Packages, TLAPS

\* Exactly one item of manifest.json is tagged, and Tagged is that item.
LEMMA TaggedIsOne ==
  ASSUME NEW ar, LegacyAccepted(ar)
  PROVE  ClassicLoads(ar) = {Loaded(Tagged(ar).config, Tagged(ar).layers)}
<1>1. PICK i \in DOMAIN ar.legacy : TaggedItems(ar) = {i}
  BY DEF LegacyAccepted
<1>2. \A j \in DOMAIN ar.legacy : ar.legacy[j].tagged <=> j = i
  BY <1>1 DEF TaggedItems
<1>3. (CHOOSE j \in DOMAIN ar.legacy : ar.legacy[j].tagged) = i
  BY <1>2
<1>4. Tagged(ar) = ar.legacy[i]
  BY <1>3 DEF Tagged
<1>. QED
  BY <1>1, <1>4 DEF ClassicLoads

\* What select takes is the only leaf a loader may take from the root.
LEMMA LeafIsOne ==
  ASSUME NEW ar, NEW d, SelectAccepted(ar, d)
  PROVE  OciLeaves(d) = {Leaf(d)}
<1>1. CASE d.type # "index"
  BY <1>1 DEF OciLeaves, Leaf
<1>2. CASE d.type = "index"
  <2>1. PICK c \in Candidates(d) : Candidates(d) = {c}
    BY <1>2 DEF SelectAccepted, OneCandidate
  <2>2. (CHOOSE e \in Candidates(d) : TRUE) = c
    BY <2>1
  <2>3. Leaf(d) = d.of.children[c]
    BY <1>2, <2>2 DEF Leaf
  <2>. QED
    BY <1>2, <2>1, <2>3 DEF OciLeaves
<1>. QED
  BY <1>1, <1>2

\* The OCI loader takes the image of the selected leaf of the one named root.
LEMMA RootLoadsTagged ==
  ASSUME NEW ar, NEW i, Named(ar) = {i}, RootAccepted(ar, ar.roots[i])
  PROVE  OciLoads(ar) = {Loaded(Tagged(ar).config, Tagged(ar).layers)}
<1>. DEFINE m == Leaf(ar.roots[i])
<1>1. OciLeaves(ar.roots[i]) = {m}
  BY LeafIsOne DEF RootAccepted
<1>2. UNION {OciLeaves(ar.roots[j]) : j \in Named(ar)} = {m}
  BY <1>1
<1>3. Tagged(ar).config = m.of.config.of /\ Tagged(ar).layers = Of(m.of.layers)
  BY DEF RootAccepted
<1>. HIDE DEF m
<1>. QED
  BY <1>2, <1>3 DEF OciLoads

LEMMA AcceptedLoadsOne ==
  ASSUME NEW ar, Accepted(ar), ar.oci \in BOOLEAN
  PROVE  LoadOne(ar)
<1>. DEFINE one == Loaded(Tagged(ar).config, Tagged(ar).layers)
<1>1. ClassicLoads(ar) = {one}
  BY TaggedIsOne DEF Accepted
<1>2. ConfigAndLayers(Tagged(ar).config, Tagged(ar).layers) =>
        one.config.arch = "amd64" /\ one.config.diffs = one.contents
  BY DEF ConfigAndLayers, Loaded
<1>3. CASE ar.oci
  <2>1. PICK i \in DOMAIN ar.roots : Named(ar) = {i} /\ RootAccepted(ar, ar.roots[i])
    BY <1>3 DEF Accepted, OciAccepted
  <2>2. OciLoads(ar) = {one}
    BY <2>1, RootLoadsTagged
  <2>3. ConfigAndLayers(Tagged(ar).config, Tagged(ar).layers) /\ ar.roots[i].of = ar.pin
    BY <2>1 DEF RootAccepted
  <2>. QED
    BY <1>1, <1>2, <1>3, <2>1, <2>2, <2>3 DEF LoadOne
<1>4. CASE ~ar.oci
  <2>1. ClassicAccepted(ar)
    BY <1>4 DEF Accepted
  <2>2. ConfigAndLayers(Tagged(ar).config, Tagged(ar).layers) /\ one.config = ar.pin
    BY <2>1 DEF ClassicAccepted, Loaded
  <2>. QED
    BY <1>1, <1>2, <1>4, <2>2 DEF LoadOne
<1>. QED
  BY <1>3, <1>4

------------------------------------------------------------------------------
\* The verdict is that of the archive at hand.
VerdictInv == archive.oci \in BOOLEAN /\ (verdict = "accepted" => Accepted(archive))

\* Whatever the archive, it is accepted only if manifest.json and index.json give
\* the loaders one and the same reviewed image. (verify_docker_archive.)
THEOREM AcceptedArchivesLoadAlike == ArchiveSpec => []LoadersAgree
<1>1. ArchiveInit => VerdictInv
  BY DEF ArchiveInit, VerdictInv
<1>2. VerdictInv /\ [ArchiveNext]_archiveVars => VerdictInv'
  <2>. SUFFICES ASSUME VerdictInv, [ArchiveNext]_archiveVars PROVE VerdictInv'
    OBVIOUS
  <2>1. CASE VerifyDockerArchive
    BY <2>1 DEF VerdictInv, VerifyDockerArchive
  <2>2. CASE UNCHANGED archiveVars
    BY <2>2 DEF VerdictInv, archiveVars
  <2>. QED
    BY <2>1, <2>2 DEF ArchiveNext
<1>3. VerdictInv => LoadersAgree
  BY AcceptedLoadsOne DEF VerdictInv, LoadersAgree
<1>. QED
  BY <1>1, <1>2, <1>3, PTL DEF ArchiveSpec
------------------------------------------------------------------------------
(* Packages: what is built from an unreviewed source stays apart from copies  *)
(* of the reviewed one, for an input that was replaced does not come back.    *)

\* A web image comes with its source, and not with the reviewed one unless it
\* was built from that.
WebMatches(files) == files["web"] # Nothing /\ (files["web"] = "other" => files["source"] # "reviewed")

\* Whoever extracted or built something unreviewed did so after the source was
\* replaced.
SourceInv ==
  /\ prep.at \in {"builder", "load", "build"} =>
       /\ prep.tree \in {"reviewed", "other"}
       /\ prep.tree = "other" => input["source"] = "other"
  /\ \A k \in {"bundle", "website"} : image[k] = "other" => input["source"] = "other"

\* The output directory holds one build, and its manifest only what was checked.
OutInv ==
  /\ prep.at = "save" => image[prep.kind] # Nothing
  /\ prep.at \in {"copy", "manifest"} => out # Nothing
  /\ complete => out # Nothing /\ prep.at = "idle"
  /\ out # Nothing => WebMatches(out) /\ (out["web"] = "other" => input["source"] = "other")
  /\ prep.kind = "bundle" =>
       /\ prep.at \in {"copy", "manifest"} => out["stage"] = "reviewed"
       /\ prep.at = "manifest" \/ complete => Reviewed(out, Files("bundle"))

\* What reached the host is such a directory, finished or not.
SentInv == sent # Nothing => WebMatches(sent.files)

PackagesInv == PackagesTypeOK /\ SourceInv /\ OutInv /\ SentInv /\ PackagesReviewed

\* The names of files that the proofs tell apart.
LEMMA FileNames ==
  /\ \A k \in {"bundle", "website"} : "web" \in Files(k) /\ "source" \in Files(k) /\ Files(k) \ {"web", "stage"} \subseteq AllInputs
  /\ Files("bundle") = {"source", "infra", "runtime", "bases", "web", "stage"}
  /\ Inputs("bundle") \ {"images"} = {"source", "infra", "runtime", "bases"}
  /\ "stage" \notin AllInputs /\ "web" \notin AllInputs /\ "source" \in AllInputs
BY DEF Files, Inputs, AllInputs

\* A step changes the stage, the tree or the kind of a preparation, never its shape.
LEMMA PrepTyped ==
  ASSUME NEW p \in [kind : {"bundle", "website"}, tree : Hashes,
                    at : {"idle", "verify", "extract", "builder", "load", "build", "save", "copy", "manifest"}],
         NEW at \in {"idle", "verify", "extract", "builder", "load", "build", "save", "copy", "manifest"}
  PROVE  /\ [p EXCEPT !.at = at] \in [kind : {"bundle", "website"}, tree : Hashes,
               at : {"idle", "verify", "extract", "builder", "load", "build", "save", "copy", "manifest"}]
         /\ [p EXCEPT !.at = at].kind = p.kind /\ [p EXCEPT !.at = at].tree = p.tree
         /\ [p EXCEPT !.at = at].at = at
OBVIOUS

\* Nothing is built, sent or admitted at first.
LEMMA PackagesInitHolds == PackagesInit => PackagesInv
<1>. SUFFICES ASSUME PackagesInit PROVE PackagesInv
  OBVIOUS
<1>1. /\ input = [f \in AllInputs |-> "reviewed"] /\ image = [t \in {"stage", "bundle", "website"} |-> Nothing]
      /\ out = Nothing /\ complete = FALSE /\ sent = Nothing /\ admitted = {}
      /\ prep.at = "idle" /\ prep.kind = "bundle"
  BY DEF PackagesInit, NoPrep
<1>2. PackagesTypeOK
  <2>1. prep = [kind |-> "bundle", at |-> "idle", tree |-> Nothing]
    BY DEF PackagesInit, NoPrep
  <2>2. left \in [{"changes", "failures"} -> Nat]
    BY LimitsAssumption DEF PackagesInit
  <2>. QED
    BY <1>1, <2>1, <2>2 DEF PackagesTypeOK, Hashes
<1>. QED
  BY <1>1, <1>2, NothingAssumption DEF PackagesInv, SourceInv, OutInv, SentInv, PackagesReviewed

\* The type of each variable is kept.
LEMMA PackagesTypeStep ==
  ASSUME PackagesTypeOK, OutInv, [PackagesNext]_packageVars
  PROVE  PackagesTypeOK'
<1>. USE DEF Hashes
<1>1. ASSUME NEW kind \in Kinds, StartPrepare(kind) PROVE PackagesTypeOK'
  BY <1>1, KindsAssumption DEF StartPrepare, PackagesTypeOK, NoPrep
<1>2. CASE VerifyInputs
  BY <1>2, PrepTyped DEF VerifyInputs, Step, PackagesTypeOK
<1>3. CASE ExtractSource
  <2>1. input["source"] \in Hashes
    BY FileNames DEF PackagesTypeOK
  <2>. QED
    BY <1>3, <2>1 DEF ExtractSource, PackagesTypeOK
<1>4. CASE RequireLocalBuilder
  BY <1>4, PrepTyped DEF RequireLocalBuilder, Step, PackagesTypeOK
<1>5. CASE LoadImages
  <2>1. input["images"] \in Hashes
    BY DEF PackagesTypeOK, AllInputs, Inputs
  <2>. QED
    BY <1>5, <2>1, PrepTyped DEF LoadImages, Step, PackagesTypeOK
<1>6. CASE BuildWeb
  BY <1>6, PrepTyped DEF BuildWeb, Step, PackagesTypeOK
<1>7. CASE SaveImages
  <2>1. Saved(prep.kind) \in [Files(prep.kind) -> Hashes]
    BY DEF Saved, PackagesTypeOK
  <2>. QED
    BY <1>7, <2>1, PrepTyped DEF SaveImages, Step, PackagesTypeOK
<1>8. ASSUME NEW f \in AllInputs, CopyInput(f) PROVE PackagesTypeOK'
  <2>1. out \in [Files(prep.kind) -> Hashes]
    BY <1>8 DEF CopyInput, OutInv, PackagesTypeOK
  <2>2. input[f] \in Hashes
    BY DEF PackagesTypeOK
  <2>. QED
    BY <1>8, <2>1, <2>2 DEF CopyInput, PackagesTypeOK
<1>9. CASE CheckCopies
  BY <1>9, PrepTyped DEF CheckCopies, Copied, Step, PackagesTypeOK
<1>10. CASE WriteManifest
  BY <1>10, PrepTyped DEF WriteManifest, PackagesTypeOK
<1>11. CASE PrepareFails
  <2>1. left' \in [{"changes", "failures"} -> Nat]
    BY <1>11 DEF PrepareFails, Use, PackagesTypeOK
  <2>. QED
    BY <1>11, <2>1, PrepTyped DEF PrepareFails, PackagesTypeOK
<1>12. CASE FreshOutput
  BY <1>12 DEF FreshOutput, PackagesTypeOK
<1>13. CASE Upload
  BY <1>13 DEF Upload, PackagesTypeOK
<1>14. CASE Admit
  BY <1>14 DEF Admit, PackagesTypeOK
<1>15. ASSUME NEW f \in AllInputs, ReplaceInput(f) PROVE PackagesTypeOK'
  BY <1>15 DEF ReplaceInput, Use, PackagesTypeOK
<1>16. CASE UNCHANGED packageVars
  BY <1>16 DEF packageVars, PackagesTypeOK
<1>. QED
  BY <1>1, <1>2, <1>3, <1>4, <1>5, <1>6, <1>7, <1>8, <1>9, <1>10, <1>11, <1>12, <1>13, <1>14, <1>15, <1>16 DEF PackagesNext

\* A replaced source stays replaced.
LEMMA SourceStays ==
  ASSUME PackagesTypeOK, [PackagesNext]_packageVars, input["source"] = "other"
  PROVE  input'["source"] = "other"
<1>1. ASSUME NEW f \in AllInputs, ReplaceInput(f) PROVE input'["source"] = "other"
  BY <1>1, FileNames DEF ReplaceInput, PackagesTypeOK
<1>. QED
  BY <1>1 DEF PackagesNext, packageVars, StartPrepare, VerifyInputs, ExtractSource, RequireLocalBuilder, LoadImages, BuildWeb, SaveImages,
     CopyInput, CheckCopies, WriteManifest, PrepareFails, FreshOutput, Upload, Admit

\* An unreviewed tree or image comes from a replaced source.
LEMMA SourceStep ==
  ASSUME PackagesTypeOK, SourceInv, [PackagesNext]_packageVars
  PROVE  SourceInv'
<1>. DEFINE Built == prep.at \in {"builder", "load", "build"}
<1>1. prep'.at \in {"builder", "load", "build"} =>
        prep'.tree \in {"reviewed", "other"} /\ (prep'.tree = "other" => input'["source"] = "other")
  <2>1. CASE ExtractSource
    <3>1. prep'.tree = input["source"] /\ input' = input
      BY <2>1 DEF ExtractSource, PackagesTypeOK
    <3>2. input["source"] \in {"reviewed", "other"}
      BY FileNames DEF PackagesTypeOK
    <3>. QED
      BY <3>1, <3>2
  <2>2. CASE ~ExtractSource
    <3>1. prep'.at \in {"builder", "load", "build"} => Built /\ prep'.tree = prep.tree
      <4>1. CASE prep' = prep
        BY <4>1
      <4>2. ASSUME NEW kind \in Kinds, StartPrepare(kind) PROVE prep'.at = "verify"
        BY <4>2 DEF StartPrepare, NoPrep
      <4>3. CASE VerifyInputs
        BY <4>3 DEF VerifyInputs, Step, PackagesTypeOK
      <4>4. CASE RequireLocalBuilder
        BY <4>4, PrepTyped DEF RequireLocalBuilder, Step, PackagesTypeOK
      <4>5. CASE LoadImages
        BY <4>5, PrepTyped DEF LoadImages, Step, PackagesTypeOK
      <4>6. CASE BuildWeb
        BY <4>6 DEF BuildWeb, Step, PackagesTypeOK
      <4>7. CASE SaveImages
        BY <4>7 DEF SaveImages, Step, PackagesTypeOK
      <4>8. CASE CheckCopies
        BY <4>8 DEF CheckCopies, Copied, Step, PackagesTypeOK
      <4>9. CASE WriteManifest \/ PrepareFails
        BY <4>9 DEF WriteManifest, PrepareFails, PackagesTypeOK
      <4>. QED
        BY <2>2, <4>1, <4>2, <4>3, <4>4, <4>5, <4>6, <4>7, <4>8, <4>9
           DEF PackagesNext, packageVars, CopyInput, ReplaceInput, FreshOutput, Upload, Admit
    <3>. QED
      BY <3>1, SourceStays DEF SourceInv
  <2>. QED
    BY <2>1, <2>2
<1>2. ASSUME NEW k \in {"bundle", "website"}, image'[k] = "other" PROVE input'["source"] = "other"
  <2>1. CASE image'[k] = image[k]
    BY <1>2, <2>1, SourceStays DEF SourceInv
  <2>2. CASE BuildWeb /\ k = prep.kind
    <3>1. image'[k] = prep.tree /\ prep.at = "build" /\ input' = input
      BY <2>2 DEF BuildWeb, Step, PackagesTypeOK
    <3>. QED
      BY <1>2, <3>1 DEF SourceInv
  <2>3. BuildWeb /\ k # prep.kind => image'[k] = image[k]
    BY DEF BuildWeb, PackagesTypeOK
  <2>4. LoadImages => image'[k] = image[k]
    BY DEF LoadImages, PackagesTypeOK
  <2>5. ~BuildWeb /\ ~LoadImages => image' = image
    BY DEF PackagesNext, packageVars, StartPrepare, VerifyInputs, ExtractSource, RequireLocalBuilder, SaveImages, CopyInput, CheckCopies,
       WriteManifest, PrepareFails, FreshOutput, Upload, Admit, ReplaceInput
  <2>. QED
    BY <2>1, <2>2, <2>3, <2>4, <2>5
<1>. QED
  BY <1>1, <1>2 DEF SourceInv

\* The directory: saved with the image just built, filled by copies, checked.
LEMMA OutStep ==
  ASSUME PackagesTypeOK, SourceInv, OutInv, [PackagesNext]_packageVars
  PROVE  OutInv'
<1>0. prep.kind \in {"bundle", "website"} /\ PackagesTypeOK'
  BY PackagesTypeStep DEF PackagesTypeOK
<1>1. ASSUME NEW kind \in Kinds, StartPrepare(kind) PROVE OutInv'
  <2>1. out = Nothing /\ out' = Nothing /\ complete' = complete /\ prep'.at = "verify"
    BY <1>1 DEF StartPrepare, NoPrep
  <2>. QED
    BY <2>1 DEF OutInv
<1>2. CASE VerifyInputs \/ ExtractSource \/ RequireLocalBuilder \/ LoadImages
  <2>1. /\ out' = out /\ complete' = complete /\ input' = input /\ prep.at # "idle"
        /\ prep'.at \in {"extract", "builder", "load", "build"}
    BY <1>2 DEF VerifyInputs, ExtractSource, RequireLocalBuilder, LoadImages, Step, PackagesTypeOK
  <2>. QED
    BY <2>1 DEF OutInv
<1>3. CASE BuildWeb
  <2>1. /\ out' = out /\ complete' = complete /\ input' = input /\ prep.at = "build"
        /\ prep'.at = "save" /\ prep'.kind = prep.kind /\ image'[prep.kind] = prep.tree
    BY <1>3, <1>0, PrepTyped DEF BuildWeb, Step, PackagesTypeOK
  <2>. QED
    BY <2>1, NothingAssumption DEF OutInv, SourceInv
<1>4. CASE SaveImages
  <2>1. /\ out' = Saved(prep.kind) /\ complete' = complete /\ input' = input /\ prep.at = "save"
        /\ prep'.at = "copy" /\ prep'.kind = prep.kind
        /\ prep.kind = "bundle" => image["stage"] = "reviewed"
    BY <1>4, <1>0, PrepTyped DEF SaveImages, Step, PackagesTypeOK
  <2>2. out' # Nothing
    <3>1. Saved(prep.kind) \in [Files(prep.kind) -> Hashes]
      BY DEF Saved, PackagesTypeOK, Hashes
    <3>. QED
      BY <1>0, <2>1, <3>1, NothingAssumption
  <2>3. out'["web"] = image[prep.kind] /\ out'["source"] = Nothing
    BY <1>0, <2>1, FileNames DEF Saved
  <2>4. prep.kind = "bundle" => out'["stage"] = "reviewed"
    BY <2>1, FileNames DEF Saved
  <2>5. image[prep.kind] # Nothing /\ (image[prep.kind] = "other" => input["source"] = "other")
    BY <1>0, <2>1 DEF OutInv, SourceInv
  <2>. QED
    BY <2>1, <2>2, <2>3, <2>4, <2>5, NothingAssumption DEF OutInv, WebMatches
<1>5. ASSUME NEW f \in AllInputs, CopyInput(f) PROVE OutInv'
  <2>1. /\ out' = [out EXCEPT ![f] = input[f]] /\ prep' = prep /\ complete' = complete /\ input' = input
        /\ prep.at = "copy" /\ out # Nothing /\ ~complete
    BY <1>5 DEF CopyInput, OutInv
  <2>2. out \in [Files(prep.kind) -> Hashes]
    BY <2>1 DEF PackagesTypeOK
  <2>3. out' \in [Files(prep.kind) -> Hashes] /\ out' # Nothing
    <3>1. input[f] \in Hashes
      BY DEF PackagesTypeOK, Hashes
    <3>2. out' \in [Files(prep.kind) -> Hashes]
      BY <2>1, <2>2, <3>1
    <3>. QED
      BY <1>0, <3>2, NothingAssumption
  <2>4. out'["web"] = out["web"] /\ (prep.kind = "bundle" => out'["stage"] = out["stage"])
    BY <1>0, <2>1, <2>2, FileNames
  <2>5. out'["source"] = out["source"] \/ out'["source"] = input["source"]
    BY <1>0, <2>1, <2>2, FileNames
  <2>. QED
    BY <2>1, <2>3, <2>4, <2>5 DEF OutInv, WebMatches
<1>6. CASE CheckCopies
  <2>1. /\ out' = out /\ complete' = complete /\ input' = input /\ prep.at = "copy"
        /\ prep'.at = "manifest" /\ prep'.kind = prep.kind /\ ~complete
        /\ prep.kind = "bundle" => Reviewed(out, Inputs("bundle") \ {"images"})
    BY <1>6, PrepTyped DEF CheckCopies, Copied, Step, PackagesTypeOK, OutInv
  <2>2. ASSUME prep.kind = "bundle" PROVE Reviewed(out, Files("bundle"))
    <3>1. out["stage"] = "reviewed" /\ out["source"] = "reviewed" /\ WebMatches(out)
      BY <2>1, <2>2, FileNames DEF OutInv, Reviewed
    <3>2. out["web"] \in Hashes
      BY <2>1, <2>2, FileNames DEF PackagesTypeOK, OutInv
    <3>3. out["web"] = "reviewed"
      BY <3>1, <3>2 DEF WebMatches, Hashes
    <3>. QED
      BY <2>1, <2>2, <3>1, <3>3, FileNames DEF Reviewed
  <2>. QED
    BY <2>1, <2>2 DEF OutInv, Reviewed
<1>7. CASE WriteManifest
  <2>1. /\ out' = out /\ input' = input /\ prep.at = "manifest" /\ prep'.at = "idle" /\ prep'.kind = prep.kind
    BY <1>7, PrepTyped DEF WriteManifest, PackagesTypeOK
  <2>. QED
    BY <2>1 DEF OutInv, Reviewed
<1>8. CASE PrepareFails
  <2>1. /\ out' = out /\ input' = input /\ complete' = complete /\ prep.at # "idle" /\ prep'.at = "idle" /\ prep'.kind = prep.kind
    BY <1>8, PrepTyped DEF PrepareFails, PackagesTypeOK
  <2>. QED
    BY <2>1 DEF OutInv, Reviewed
<1>9. CASE FreshOutput
  BY <1>9 DEF FreshOutput, OutInv
<1>10. CASE Upload \/ Admit
  <2>1. out' = out /\ input' = input /\ image' = image /\ complete' = complete /\ prep' = prep
    BY <1>10 DEF Upload, Admit
  <2>. QED
    BY <2>1 DEF OutInv, Reviewed
<1>11. ASSUME NEW f \in AllInputs, ReplaceInput(f) PROVE OutInv'
  <2>1. out' = out /\ image' = image /\ complete' = complete /\ prep' = prep
    BY <1>11 DEF ReplaceInput
  <2>2. input["source"] = "other" => input'["source"] = "other"
    BY SourceStays
  <2>. QED
    BY <2>1, <2>2 DEF OutInv, Reviewed
<1>12. CASE UNCHANGED packageVars
  <2>1. out' = out /\ input' = input /\ image' = image /\ complete' = complete /\ prep' = prep
    BY <1>12 DEF packageVars
  <2>. QED
    BY <2>1 DEF OutInv, Reviewed
<1>. QED
  BY <1>1, <1>2, <1>3, <1>4, <1>5, <1>6, <1>7, <1>8, <1>9, <1>10, <1>11, <1>12 DEF PackagesNext

\* The host gets the directory as it is, and admits only what is tied to the
\* reviewed source.
LEMMA SentStep ==
  ASSUME PackagesTypeOK, OutInv, SentInv, [PackagesNext]_packageVars
  PROVE  SentInv'
<1>1. CASE Upload
  BY <1>1 DEF Upload, OutInv, SentInv
<1>2. CASE FreshOutput
  BY <1>2 DEF FreshOutput, SentInv
<1>3. CASE sent' = sent
  BY <1>3 DEF SentInv
<1>. QED
  BY <1>1, <1>2, <1>3 DEF PackagesNext, packageVars, StartPrepare, VerifyInputs, ExtractSource, RequireLocalBuilder, LoadImages, BuildWeb,
     SaveImages, CopyInput, CheckCopies, WriteManifest, PrepareFails, Admit, ReplaceInput

\* Both verifications look at the source that came with the image.
LEMMA AdmittedStep ==
  ASSUME PackagesTypeOK, SentInv, [PackagesNext]_packageVars, \A p \in admitted : p.web = "reviewed"
  PROVE  \A p \in admitted' : p.web = "reviewed"
<1>1. CASE Admit
  <2>1. sent # Nothing /\ admitted' = admitted \cup {[kind |-> sent.kind, web |-> sent.files["web"]]}
    BY <1>1 DEF Admit
  <2>2. sent.files["source"] = "reviewed"
    BY <1>1 DEF Admit, BundleVerified, WebsiteVerified, Reviewed
  <2>3. sent.files["web"] \in Hashes
    <3>1. PICK k \in {"bundle", "website"} : sent \in [kind : {k}, files : [Files(k) -> Hashes], manifest : BOOLEAN]
      BY <2>1 DEF PackagesTypeOK
    <3>. QED
      BY <3>1, FileNames
  <2>4. sent.files["web"] = "reviewed"
    BY <2>1, <2>2, <2>3 DEF SentInv, WebMatches, Hashes
  <2>. QED
    BY <2>1, <2>4
<1>2. CASE admitted' = admitted
  BY <1>2
<1>. QED
  BY <1>1, <1>2 DEF PackagesNext, packageVars, StartPrepare, VerifyInputs, ExtractSource, RequireLocalBuilder, LoadImages, BuildWeb,
     SaveImages, CopyInput, CheckCopies, WriteManifest, PrepareFails, FreshOutput, Upload, ReplaceInput

\* The invariant as a whole.
LEMMA PackagesStep == PackagesInv /\ [PackagesNext]_packageVars => PackagesInv'
<1>. SUFFICES ASSUME PackagesInv, [PackagesNext]_packageVars PROVE PackagesInv'
  OBVIOUS
<1>1. PackagesTypeOK' /\ SourceInv' /\ OutInv' /\ SentInv'
  BY PackagesTypeStep, SourceStep, OutStep, SentStep DEF PackagesInv
<1>2. \A p \in admitted' : p.web = "reviewed"
  BY AdmittedStep DEF PackagesInv, PackagesReviewed
<1>. QED
  BY <1>1, <1>2 DEF PackagesInv, PackagesReviewed, OutInv

\* The files, tags, directories and packages keep their types, for any number of
\* replaced inputs and failing preparations.
THEOREM PackagesTypeCorrect == PackagesSpec => []PackagesTypeOK
<1>1. PackagesInv => PackagesTypeOK
  BY DEF PackagesInv
<1>. QED
  BY <1>1, PackagesInitHolds, PackagesStep, PTL DEF PackagesSpec

\* However often inputs are replaced under a preparation and preparations fail and
\* are begun again, a finished bundle holds the reviewed files only, and the host
\* admits nothing that was built from another source.
THEOREM OnlyReviewedAdmitted == PackagesSpec => []PackagesReviewed
<1>1. PackagesInv => PackagesReviewed
  BY DEF PackagesInv
<1>. QED
  BY <1>1, PackagesInitHolds, PackagesStep, PTL DEF PackagesSpec

=============================================================================
