----------------------------- MODULE Packages -----------------------------
(* prepare_bundle.py and website.py build packages from reviewed inputs on an *)
(* operator's machine, and the production host verifies them again before it  *)
(* uses them.  An input may be replaced while the build runs: what was hashed *)
(* need not be what is extracted, loaded or copied afterwards.                *)
(*                                                                            *)
(* A file is "reviewed" or "other" (its hash differs from the reviewed one),  *)
(* an image what it was built or loaded from.                                 *)
EXTENDS Naturals

CONSTANTS Kinds,       \* what is prepared: "bundle", "website"
          Nothing,     \* no file, no image
          MaxChanges,  \* bound: inputs replaced; a replaced input does not come back
          MaxFailures  \* bound: failing or killed preparations

ASSUME KindsAssumption == Kinds \subseteq {"bundle", "website"}
ASSUME LimitsAssumption == MaxChanges \in Nat /\ MaxFailures \in Nat

VARIABLES
  input,     \* the files given to the preparation
  prep,      \* the preparation: [kind, at, tree]; tree is the extracted source
  image,     \* the builder's image of a tag: "stage" (loaded) and the package's own
  out,       \* the output directory: Nothing, or its files
  complete,  \* the manifest, written last
  sent,      \* what reached the production host
  admitted,  \* the kinds of package it has verified
  left       \* what is left of the bounds

packageVars == <<input, prep, image, out, complete, sent, admitted, left>>

Inputs(kind) == IF kind = "bundle" THEN {"source", "images", "infra", "runtime", "bases"}
                ELSE {"source", "base", "bases"}
AllInputs == Inputs("bundle") \cup Inputs("website")
NoPrep == [kind |-> "bundle", at |-> "idle", tree |-> Nothing]

\* Every file of the package: the copies, the web image, and for a bundle the
\* images it was staged with.
Files(kind) == (Inputs(kind) \ {"images"}) \cup {"web"} \cup (IF kind = "bundle" THEN {"stage"} ELSE {})
Hashes == {"reviewed", "other", Nothing}

\* Nothing is neither a file nor a directory.
ASSUME NothingAssumption ==
  /\ Nothing \notin {"reviewed", "other"}
  /\ \A kind \in {"bundle", "website"} : Nothing \notin [Files(kind) -> Hashes]

Reviewed(files, names) == \A f \in names : files[f] = "reviewed"

PackagesInit ==
  /\ input = [f \in AllInputs |-> "reviewed"]
  /\ prep = NoPrep /\ image = [t \in {"stage", "bundle", "website"} |-> Nothing]
  /\ out = Nothing /\ complete = FALSE /\ sent = Nothing /\ admitted = {}
  /\ left = [changes |-> MaxChanges, failures |-> MaxFailures]

Use(what) == left[what] > 0 /\ left' = [left EXCEPT ![what] = @ - 1]
Step(from, to) == prep.at = from /\ prep' = [prep EXCEPT !.at = to]

------------------------------------------------------------------------------
\* The preparation, into an output directory that does not exist.
StartPrepare(kind) ==
  /\ prep.at = "idle" /\ out = Nothing
  /\ prep' = [NoPrep EXCEPT !.kind = kind, !.at = "verify"]
  /\ UNCHANGED <<input, image, out, complete, sent, admitted, left>>

\* verify_inputs, up to the extraction: every archive has its reviewed hash.
VerifyInputs ==
  /\ Step("verify", "extract")
  /\ Reviewed(input, Inputs(prep.kind) \ {"infra"})
  /\ UNCHANGED <<input, image, out, complete, sent, admitted, left>>

\* The source tree may be another by now; its infra must still be the reviewed one.
ExtractSource ==
  /\ prep.at = "extract"
  /\ prep.kind = "bundle" => input["infra"] = "reviewed"
  /\ prep' = [prep EXCEPT !.at = "builder", !.tree = input["source"]]
  /\ UNCHANGED <<input, image, out, complete, sent, admitted, left>>

\* A tag names the hash of the reviewed inputs, and is never built twice.
TagFree == image[prep.kind] = Nothing

RequireLocalBuilder ==
  /\ Step("builder", IF prep.kind = "bundle" THEN "load" ELSE "build")
  /\ TagFree
  /\ prep.kind = "bundle" => image["stage"] # "other"
  /\ UNCHANGED <<input, image, out, complete, sent, admitted, left>>

LoadImages ==
  /\ Step("load", "build")
  /\ image' = [image EXCEPT !["stage"] = input["images"]]
  /\ UNCHANGED <<input, out, complete, sent, admitted, left>>

BuildWeb ==
  /\ Step("build", "save")
  /\ prep.kind = "bundle" => image["stage"] = "reviewed"
  /\ TagFree
  /\ image' = [image EXCEPT ![prep.kind] = prep.tree]
  /\ UNCHANGED <<input, out, complete, sent, admitted, left>>

\* docker save into the new directory, and verify_docker_archive over the result.
Saved(kind) == [f \in Files(kind) |-> CASE f = "web" -> image[kind]
                                        [] f = "stage" -> image["stage"]
                                        [] OTHER -> Nothing]
SaveImages ==
  /\ Step("save", "copy")
  /\ prep.kind = "bundle" => image["stage"] = "reviewed"
  /\ out' = Saved(prep.kind)
  /\ UNCHANGED <<input, image, complete, sent, admitted, left>>

CopyInput(f) ==
  /\ prep.at = "copy" /\ f \in Inputs(prep.kind) \ {"images"} /\ out[f] = Nothing
  /\ out' = [out EXCEPT ![f] = input[f]]
  /\ UNCHANGED <<input, prep, image, complete, sent, admitted, left>>

CopiedAnything == Step("copy", "manifest")
\* A bundle's copies are hashed again; a website's are left to the host.
Copied == /\ Step("copy", "manifest")
          /\ \A f \in Files(prep.kind) : out[f] # Nothing
          /\ prep.kind = "bundle" => Reviewed(out, Inputs("bundle") \ {"images"})
CheckCopies == Copied /\ UNCHANGED <<input, image, out, complete, sent, admitted, left>>

WriteManifest ==
  /\ prep.at = "manifest"
  /\ complete' = TRUE /\ prep' = [prep EXCEPT !.at = "idle"]
  /\ UNCHANGED <<input, image, out, sent, admitted, left>>

\* A check refuses, a command fails or the tool is killed: the output stays, and
\* so does the image.
Refuses == CASE prep.at = "verify" -> ~Reviewed(input, Inputs(prep.kind) \ {"infra"})
             [] prep.at = "extract" -> prep.kind = "bundle" /\ input["infra"] = "other"
             [] prep.at = "builder" -> ~TagFree \/ (prep.kind = "bundle" /\ image["stage"] = "other")
             [] prep.at \in {"build", "save"} -> prep.kind = "bundle" /\ image["stage"] = "other"
             [] prep.at = "copy" -> prep.kind = "bundle" /\ \E f \in Files("bundle") : out[f] = "other"
             [] OTHER -> FALSE
PrepareFails ==
  /\ prep.at # "idle"
  /\ IF Refuses THEN UNCHANGED left ELSE Use("failures")
  /\ prep' = [prep EXCEPT !.at = "idle"]
  /\ UNCHANGED <<input, image, out, complete, sent, admitted>>

\* The operator turns to another output directory, or another package.
FreshOutput ==
  /\ prep.at = "idle" /\ out # Nothing
  /\ out' = Nothing /\ complete' = FALSE /\ sent' = Nothing
  /\ UNCHANGED <<input, prep, image, admitted, left>>

------------------------------------------------------------------------------
\* The production host gets the directory, finished or not, and verifies it.
Upload ==
  /\ out # Nothing /\ sent = Nothing
  /\ sent' = [kind |-> prep.kind, files |-> out, manifest |-> complete]
  /\ UNCHANGED <<input, prep, image, out, complete, admitted, left>>

\* verify_bundle: the archives the manifest names, the images and the infra.
BundleVerified == Reviewed(sent.files, {"source", "runtime", "bases", "infra", "stage"})
\* verify_package: the files beside the image, which may have been anything when
\* the image was built; the image is pinned by the manifest alone.
WebsiteVerified == Reviewed(sent.files, {"source", "base", "bases"}) /\ sent.files["web"] # Nothing

Admit ==
  /\ sent # Nothing /\ sent.manifest
  /\ IF sent.kind = "bundle" THEN BundleVerified ELSE WebsiteVerified
  /\ admitted' = admitted \cup {[kind |-> sent.kind, web |-> sent.files["web"]]}
  /\ UNCHANGED <<input, prep, image, out, complete, sent, left>>

\* Somebody replaces an input, whatever the preparation has done with it.
ReplaceInput(f) ==
  /\ input[f] = "reviewed" /\ Use("changes")
  /\ input' = [input EXCEPT ![f] = "other"]
  /\ UNCHANGED <<prep, image, out, complete, sent, admitted>>

PackagesNext ==
  \/ VerifyInputs \/ ExtractSource \/ RequireLocalBuilder \/ LoadImages \/ BuildWeb \/ SaveImages
  \/ CheckCopies \/ WriteManifest \/ PrepareFails \/ FreshOutput \/ Upload \/ Admit
  \/ \E kind \in Kinds : StartPrepare(kind)
  \/ \E f \in AllInputs : CopyInput(f) \/ ReplaceInput(f)

PackagesSpec == PackagesInit /\ [][PackagesNext]_packageVars

------------------------------------------------------------------------------
PackagesTypeOK ==
  /\ input \in [AllInputs -> {"reviewed", "other"}]
  /\ prep \in [kind : {"bundle", "website"}, tree : Hashes,
               at : {"idle", "verify", "extract", "builder", "load", "build", "save", "copy", "manifest"}]
  /\ image \in [{"stage", "bundle", "website"} -> Hashes]
  /\ out = Nothing \/ out \in [Files(prep.kind) -> Hashes]
  /\ complete \in BOOLEAN
  /\ sent = Nothing \/ sent \in UNION {[kind : {k}, files : [Files(k) -> Hashes], manifest : BOOLEAN] :
                                        k \in {"bundle", "website"}}
  /\ left \in [{"changes", "failures"} -> Nat]

\* A bundle with its manifest holds the reviewed files only and a website built
\* from the reviewed source; and whatever the host admits was built from it, also
\* a website, whose copies only the host looks at. (prepare's last check, "completed
\* manifest is written last", verify_package.)
PackagesReviewed ==
  /\ (complete /\ prep.kind = "bundle" /\ prep.at = "idle") => Reviewed(out, Files("bundle"))
  /\ \A p \in admitted : p.web = "reviewed"
=============================================================================
