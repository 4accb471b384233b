------------------------------ MODULE Archive ------------------------------
(* prepare_bundle.verify_docker_archive: a `docker save` archive describes    *)
(* one image twice, in manifest.json for the classic loader and in index.json *)
(* for the OCI loader. It is accepted only if both load the reviewed image.   *)
(*                                                                            *)
(* The archive is a record [pin, legacy, oci, roots, blobs]: the reviewed     *)
(* image ID, the items of manifest.json, whether there is an index.json, its  *)
(* descriptors, and the files. A file is its content, so that it is its own   *)
(* digest: a layer [kind, content, gzip] (content is what it unpacks to), a   *)
(* config [kind, arch, diffs], a manifest [kind, config, layers], an index    *)
(* [kind, children], or a statement. Of the nested indexes the code follows   *)
(* eight deep there is one level, and one image of the several of a bundle.   *)
EXTENDS Naturals, Sequences

VARIABLES archive, verdict

archiveVars == <<archive, verdict>>

\* What the streaming pass records of a file: whether it is there under its digest,
\* and the ID of its unpacked content.
Present(ar, d) == d.of \in ar.blobs
DiffIds(layers) == [i \in DOMAIN layers |-> layers[i].content]
Of(descriptors) == [i \in DOMAIN descriptors |-> descriptors[i].of]

ConfigAndLayers(config, layers) ==
  config.kind = "config" /\ config.arch = "amd64" /\ config.diffs = DiffIds(layers)

------------------------------------------------------------------------------
\* manifest.json: every file is there and exactly one item has the tag.
TaggedItems(ar) == {i \in DOMAIN ar.legacy : ar.legacy[i].tagged}
LegacyAccepted(ar) ==
  /\ \A i \in DOMAIN ar.legacy :
       /\ ar.legacy[i].config \in ar.blobs
       /\ \A j \in DOMAIN ar.legacy[i].layers : ar.legacy[i].layers[j] \in ar.blobs
  /\ \E i \in DOMAIN ar.legacy : TaggedItems(ar) = {i}
Tagged(ar) == ar.legacy[CHOOSE i \in DOMAIN ar.legacy : ar.legacy[i].tagged]

\* Without an index the image ID is the config's, and there are no other items.
ClassicAccepted(ar) ==
  /\ Len(ar.legacy) = 1
  /\ Tagged(ar).config = ar.pin
  /\ ConfigAndLayers(Tagged(ar).config, Tagged(ar).layers)

------------------------------------------------------------------------------
\* The descriptors of the graph: index.json's and those of the indexes it names.
Children(d) == IF d.of.kind = "index" THEN {d.of.children[i] : i \in DOMAIN d.of.children} ELSE {}
Roots(ar) == {ar.roots[i] : i \in DOMAIN ar.roots}
Walked(ar) == {d \in Roots(ar) \cup UNION {Children(r) : r \in Roots(ar)} : Present(ar, d)}

\* walk: a root is there, and what is there is of the type that the descriptor it
\* was first reached by says (the order is left open).
WalkAccepted(ar) ==
  /\ \A d \in Roots(ar) : Present(ar, d)
  /\ \A d \in Walked(ar) : \E first \in Walked(ar) :
       first.of = d.of /\ (first.type \in {"index", "manifest"} => d.of.kind = first.type)

\* select: the children for this platform, each of which must be runnable.
Selected(d) == d.platform \in {"none", "amd64"} /\ ~d.attestation
Runnable(ar, d) ==
  /\ Present(ar, d) /\ d.type = "manifest" /\ d.of.kind = "manifest"
  /\ d.of.config.type = "config" /\ Present(ar, d.of.config)
  /\ d.of.config.of.kind = "config" /\ d.of.config.of.arch = "amd64"
  /\ \A i \in DOMAIN d.of.layers :
       /\ Present(ar, d.of.layers[i])
       /\ d.of.layers[i].type = IF d.of.layers[i].of.gzip THEN "gzip" ELSE "plain"

Candidates(d) == IF d.type = "index" THEN {c \in DOMAIN d.of.children : Selected(d.of.children[c])} ELSE {}
OneCandidateAtLeast(d) == Candidates(d) # {}
OneCandidate(d) == \E c \in Candidates(d) : Candidates(d) = {c}
Leaf(d) == IF d.type = "index" THEN d.of.children[CHOOSE c \in Candidates(d) : TRUE] ELSE d

SelectAccepted(ar, d) ==
  Selected(d) /\ (d.type = "index" => OneCandidate(d)) /\ Runnable(ar, Leaf(d))

\* The one named root is the pinned one and maps to the tagged item.
Named(ar) == {i \in DOMAIN ar.roots : ar.roots[i].name = "pinned"}
RootAccepted(ar, d) ==
  /\ d.of = ar.pin
  /\ SelectAccepted(ar, d)
  /\ Tagged(ar).config = Leaf(d).of.config.of
  /\ Tagged(ar).layers = Of(Leaf(d).of.layers)
  /\ ConfigAndLayers(Tagged(ar).config, Tagged(ar).layers)

\* The other roots are attestations of the selected manifest.
ExtraAccepted(ar, d, leaf) ==
  /\ d.name = "none" /\ d.subject = leaf.of
  /\ d.type = "manifest" /\ Present(ar, d.of.config)
  /\ \/ d.of.config.type = "empty"
     \/ d.of.config.type = "config" /\ d.of.config.of.arch = "unknown"
  /\ d.of.layers # <<>>
  /\ \A i \in DOMAIN d.of.layers : d.of.layers[i].type = "statement" /\ Present(ar, d.of.layers[i])

\* An untagged item describes a manifest of the graph.
UntaggedAccepted(ar) ==
  \A i \in DOMAIN ar.legacy \ TaggedItems(ar) :
    \E d \in Walked(ar) : /\ d.of.kind = "manifest"
                          /\ ar.legacy[i].config = d.of.config.of
                          /\ ar.legacy[i].layers = Of(d.of.layers)

OciAccepted(ar) ==
  /\ WalkAccepted(ar)
  /\ \E i \in DOMAIN ar.roots :
       /\ Named(ar) = {i} /\ RootAccepted(ar, ar.roots[i])
       /\ \A j \in DOMAIN ar.roots \ {i} : ExtraAccepted(ar, ar.roots[j], Leaf(ar.roots[i]))
  /\ UntaggedAccepted(ar)

Accepted(ar) == LegacyAccepted(ar) /\ IF ar.oci THEN OciAccepted(ar) ELSE ClassicAccepted(ar)

\* Any archive at all.
ArchiveInit == archive.oci \in BOOLEAN /\ verdict = "none"
VerifyDockerArchive ==
  /\ verdict = "none" /\ verdict' = (IF Accepted(archive) THEN "accepted" ELSE "refused")
  /\ UNCHANGED archive
ArchiveNext == VerifyDockerArchive
ArchiveSpec == ArchiveInit /\ [][ArchiveNext]_archiveVars

------------------------------------------------------------------------------
\* What the loaders take from an archive, each from its own file. The OCI loader
\* may take any child of the named root's index that fits the platform.
Loaded(config, layers) == [config |-> config, contents |-> DiffIds(layers)]
ClassicLoads(ar) == {Loaded(ar.legacy[i].config, ar.legacy[i].layers) : i \in TaggedItems(ar)}
OciLeaves(d) == IF d.type = "index" THEN {d.of.children[c] : c \in Candidates(d)} ELSE {d}
OciLoads(ar) ==
  {Loaded(m.of.config.of, Of(m.of.layers)) : m \in UNION {OciLeaves(ar.roots[i]) : i \in Named(ar)}}

LoadOne(ar) ==
  \E image \in ClassicLoads(ar) :
    /\ ClassicLoads(ar) = {image}
    /\ image.config.arch = "amd64" /\ image.config.diffs = image.contents
    /\ IF ar.oci
       THEN OciLoads(ar) = {image} /\ \A i \in Named(ar) : ar.roots[i].of = ar.pin
       ELSE image.config = ar.pin

\* Whatever loader a host has, an accepted archive gives it the same single image,
\* for this platform, whose layers unpack to what its config says, under the
\* reviewed ID. (The two descriptions are checked against each other piecemeal.)
LoadersAgree == verdict = "accepted" => LoadOne(archive)
=============================================================================
