----------------------------- MODULE WikiBundle ------------------------------
(***************************************************************************)
(* The pages of the API wiki: what tools/wiki/generate.py makes of a commit *)
(* and what tools/wiki/publish_bundle.py makes of a checkout of the wiki.   *)
(*                                                                         *)
(* A page is known by who wrote it and for which release: the marker that   *)
(* every generated page starts with names the tag and the commit, so two    *)
(* releases never generate the same bytes and a page is its own digest.     *)
(***************************************************************************)
EXTENDS Integers, Sequences, FiniteSets, AbiCheck

CONSTANTS
    Page,       \* the names of the pages
    Home,       \* the page the wiki is created with by hand
    Required,   \* the pages every release must have
    Sha,        \* commits
    Tree,       \* what a commit generates, see TreeAssumption
    Abi,        \* [header, python, typescript]: the prototypes a commit declares
    None

ASSUME TreeAssumption ==
    /\ Home \in Page /\ Required \subseteq Page
    /\ Tree \in [Sha -> [versions : SUBSET Nat,   \* the values of the six places
                         pages    : SUBSET Page,  \* written by the generators
                         links    : SUBSET Page,  \* the pages they link to
                         foreign  : SUBSET Page,  \* stamped by the generator itself
                         covered  : BOOLEAN,      \* no public symbol is left out
                         stray    : BOOLEAN]]     \* a file that is no page
    /\ Abi \in [Sha -> [header : Prototypes(CType), python : Prototypes(STRING),
                         typescript : Prototypes(STRING)]]

\* A release: the version its tag names and the commit the tag is at.
Release(v, s) == [version |-> v, sha |-> s]
NoRelease == Release(0, None)

Absent    == [by |-> "nobody",    rel |-> NoRelease]
Bootstrap == [by |-> "bootstrap", rel |-> NoRelease]
Hand      == [by |-> "hand",      rel |-> NoRelease]
Gen(r)    == [by |-> "generator", rel |-> r]
Mixed(r)  == [by |-> "both",      rel |-> r]    \* generated, then edited by a person

\* The manifest: its release, and for each page it owns the digest of the page.
Manifest(r, files) == [rel |-> r, files |-> files]
NoManifest == Manifest(NoRelease, <<>>)
Owned(w) == DOMAIN w.manifest.files

-----------------------------------------------------------------------------
(* Generating *)

\* The six places that state the version agree, and with the tag.
OneVersion(t, v) == t.versions = {v}

\* A page the generator stamped itself is not stamped again.
StampOf(t, r, p) == IF p \in t.foreign THEN NoRelease ELSE r

\* Every language documents all its symbols, and both bindings declare the
\* prototypes of the header.
MetadataValid ==
    {s \in Sha : /\ Tree[s].covered
                 /\ AbiMatches(Abi[s].header, Abi[s].python, Abi[s].typescript)}

PagesValid(t, r) ==
    /\ Required \subseteq t.pages
    /\ \A p \in t.pages : StampOf(t, r, p) = r
    /\ t.links \subseteq t.pages

Generates(r) ==
    LET t == Tree[r.sha]
    IN  OneVersion(t, r.version) /\ r.sha \in MetadataValid /\ PagesValid(t, r)

\* The directory that becomes the artifact of the Python workflow.
Bundle(r) ==
    LET pages == [p \in Tree[r.sha].pages |-> Gen(StampOf(Tree[r.sha], r, p))]
    IN  [manifest |-> Manifest(r, pages), pages |-> pages, stray |-> Tree[r.sha].stray]

-----------------------------------------------------------------------------
(* Installing a bundle b, expected to be of release r, in a checkout w. *)

Readable(m) == DOMAIN m.files # {} /\ m.rel.version > 0

\* Every page the manifest lists is there, and is the one it lists.
EntriesMatch(b) ==
    \A p \in DOMAIN b.manifest.files :
        p \in DOMAIN b.pages /\ b.pages[p] = b.manifest.files[p]

\* There is nothing else but the metadata of the generators.
LayoutMatches(b) == DOMAIN b.pages = DOMAIN b.manifest.files /\ ~b.stray

BundleAccepted(b, r) ==
    /\ Readable(b.manifest) /\ EntriesMatch(b) /\ LayoutMatches(b)
    /\ b.manifest.rel = r
    /\ \A p \in DOMAIN b.pages : b.pages[p].rel = b.manifest.rel

\* Nothing that automation does not own is overwritten, but the Home page the
\* wiki had to be created with (the mutant overwrites any page).
ClaimableAny(w, p) == TRUE
Claimable(w, p) ==
    \/ w.pages[p] = Absent
    \/ p \in Owned(w)
    \/ w.manifest = NoManifest /\ p = Home /\ w.pages[p] = Bootstrap

\* The pages of the manifest are all there, as they were generated.
Intact(w) ==
    \A p \in Owned(w) : /\ w.pages[p] # Absent
                        /\ w.pages[p] = w.manifest.files[p]
                        /\ w.pages[p].rel = w.manifest.rel

Refused(b, r, w) ==
    \/ ~BundleAccepted(b, r)
    \/ w.manifest # NoManifest /\ ~Readable(w.manifest)
    \/ \E p \in DOMAIN b.pages \cup Owned(w) : ~Claimable(w, p)
    \/ ~Intact(w)

Older(b, w) == b.manifest.rel.version < w.manifest.rel.version

OtherCommit(b, w) ==
    /\ w.manifest # NoManifest
    /\ b.manifest.rel.version = w.manifest.rel.version
    /\ b.manifest.rel.sha # w.manifest.rel.sha

\* The pages that are gone from the release go, then the new ones and the
\* manifest are copied (the mutant leaves what is gone).
CopiedOnly(b, w) ==
    [pages |-> [p \in Page |-> IF p \in DOMAIN b.pages THEN b.pages[p] ELSE w.pages[p]],
     manifest |-> b.manifest]
Copied(b, w) ==
    [pages |-> [p \in Page |->
                  IF p \in DOMAIN b.pages THEN b.pages[p]
                  ELSE IF p \in Owned(w) THEN Absent
                  ELSE w.pages[p]],
     manifest |-> b.manifest]

\* A newer release stays, unless an operator asks for the older one (the mutant
\* installs whatever comes last).
InstalledLast(b, w, force) == Copied(b, w)
Installed(b, w, force) == IF Older(b, w) /\ ~force THEN w ELSE Copied(b, w)
=============================================================================
