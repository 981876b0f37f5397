-------------------------- MODULE WikiPublishProofs --------------------------
(***************************************************************************)
(* Proofs about WikiPublish, for every set of pages, versions, commits and   *)
(* workflows, and for any number of disturbances: what a push of the         *)
(* publishing job may do to the wiki.                                        *)
(***************************************************************************)
EXTENDS WikiPublish, FiniteSetTheorems, SequenceTheorems, TLAPS

-----------------------------------------------------------------------------
(* The invariant.                                                            *)

Rel == [version : Nat, sha : Sha \cup {None}]
PageState == {Absent, Bootstrap, Hand} \cup [by : {"generator", "both"}, rel : Rel]
PageFiles == UNION {[S -> PageState] : S \in SUBSET Page}
Wiki == [pages : [Page -> PageState], manifest : [rel : Rel, files : PageFiles]]
Kind == {"run", "branch", "dispatch"}
ReleaseName == [version : Version, sha : Sha]
Run == [id : Nat, flow : Flow, rel : ReleaseName, attempt : Nat,
        status : {"running", "success", "failure"}]
Phase == {"idle", "ignore", "resolve", "runs", "tag", "release", "clone",
          "push", "rebase", "repush"}
Named == {"runs", "tag", "release", "clone", "push", "rebase", "repush"}

GithubTypeOK ==
    /\ tagAt \in [Version -> Sha \cup {None}]
    /\ runs \subseteq Run /\ IsFiniteSet(runs)
WikiTypeOK == wiki \in Wiki /\ edits \in Nat

\* An event of a run names the commit of the run, that of an operator a version only.
EventOK(e) ==
    /\ e \in [kind : Kind, rel : Rel, force : BOOLEAN]
    /\ e.kind = "run" => e.rel \in ReleaseName
    /\ e.kind = "dispatch" => e.rel.version \in Version
JobRecord ==
    [phase : Phase, event : Kind \cup {"none"}, rel : Rel, force : BOOLEAN, final : BOOLEAN,
     polls : Nat, base : Wiki \cup {<< >>}, baseEdits : Nat, local : Wiki \cup {<< >>}]
JobOK(j) ==
    /\ j \in JobRecord
    /\ j.phase \in Named => j.rel \in ReleaseName
    /\ j.phase = "resolve" => j.rel.version \in Version
    /\ j.phase # "idle" => j.event \in Kind
    /\ j.phase \in {"push", "rebase", "repush"} => j.final
    /\ j.phase = "clone" => ~j.final
JobTypeOK == JobOK(job) /\ (pending # None => EventOK(pending))

\* Whatever people make of the manifest, it states a version.
Dated(w) == w.manifest = NoManifest \/ w.manifest.rel.version > 0

\* The clone of a job, before and after the bundle was installed in it.
TextKept(base, local) ==
    \A p \in Page : base.pages[p].by \in {"hand", "both"} =>
       \/ local.pages[p].by = base.pages[p].by
       \/ base.pages[p].by = "both" /\ Entered(base, p)
Kept(base, local) == TextKept(base, local) /\ Orphans(local) \subseteq Orphans(base)
Forward(base, local, force) ==
    local.manifest.rel # base.manifest.rel =>
       \/ local.manifest.rel.version > base.manifest.rel.version
       \/ force /\ local.manifest.rel.version # base.manifest.rel.version
Clean(base, local) == local.manifest = base.manifest => local = base
Cleared(base, local) == \A p \in Owned(base) \ Owned(local) : local.pages[p] # base.pages[p]

CloneInv ==
    job.final =>
       /\ job.base \in Wiki /\ job.local \in Wiki
       /\ job.baseEdits <= edits
       /\ edits = job.baseEdits => wiki = job.base
       /\ Dated(job.local)
       /\ Kept(job.base, job.local) /\ Forward(job.base, job.local, job.force)
       /\ Clean(job.base, job.local)
       /\ job.phase # "repush" => Cleared(job.base, job.local)

\* What the final gate has seen by the time it is where it is.
SeenInv ==
    /\ seen \subseteq AllFacts
    /\ job.final =>
         /\ job.phase \in {"tag", "release", "push", "rebase", "repush"} => "succeeded" \in seen
         /\ job.phase \in {"release", "push", "rebase", "repush"} => "tagged" \in seen
         /\ job.phase \in {"push", "rebase", "repush"} => "public" \in seen

PublishInv ==
    /\ GithubTypeOK /\ WikiTypeOK /\ JobTypeOK
    /\ Dated(wiki) /\ CloneInv /\ SeenInv
-----------------------------------------------------------------------------
(* Installing a bundle (publish_bundle.py).                                  *)

LEMMA ReleaseFacts ==
    /\ ReleaseName \subseteq Rel /\ NoRelease \in Rel
    /\ \A r \in ReleaseName : r.version > 0
<1>1. Version \subseteq Nat /\ 0 \notin Version
  BY PublishAssumption
<1>2. NoRelease \in Rel
  BY DEF Rel, NoRelease, Release
<1>3. ASSUME NEW r \in ReleaseName
      PROVE  r.version > 0
  <2>1. r.version \in Nat /\ r.version # 0
    BY <1>1 DEF ReleaseName
  <2> QED BY <2>1
<1>4. ReleaseName \subseteq Rel
  BY <1>1 DEF ReleaseName, Rel
<1> QED BY <1>2, <1>3, <1>4

\* What the manifest of a bundle lists is what the bundle holds, page by page.
LEMMA BundleFacts ==
    ASSUME NEW r \in ReleaseName, NEW b, b = Bundle(r)
    PROVE  /\ b.manifest.rel = r /\ b.manifest.files = b.pages
           /\ b.manifest.rel \in Rel /\ b.manifest.rel.version > 0
           /\ DOMAIN b.pages \subseteq Page
           /\ \A p \in DOMAIN b.pages : b.pages[p] \in PageState /\ b.pages[p].by = "generator"
           /\ b.manifest \in [rel : Rel, files : PageFiles]
<1> DEFINE t == Tree[r.sha]
<1> DEFINE pages == [p \in t.pages |-> Gen(StampOf(t, r, p))]
<1>1. t.pages \subseteq Page
  BY TreeAssumption DEF ReleaseName
<1>2. \A p \in t.pages : pages[p] \in PageState /\ pages[p].by = "generator"
  BY ReleaseFacts DEF Gen, StampOf, PageState
<1>3. pages \in [t.pages -> PageState] /\ DOMAIN pages = t.pages
  BY <1>2
<1> HIDE DEF pages, t
<1>4. pages \in PageFiles
  BY <1>1, <1>3 DEF PageFiles
<1>5. b.pages = pages /\ b.manifest = [rel |-> r, files |-> pages]
  BY DEF Bundle, Manifest, pages, t
<1> QED BY <1>1, <1>2, <1>3, <1>4, <1>5, ReleaseFacts

\* A page that the manifest lists, with the digest it has, is a generated one of the release
\* the manifest names.
LEMMA OwnedFacts ==
    ASSUME NEW w \in Wiki, Dated(w), Intact(w), NEW p \in Owned(w), p \in Page
    PROVE  /\ w.pages[p] = w.manifest.files[p] /\ w.pages[p].by \in {"generator", "both"}
           /\ Entered(w, p)
<1>1. w.pages[p] = w.manifest.files[p] /\ w.pages[p].rel = w.manifest.rel
  BY DEF Intact
<1>2. w.manifest # NoManifest
  BY DEF Owned, NoManifest, Manifest
<1>3. w.pages[p].rel # NoRelease
  BY <1>1, <1>2 DEF Dated, NoRelease, Release
<1>4. w.pages[p] \notin {Absent, Bootstrap, Hand}
  BY <1>3 DEF Absent, Bootstrap, Hand
<1>5. w.pages[p] \in PageState
  BY DEF Wiki
<1>6. w.pages[p].by \in {"generator", "both"}
  BY <1>4, <1>5 DEF PageState
<1> QED BY <1>1, <1>6 DEF Entered

\* The installation neither loses a person's text nor orphans a page; what is gone from the
\* release goes; and a bundle with the manifest that is there changes nothing.
LEMMA CopiedFacts ==
    ASSUME NEW w \in Wiki, Dated(w), NEW r \in ReleaseName, NEW b, b = Bundle(r),
           ~Refused(b, r, w), NEW c, c = Copied(b, w)
    PROVE  /\ c \in Wiki /\ Dated(c) /\ c.manifest = b.manifest
           /\ Kept(w, c) /\ Clean(w, c) /\ Cleared(w, c)
<1>1. /\ b.manifest.files = b.pages /\ b.manifest.rel.version > 0
      /\ DOMAIN b.pages \subseteq Page
      /\ \A p \in DOMAIN b.pages : b.pages[p] \in PageState /\ b.pages[p].by = "generator"
      /\ b.manifest \in [rel : Rel, files : PageFiles]
  BY BundleFacts
<1>2. /\ Intact(w)
      /\ \A p \in DOMAIN b.pages \cup Owned(w) : Claimable(w, p)
  BY DEF Refused
<1>3. /\ c.manifest = b.manifest
      /\ c.pages = [p \in Page |-> IF p \in DOMAIN b.pages THEN b.pages[p]
                                   ELSE IF p \in Owned(w) THEN Absent ELSE w.pages[p]]
      /\ Owned(c) = DOMAIN b.pages
      /\ c = [pages |-> c.pages, manifest |-> c.manifest]
  BY <1>1 DEF Copied, Owned
<1>4. Owned(w) \subseteq Page
  BY DEF Wiki, Owned, PageFiles
<1>5. w.pages \in [Page -> PageState] /\ w = [pages |-> w.pages, manifest |-> w.manifest]
  BY DEF Wiki
<1>6. c \in Wiki
  <2>1. Absent \in PageState
    BY DEF PageState
  <2>2. c.pages \in [Page -> PageState]
    BY <1>1, <1>3, <1>5, <2>1
  <2> QED BY <1>1, <1>3, <2>2 DEF Wiki
<1>7. Dated(c)
  BY <1>1, <1>3 DEF Dated
<1>8. \A p \in Owned(w) : /\ w.pages[p] = w.manifest.files[p] /\ Entered(w, p)
                          /\ w.pages[p].by \in {"generator", "both"}
  BY <1>2, <1>4, OwnedFacts
<1>9. TextKept(w, c)
  <2> SUFFICES ASSUME NEW p \in Page, w.pages[p].by \in {"hand", "both"}
               PROVE  \/ c.pages[p].by = w.pages[p].by
                      \/ w.pages[p].by = "both" /\ Entered(w, p)
    BY DEF TextKept
  <2>1. CASE p \in Owned(w)
    BY <1>8, <2>1
  <2>2. CASE p \notin Owned(w)
    <3>1. ~Claimable(w, p)
      BY <2>2 DEF Claimable, Absent, Bootstrap
    <3> QED BY <2>2, <3>1, <1>2, <1>3
  <2> QED BY <2>1, <2>2
<1>10. Orphans(c) \subseteq Orphans(w)
  <2> SUFFICES ASSUME NEW p \in Page, c.pages[p].by \in {"generator", "both"}, p \notin Owned(c)
               PROVE  c.pages[p] = w.pages[p] /\ p \notin Owned(w)
    BY DEF Orphans
  <2>1. p \notin Owned(w)
    BY <1>3 DEF Absent
  <2> QED BY <1>3, <2>1
<1>11. Cleared(w, c)
  <2> SUFFICES ASSUME NEW p \in Owned(w), p \notin Owned(c) PROVE c.pages[p] # w.pages[p]
    BY DEF Cleared
  <2>1. c.pages[p] = Absent /\ w.pages[p].by \in {"generator", "both"}
    BY <1>3, <1>4, <1>8
  <2> QED BY <2>1 DEF Absent
<1>12. Clean(w, c)
  <2> SUFFICES ASSUME c.manifest = w.manifest PROVE c.pages = w.pages
    BY <1>3, <1>5 DEF Clean
  <2>1. Owned(w) = DOMAIN b.pages /\ \A p \in Owned(w) : b.pages[p] = w.manifest.files[p]
    BY <1>1, <1>3 DEF Owned
  <2>2. \A p \in Page : c.pages[p] = w.pages[p]
    BY <1>3, <1>8, <2>1
  <2> QED BY <1>3, <1>5, <2>2
<1> QED BY <1>3, <1>6, <1>7, <1>9, <1>10, <1>11, <1>12 DEF Kept

\* ... and it goes forward, or does nothing, unless it is forced.
LEMMA InstalledFacts ==
    ASSUME NEW w \in Wiki, Dated(w), NEW r \in ReleaseName, NEW b, b = Bundle(r),
           ~Refused(b, r, w), ~OtherCommit(b, w), NEW force \in BOOLEAN,
           NEW c, c = Installed(b, w, force)
    PROVE  /\ c \in Wiki /\ Dated(c) /\ Kept(w, c) /\ Clean(w, c) /\ Cleared(w, c)
           /\ Forward(w, c, force)
<1>1. CASE Older(b, w) /\ ~force
  BY <1>1 DEF Installed, Kept, TextKept, Clean, Cleared, Forward
<1>2. CASE ~(Older(b, w) /\ ~force)
  <2>1. c = Copied(b, w)
    BY <1>2 DEF Installed
  <2>2. /\ c \in Wiki /\ Dated(c) /\ c.manifest = b.manifest
        /\ Kept(w, c) /\ Clean(w, c) /\ Cleared(w, c)
    BY <2>1, CopiedFacts
  <2>3. /\ b.manifest.rel \in Rel /\ b.manifest.rel.version > 0 /\ w.manifest.rel \in Rel
    BY BundleFacts DEF Wiki
  <2>4. ASSUME b.manifest.rel # w.manifest.rel
        PROVE  b.manifest.rel.version # w.manifest.rel.version
    <3>1. CASE w.manifest = NoManifest
      BY <3>1, <2>3 DEF NoManifest, Manifest, NoRelease, Release
    <3>2. CASE w.manifest # NoManifest
      BY <2>3, <2>4, <3>2 DEF OtherCommit, Rel
    <3> QED BY <3>1, <3>2
  <2>5. Forward(w, c, force)
    BY <2>2, <2>3, <2>4, <1>2 DEF Forward, Older, Rel
  <2> QED BY <2>2, <2>5
<1> QED BY <1>1, <1>2
-----------------------------------------------------------------------------
(* The gate (release_gate.py).                                               *)

\* Two runs of one workflow are ranked, by when they were started and then by attempt.  What
\* the gate takes for the newest run of a workflow outranks every other one, so a release it
\* calls ready has no newer run that failed or is under way.
LEMMA ReadyFacts ==
    ASSUME runs \subseteq Run, NEW rel, Evaluate(rel) = "ready"
    PROVE  Succeeded(rel)
<1> SUFFICES ASSUME NEW f \in Flow
             PROVE  \E q \in runs :
                      /\ q.rel = rel /\ q.flow = f /\ q.status = "success"
                      /\ \A o \in runs : (o.rel = rel /\ o.flow = f) =>
                            (o.id < q.id \/ (o.id = q.id /\ o.attempt <= q.attempt))
  BY DEF Succeeded
<1>1. PICK q \in Selected(rel) : q.flow = f
  BY DEF Evaluate
<1>2. q.status = "success"
  BY DEF Evaluate
<1>3. /\ q \in runs /\ q.rel = rel
      /\ \A o \in runs : o.rel = rel /\ o.flow = f => ~Ranks(o, q)
  BY <1>1 DEF Selected, Listed
<1>4. ASSUME NEW o \in runs, ~Ranks(o, q)
      PROVE  o.id < q.id \/ (o.id = q.id /\ o.attempt <= q.attempt)
  <2>1. o.id \in Nat /\ q.id \in Nat /\ o.attempt \in Nat /\ q.attempt \in Nat
    BY <1>3 DEF Run
  <2> QED BY <1>4, <2>1 DEF Ranks
<1> QED BY <1>1, <1>2, <1>3, <1>4

-----------------------------------------------------------------------------
(* The slot of the concurrency group.                                        *)

LEMMA IdleFacts == JobOK(Idle) /\ ~Idle.final
BY ReleaseFacts DEF JobOK, JobRecord, Idle, Phase, Kind, Named

LEMMA StartedFacts ==
    ASSUME NEW e, EventOK(e)
    PROVE  JobOK(Started(e)) /\ ~Started(e).final
<1>1. FirstPhase(e.kind) = IF e.kind = "run" THEN "runs"
                           ELSE IF e.kind = "branch" THEN "ignore" ELSE "resolve"
  BY DEF EventOK, FirstPhase, Kind
<1>2. e.kind \in Kind /\ e.rel \in Rel /\ e.force \in BOOLEAN
  BY DEF EventOK
<1>3. FirstPhase(e.kind) \in {"runs", "ignore", "resolve"}
  BY <1>1
<1> DEFINE j == Started(e)
<1>4. /\ j.phase = FirstPhase(e.kind) /\ j.event = e.kind /\ j.rel = e.rel
      /\ ~j.final /\ j \in JobRecord
  <2>1. Idle \in JobRecord /\ ~Idle.final
    BY IdleFacts DEF JobOK
  <2> HIDE DEF Idle
  <2> QED BY <1>2, <1>3, <2>1 DEF Started, JobRecord, Phase
<1>5. /\ j.phase \in Named => j.rel \in ReleaseName
      /\ j.phase = "resolve" => j.rel.version \in Version
  BY <1>1, <1>2, <1>4 DEF EventOK, Named, Kind
<1> QED BY <1>2, <1>3, <1>4, <1>5 DEF JobOK

LEMMA NextJobFacts ==
    ASSUME JobTypeOK, NextJob
    PROVE  JobTypeOK' /\ ~job'.final
BY IdleFacts, StartedFacts DEF JobTypeOK, NextJob

LEMMA ArriveFacts ==
    ASSUME JobTypeOK, NEW e, EventOK(e), Arrive(e)
    PROVE  JobTypeOK' /\ (job' = job \/ ~job'.final)
BY StartedFacts DEF JobTypeOK, Arrive

-----------------------------------------------------------------------------
(* What a step that leaves the clone alone keeps.                            *)

SameClone ==
    /\ job'.final = job.final /\ job'.base = job.base /\ job'.baseEdits = job.baseEdits
    /\ job'.local = job.local /\ job'.force = job.force
    /\ job'.phase # "repush" => job.phase # "repush"

LEMMA CloneKept ==
    ASSUME CloneInv, UNCHANGED <<wiki, edits>>, ~job'.final \/ SameClone
    PROVE  CloneInv'
BY DEF CloneInv, SameClone

\* An edit moves the wiki away from the clone, and is counted.
LEMMA CloneAfterEdit ==
    ASSUME CloneInv, WikiTypeOK, JobTypeOK, edits' = edits + 1, job' = job
    PROVE  CloneInv'
<1>1. edits \in Nat /\ job.baseEdits \in Nat
  BY DEF WikiTypeOK, JobTypeOK, JobOK, JobRecord
<1> QED BY <1>1 DEF CloneInv

LEMMA FactsFacts == \A r : Facts(r) \subseteq AllFacts
BY DEF Facts, AllFacts

\* The gate forgets nothing it has seen of a job's release while the job lasts.
LEMMA SeenKept ==
    ASSUME SeenInv, Remember,
           \/ ~job'.final
           \/ job'.final = job.final /\ job'.phase = job.phase
           \/ job'.phase \notin {"tag", "release", "push", "rebase", "repush"}
           \/ /\ job.final /\ job.phase \in {"push", "rebase", "repush"}
              /\ job'.phase \in {"push", "rebase", "repush"}
    PROVE  SeenInv'
<1>1. Facts(job.rel)' \subseteq AllFacts
  BY DEF Facts, AllFacts
<1>2. seen' \subseteq AllFacts
  BY <1>1 DEF SeenInv, Remember
<1>3. job'.final /\ job.final => seen \subseteq seen'
  BY DEF Remember
<1> QED BY <1>2, <1>3 DEF SeenInv
-----------------------------------------------------------------------------
(* One lemma per action.                                                     *)

\* The image of a finite set is finite.
LEMMA ImageFacts ==
    ASSUME NEW S, IsFiniteSet(S), NEW T, NEW f \in [S -> T], \A t \in T : \E x \in S : f[x] = t
    PROVE  IsFiniteSet(T)
<1>1. f \in Surjection(S, T)
  BY DEF Surjection
<1> QED BY <1>1, FS_Surjection

\* The identifier of a new run is a number: there are finitely many.
LEMMA NextIdFacts ==
    ASSUME GithubTypeOK
    PROVE  NextId \in Nat
<1>1. IsFiniteSet(Pushes)
  <2> DEFINE f == [r \in runs |-> r.id]
  <2>1. f \in [runs -> Pushes] /\ \A t \in Pushes : \E r \in runs : f[r] = t
    BY DEF Pushes
  <2> HIDE DEF f
  <2> QED BY <2>1, ImageFacts DEF GithubTypeOK
<1> QED BY <1>1, FS_CardinalityType DEF NextId

LEMMA PushTagStep ==
    ASSUME NEW v \in Version, NEW s \in Sha
    PROVE  PublishInv /\ PushTag(v, s) /\ Remember => PublishInv'
<1> SUFFICES ASSUME PublishInv, PushTag(v, s), Remember PROVE PublishInv'
  OBVIOUS
<1> USE DEF PublishInv, PushTag
<1> DEFINE new == {[id |-> NextId, flow |-> f, rel |-> Release(v, s), attempt |-> 1,
                    status |-> "running"] : f \in Flow}
<1>1. new \subseteq Run
  <2>1. NextId \in Nat /\ Release(v, s) \in ReleaseName
    BY NextIdFacts DEF ReleaseName, Release
  <2> QED BY <2>1 DEF Run
<1>2. IsFiniteSet(new)
  <2> DEFINE f == [g \in Flow |-> [id |-> NextId, flow |-> g, rel |-> Release(v, s), attempt |-> 1,
                                  status |-> "running"]]
  <2>1. f \in [Flow -> new] /\ \A t \in new : \E g \in Flow : f[g] = t
    OBVIOUS
  <2> HIDE DEF f, new
  <2> QED BY <2>1, ImageFacts, PublishAssumption
<1>3. IsFiniteSet(runs \cup new)
  BY <1>2, FS_Union DEF GithubTypeOK
<1>4. tagAt' \in [Version -> Sha \cup {None}]
  BY DEF GithubTypeOK
<1>5. GithubTypeOK'
  BY <1>1, <1>3, <1>4 DEF GithubTypeOK
<1>6. WikiTypeOK' /\ JobTypeOK' /\ Dated(wiki)'
  BY DEF WikiTypeOK, JobTypeOK
<1>7. CloneInv'
  BY CloneKept DEF SameClone
<1>8. SeenInv'
  BY SeenKept
<1> QED BY <1>5, <1>6, <1>7, <1>8

LEMMA RerunStep ==
    ASSUME NEW r \in runs
    PROVE  PublishInv /\ Rerun(r) /\ Remember => PublishInv'
<1> SUFFICES ASSUME PublishInv, Rerun(r), Remember PROVE PublishInv'
  OBVIOUS
<1> USE DEF PublishInv, Rerun
<1>1. [r EXCEPT !.attempt = @ + 1, !.status = "running"] \in Run
  <2>1. r \in Run
    BY DEF GithubTypeOK
  <2>2. r.attempt + 1 \in Nat
    BY <2>1 DEF Run
  <2> QED BY <2>1, <2>2 DEF Run
<1>2. IsFiniteSet(runs')
  BY FS_AddElement DEF GithubTypeOK
<1>3. GithubTypeOK'
  BY <1>1, <1>2 DEF GithubTypeOK
<1>4. WikiTypeOK' /\ JobTypeOK' /\ Dated(wiki)'
  BY DEF WikiTypeOK, JobTypeOK
<1>5. CloneInv'
  BY CloneKept DEF SameClone
<1>6. SeenInv'
  BY SeenKept
<1> QED BY <1>3, <1>4, <1>5, <1>6

LEMMA CompleteStep ==
    ASSUME NEW r \in runs, NEW status \in {"success", "failure"}
    PROVE  PublishInv /\ Complete(r, status) /\ Remember => PublishInv'
<1> SUFFICES ASSUME PublishInv, Complete(r, status), Remember PROVE PublishInv'
  OBVIOUS
<1> USE DEF PublishInv, Complete
<1>1. r \in Run /\ [r EXCEPT !.status = status] \in Run
  BY DEF GithubTypeOK, Run
<1>2. IsFiniteSet(runs')
  BY FS_AddElement, FS_RemoveElement DEF GithubTypeOK
<1>3. GithubTypeOK'
  BY <1>1, <1>2 DEF GithubTypeOK
<1>4. EventOK(Event("run", r.rel, FALSE))
  BY <1>1, ReleaseFacts DEF EventOK, Event, Kind, Run
<1>5. JobTypeOK' /\ (job' = job \/ ~job'.final)
  BY <1>4, ArriveFacts
<1>6. WikiTypeOK' /\ Dated(wiki)'
  BY DEF WikiTypeOK
<1>7. CloneInv'
  BY <1>5, CloneKept DEF SameClone
<1>8. SeenInv'
  BY <1>5, SeenKept
<1> QED BY <1>3, <1>5, <1>6, <1>7, <1>8

LEMMA BranchRunStep == PublishInv /\ BranchRun /\ Remember => PublishInv'
<1> SUFFICES ASSUME PublishInv, BranchRun, Remember PROVE PublishInv'
  OBVIOUS
<1> USE DEF PublishInv, BranchRun, github
<1>1. EventOK(Event("branch", NoRelease, FALSE))
  BY ReleaseFacts DEF EventOK, Event, Kind
<1>2. JobTypeOK' /\ (job' = job \/ ~job'.final)
  BY <1>1, ArriveFacts
<1>3. GithubTypeOK' /\ WikiTypeOK' /\ Dated(wiki)'
  BY DEF GithubTypeOK, WikiTypeOK
<1>4. CloneInv'
  BY <1>2, CloneKept DEF SameClone
<1>5. SeenInv'
  BY <1>2, SeenKept
<1> QED BY <1>2, <1>3, <1>4, <1>5

LEMMA DispatchStep ==
    ASSUME NEW v \in Version, NEW force \in BOOLEAN
    PROVE  PublishInv /\ Dispatch(v, force) /\ Remember => PublishInv'
<1> SUFFICES ASSUME PublishInv, Dispatch(v, force), Remember PROVE PublishInv'
  OBVIOUS
<1> USE DEF PublishInv, Dispatch, github
<1>1. EventOK(Event("dispatch", Release(v, None), force))
  BY PublishAssumption DEF EventOK, Event, Kind, Release, Rel
<1>2. JobTypeOK' /\ (job' = job \/ ~job'.final)
  BY <1>1, ArriveFacts
<1>3. GithubTypeOK' /\ WikiTypeOK' /\ Dated(wiki)'
  BY DEF GithubTypeOK, WikiTypeOK
<1>4. CloneInv'
  BY <1>2, CloneKept DEF SameClone
<1>5. SeenInv'
  BY <1>2, SeenKept
<1> QED BY <1>2, <1>3, <1>4, <1>5

LEMMA WithdrawStep ==
    ASSUME NEW v \in Version
    PROVE  PublishInv /\ Withdraw(v) /\ Remember => PublishInv'
<1> SUFFICES ASSUME PublishInv, Withdraw(v), Remember PROVE PublishInv'
  OBVIOUS
<1> USE DEF PublishInv, Withdraw
<1>1. GithubTypeOK' /\ WikiTypeOK' /\ JobTypeOK' /\ Dated(wiki)'
  BY DEF GithubTypeOK, WikiTypeOK, JobTypeOK
<1>2. CloneInv'
  BY CloneKept DEF SameClone
<1>3. SeenInv'
  BY SeenKept
<1> QED BY <1>1, <1>2, <1>3

\* What a person enters in the manifest is of its type.
LEMMA EnteredFacts ==
    ASSUME NEW w \in Wiki, NEW p \in Page, w.manifest.rel \in Rel
    PROVE  Manifest(w.manifest.rel, Listing(w, p)) \in [rel : Rel, files : PageFiles]
<1> DEFINE files == Listing(w, p)
<1>1. w.manifest.files \in PageFiles /\ w.pages[p] \in PageState
  BY DEF Wiki
<1>2. Owned(w) \subseteq Page /\ \A q \in Owned(w) : w.manifest.files[q] \in PageState
  BY <1>1 DEF Owned, PageFiles
<1>3. files \in [Owned(w) \cup {p} -> PageState] /\ Owned(w) \cup {p} \in SUBSET Page
  BY <1>1, <1>2 DEF Listing
<1> HIDE DEF files
<1>4. files \in PageFiles
  BY <1>3 DEF PageFiles
<1> QED BY <1>4 DEF Manifest, files

\* What a person makes of a page is a page.
LEMMA EditPageStep ==
    ASSUME NEW p \in Page, NEW entered \in BOOLEAN, NEW c,
           c \in {Absent, Hand} \cup {Gen(wiki.pages[p].rel), Mixed(wiki.pages[p].rel)}
    PROVE  PublishInv /\ EditPage(p, c, entered) /\ Remember => PublishInv'
<1> SUFFICES ASSUME PublishInv, EditPage(p, c, entered), Remember PROVE PublishInv'
  OBVIOUS
<1> USE DEF PublishInv
<1>1. wiki \in Wiki /\ wiki.pages[p] \in PageState /\ wiki.manifest.rel \in Rel
  BY DEF WikiTypeOK, Wiki
<1>2. wiki.pages[p].rel \in Rel
  BY <1>1, ReleaseFacts DEF PageState, Absent, Bootstrap, Hand
<1>3. c \in PageState
  BY <1>2 DEF Gen, Mixed, PageState
<1> DEFINE w == [wiki EXCEPT !.pages[p] = c]
           m == Manifest(wiki.manifest.rel, Listing(w, p))
<1>4. w \in Wiki /\ w.manifest = wiki.manifest
  BY <1>1, <1>3 DEF Wiki
<1> HIDE DEF w
<1>5. m \in [rel : Rel, files : PageFiles] /\ m.rel = wiki.manifest.rel
  <2>1. m \in [rel : Rel, files : PageFiles]
    BY <1>1, <1>4, EnteredFacts
  <2> QED BY <2>1 DEF Manifest
<1> HIDE DEF m
<1>6. /\ wiki' = IF entered THEN [w EXCEPT !.manifest = m] ELSE w
      /\ entered => wiki.manifest # NoManifest
      /\ UNCHANGED <<github, job, pending>> /\ edits' = edits + 1
  BY DEF EditPage, w, m
<1>7. wiki' \in Wiki /\ wiki'.manifest = IF entered THEN m ELSE wiki.manifest
  BY <1>4, <1>5, <1>6 DEF Wiki
<1>8. WikiTypeOK' /\ Dated(wiki')
  BY <1>5, <1>6, <1>7 DEF WikiTypeOK, Dated
<1>9. GithubTypeOK' /\ JobTypeOK' /\ CloneInv'
  BY <1>6, CloneAfterEdit DEF GithubTypeOK, JobTypeOK, github
<1>10. SeenInv'
  BY <1>6, SeenKept
<1> QED BY <1>8, <1>9, <1>10

\* Whatever a person makes of the manifest, it states a version and lists pages.
LEMMA EditManifestStep ==
    ASSUME NEW m \in ManifestEdits(wiki)
    PROVE  PublishInv /\ EditManifest(m) /\ Remember => PublishInv'
<1> SUFFICES ASSUME PublishInv, EditManifest(m), Remember PROVE PublishInv'
  OBVIOUS
<1> USE DEF PublishInv
<1>1. /\ wiki \in Wiki /\ wiki.manifest.rel \in Rel /\ wiki.manifest.files \in PageFiles
      /\ wiki.manifest.rel.version > 0
  BY DEF WikiTypeOK, Wiki, EditManifest, Dated
<1>2. m \in [rel : Rel, files : PageFiles] /\ m.rel.version > 0
  <2>1. ASSUME NEW p \in Page, m = Manifest(wiki.manifest.rel, Listing(wiki, p))
        PROVE  m \in [rel : Rel, files : PageFiles] /\ m.rel.version > 0
    <3>1. m \in [rel : Rel, files : PageFiles]
      BY <1>1, <2>1, EnteredFacts
    <3> QED BY <1>1, <2>1, <3>1 DEF Manifest
  <2>2. ASSUME NEW p \in Owned(wiki), m = Manifest(wiki.manifest.rel, Striking(wiki, p))
        PROVE  m \in [rel : Rel, files : PageFiles] /\ m.rel.version > 0
    <3> DEFINE files == Striking(wiki, p)
    <3>1. Owned(wiki) \subseteq Page
          /\ \A q \in Owned(wiki) : wiki.manifest.files[q] \in PageState
      BY <1>1 DEF Owned, PageFiles
    <3>2. files \in [Owned(wiki) \ {p} -> PageState] /\ Owned(wiki) \ {p} \in SUBSET Page
      BY <3>1 DEF Striking
    <3> HIDE DEF files
    <3>3. files \in PageFiles
      BY <3>2 DEF PageFiles
    <3> QED BY <1>1, <2>2, <3>3 DEF Manifest, files
  <2>3. ASSUME NEW v \in Version,
               m = Manifest(Release(v, wiki.manifest.rel.sha), wiki.manifest.files)
        PROVE  m \in [rel : Rel, files : PageFiles] /\ m.rel.version > 0
    <3>1. v \in Nat /\ v > 0
      <4>1. v \in Nat /\ v # 0
        BY PublishAssumption
      <4> QED BY <4>1
    <3> QED BY <1>1, <2>3, <3>1 DEF Manifest, Release, Rel
  <2> QED BY <2>1, <2>2, <2>3 DEF ManifestEdits
<1>3. /\ wiki' = [wiki EXCEPT !.manifest = m]
      /\ UNCHANGED <<github, job, pending>> /\ edits' = edits + 1
  BY DEF EditManifest
<1>4. wiki' \in Wiki /\ wiki'.manifest = m
  BY <1>1, <1>2, <1>3 DEF Wiki
<1>5. WikiTypeOK' /\ Dated(wiki')
  BY <1>2, <1>3, <1>4 DEF WikiTypeOK, Dated
<1>6. GithubTypeOK' /\ JobTypeOK' /\ CloneInv'
  BY <1>3, CloneAfterEdit DEF GithubTypeOK, JobTypeOK, github
<1>7. SeenInv'
  BY <1>3, SeenKept
<1> QED BY <1>5, <1>6, <1>7

\* The end of a job, whichever it is, takes its clone with it.
LEMMA EndStep ==
    ASSUME PublishInv, Remember, Finish \/ Fail, UNCHANGED <<github, wiki, edits>>
    PROVE  PublishInv'
<1>1. JobTypeOK' /\ ~job'.final
  BY NextJobFacts DEF PublishInv, Finish, Fail
<1>2. GithubTypeOK' /\ WikiTypeOK' /\ Dated(wiki)'
  BY DEF PublishInv, GithubTypeOK, WikiTypeOK, github
<1>3. CloneInv'
  BY <1>1, CloneKept DEF PublishInv
<1>4. SeenInv'
  BY <1>1, SeenKept DEF PublishInv
<1> QED BY <1>1, <1>2, <1>3, <1>4 DEF PublishInv

\* A step of the gate: the job goes to another phase with the same clone.
LEMMA GateStep ==
    ASSUME PublishInv, NEW j, Go(j), UNCHANGED <<github, wiki, edits>>,
           JobOK(j), SameClone
    PROVE  GithubTypeOK' /\ WikiTypeOK' /\ JobTypeOK' /\ Dated(wiki)' /\ CloneInv'
<1>1. JobTypeOK'
  BY DEF PublishInv, JobTypeOK, Go
<1>2. GithubTypeOK' /\ WikiTypeOK' /\ Dated(wiki)'
  BY DEF PublishInv, GithubTypeOK, WikiTypeOK, github
<1>3. CloneInv'
  BY CloneKept DEF PublishInv
<1> QED BY <1>1, <1>2, <1>3

LEMMA JobFields ==
    ASSUME PublishInv
    PROVE  JobOK(job) /\ job \in JobRecord
BY DEF PublishInv, JobTypeOK, JobOK

\* The first time an operator's tag is looked up the job gets its commit; the second time
\* it must be the same.
LEMMA ResolveStep == PublishInv /\ Resolve /\ Remember => PublishInv'
<1> SUFFICES ASSUME PublishInv, Resolve, Remember PROVE PublishInv'
  OBVIOUS
<1> USE DEF Resolve, At, GateKeeps
<1> DEFINE r == Release(job.rel.version, tagAt[job.rel.version])
<1>1. CASE Fail
  BY <1>1, EndStep
<1>2. CASE ~Fail
  <2> DEFINE j == [job EXCEPT !.phase = "runs", !.rel = r]
  <2>1. /\ Go(j) /\ r.sha # None
    BY <1>2
  <2>2. r \in ReleaseName
    BY <2>1, JobFields DEF PublishInv, GithubTypeOK, JobOK, ReleaseName, Release
  <2>3. /\ j.phase = "runs" /\ j.rel = r /\ j.final = job.final /\ j.base = job.base
        /\ j.baseEdits = job.baseEdits /\ j.local = job.local /\ j.force = job.force
        /\ j.event = job.event /\ j \in JobRecord
    BY <2>2, JobFields, ReleaseFacts DEF JobRecord, Phase
  <2> HIDE DEF j, r
  <2>4. JobOK(j)
    BY <2>2, <2>3, JobFields DEF JobOK
  <2>5. SameClone
    BY <2>1, <2>3 DEF SameClone, Go
  <2>6. GithubTypeOK' /\ WikiTypeOK' /\ JobTypeOK' /\ Dated(wiki)' /\ CloneInv'
    BY <2>1, <2>4, <2>5, GateStep
  <2>7. SeenInv'
    BY <2>1, <2>3, SeenKept DEF PublishInv, Go
  <2> QED BY <2>6, <2>7 DEF PublishInv
<1> QED BY <1>1, <1>2

\* Both workflows have succeeded when the gate lets a release pass to the next question.
LEMMA GateRunsStep == PublishInv /\ GateRuns /\ Remember => PublishInv'
<1> SUFFICES ASSUME PublishInv, GateRuns, Remember PROVE PublishInv'
  OBVIOUS
<1> USE DEF GateRuns, At, GateKeeps
<1>1. CASE Finish \/ Fail
  BY <1>1, EndStep
<1>2. CASE Evaluate(job.rel) = "ready" /\ Go([job EXCEPT !.phase = "tag", !.polls = 0])
  <2> DEFINE j == [job EXCEPT !.phase = "tag", !.polls = 0]
  <2>1. /\ j.phase = "tag" /\ j.rel = job.rel /\ j.final = job.final /\ j.base = job.base
        /\ j.baseEdits = job.baseEdits /\ j.local = job.local /\ j.force = job.force
        /\ j.event = job.event /\ j \in JobRecord
    BY JobFields DEF JobRecord, Phase
  <2> HIDE DEF j
  <2>2. JobOK(j)
    BY <2>1, JobFields DEF JobOK, Named
  <2>3. Go(j)
    BY <1>2 DEF j
  <2>4. SameClone
    BY <2>1, <2>3 DEF SameClone, Go
  <2>5. GithubTypeOK' /\ WikiTypeOK' /\ JobTypeOK' /\ Dated(wiki)' /\ CloneInv'
    BY <2>2, <2>3, <2>4, GateStep
  <2>6. Succeeded(job.rel)'
    <3>1. Succeeded(job.rel)
      BY <1>2, ReadyFacts DEF PublishInv, GithubTypeOK
    <3> QED BY <3>1, <2>1, <2>3 DEF Succeeded, github, Go
  <2>7. SeenInv'
    <3>1. "succeeded" \in Facts(job.rel)'
      BY <2>6 DEF Facts
    <3>2. Facts(job.rel)' \subseteq AllFacts
      BY DEF Facts, AllFacts
    <3> QED BY <3>1, <3>2, <2>1, <2>3 DEF PublishInv, SeenInv, Remember, Go
  <2> QED BY <2>5, <2>7 DEF PublishInv
<1>3. CASE Go([job EXCEPT !.polls = @ + 1])
  <2> DEFINE j == [job EXCEPT !.polls = @ + 1]
  <2>1. /\ j.phase = "runs" /\ j.rel = job.rel /\ j.final = job.final /\ j.base = job.base
        /\ j.baseEdits = job.baseEdits /\ j.local = job.local /\ j.force = job.force
        /\ j.event = job.event /\ j \in JobRecord
    BY JobFields DEF JobRecord
  <2> HIDE DEF j
  <2>2. JobOK(j)
    BY <2>1, JobFields DEF JobOK, Named
  <2>3. Go(j)
    BY <1>3 DEF j
  <2>4. SameClone
    BY <2>1, <2>3 DEF SameClone, Go
  <2>5. GithubTypeOK' /\ WikiTypeOK' /\ JobTypeOK' /\ Dated(wiki)' /\ CloneInv'
    BY <2>2, <2>3, <2>4, GateStep
  <2>6. SeenInv'
    BY <2>1, <2>3, SeenKept DEF PublishInv, Go
  <2> QED BY <2>5, <2>6 DEF PublishInv
<1> QED BY <1>1, <1>2, <1>3

LEMMA GateTagStep == PublishInv /\ GateTag /\ Remember => PublishInv'
<1> SUFFICES ASSUME PublishInv, GateTag, Remember PROVE PublishInv'
  OBVIOUS
<1> USE DEF GateTag, At, GateKeeps
<1>1. CASE Fail
  BY <1>1, EndStep
<1>2. CASE ~Fail
  <2> DEFINE j == [job EXCEPT !.phase = "release"]
  <2>1. /\ j.phase = "release" /\ j.rel = job.rel /\ j.final = job.final /\ j.base = job.base
        /\ j.baseEdits = job.baseEdits /\ j.local = job.local /\ j.force = job.force
        /\ j.event = job.event /\ j \in JobRecord
    BY JobFields DEF JobRecord, Phase
  <2>2. Go(j) /\ tagAt[job.rel.version] = job.rel.sha
    BY <1>2
  <2> HIDE DEF j
  <2>3. JobOK(j)
    BY <2>1, JobFields DEF JobOK, Named
  <2>4. SameClone
    BY <2>1, <2>2 DEF SameClone, Go
  <2>5. GithubTypeOK' /\ WikiTypeOK' /\ JobTypeOK' /\ Dated(wiki)' /\ CloneInv'
    BY <2>2, <2>3, <2>4, GateStep
  <2>6. SeenInv'
    <3>1. "tagged" \in Facts(job.rel)'
      BY <2>1, <2>2 DEF Facts, Go, github
    <3>2. Facts(job.rel)' \subseteq AllFacts
      BY DEF Facts, AllFacts
    <3> QED BY <3>1, <3>2, <2>1, <2>2 DEF PublishInv, SeenInv, Remember, Go
  <2> QED BY <2>5, <2>6 DEF PublishInv
<1> QED BY <1>1, <1>2

LEMMA GateReleaseStep == PublishInv /\ GateRelease /\ Remember => PublishInv'
<1> SUFFICES ASSUME PublishInv, GateRelease, Remember PROVE PublishInv'
  OBVIOUS
<1> USE DEF GateRelease, At, GateKeeps
<1>1. CASE Fail
  BY <1>1, EndStep
<1>2. CASE ~Fail
  <2> DEFINE j == [job EXCEPT !.phase = IF job.final THEN "push" ELSE "clone"]
  <2>1. /\ j.phase = IF job.final THEN "push" ELSE "clone"
        /\ j.rel = job.rel /\ j.final = job.final /\ j.base = job.base
        /\ j.baseEdits = job.baseEdits /\ j.local = job.local /\ j.force = job.force
        /\ j.event = job.event /\ j \in JobRecord
    BY JobFields DEF JobRecord, Phase
  <2>2. Go(j) /\ public[job.rel.version] = "public"
    BY <1>2
  <2> HIDE DEF j
  <2>3. JobOK(j)
    BY <2>1, JobFields DEF JobOK, Named
  <2>4. SameClone
    BY <2>1, <2>2 DEF SameClone, Go
  <2>5. GithubTypeOK' /\ WikiTypeOK' /\ JobTypeOK' /\ Dated(wiki)' /\ CloneInv'
    BY <2>2, <2>3, <2>4, GateStep
  <2>6. SeenInv'
    <3>1. "public" \in Facts(job.rel)'
      BY <2>1, <2>2 DEF Facts, Go, github
    <3>2. Facts(job.rel)' \subseteq AllFacts
      BY DEF Facts, AllFacts
    <3> QED BY <3>1, <3>2, <2>1, <2>2 DEF PublishInv, SeenInv, Remember, Go
  <2> QED BY <2>5, <2>6 DEF PublishInv
<1> QED BY <1>1, <1>2

\* From here on the job is a final one: what it has installed it has installed in the wiki
\* as it is now.
LEMMA InstallStep == PublishInv /\ Install /\ Remember => PublishInv'
<1> SUFFICES ASSUME PublishInv, Install, Remember PROVE PublishInv'
  OBVIOUS
<1> USE DEF Install, At, GateKeeps
<1>1. CASE Fail
  BY <1>1, EndStep
<1>2. CASE ~Fail
  <2> DEFINE b == Bundle(job.rel)
  <2> DEFINE l == Installed(b, wiki, job.force)
  <2> DEFINE j == [job EXCEPT !.final = TRUE, !.base = wiki, !.baseEdits = edits, !.local = l,
                              !.phase = FirstPhase(job.event)]
  <2>1. ~Refused(b, job.rel, wiki) /\ ~OtherCommit(b, wiki) /\ Go(j)
    BY <1>2
  <2>2. /\ job.rel \in ReleaseName /\ wiki \in Wiki /\ Dated(wiki) /\ job.force \in BOOLEAN
        /\ edits \in Nat /\ job.event \in Kind /\ job \in JobRecord /\ ~job.final
    BY JobFields DEF PublishInv, JobOK, JobRecord, WikiTypeOK, Named
  <2>3. /\ l \in Wiki /\ Dated(l) /\ Kept(wiki, l) /\ Clean(wiki, l) /\ Cleared(wiki, l)
        /\ Forward(wiki, l, job.force)
    <3> HIDE DEF l, b
    <3> QED BY <2>1, <2>2, InstalledFacts DEF l, b
  <2>4. FirstPhase(job.event) \in {"runs", "ignore", "resolve"}
    BY <2>2 DEF FirstPhase, Kind
  <2> HIDE DEF l, b
  <2>5. /\ j.phase = FirstPhase(job.event) /\ j.rel = job.rel /\ j.final /\ j.base = wiki
        /\ j.baseEdits = edits /\ j.local = l /\ j.force = job.force
        /\ j.event = job.event /\ j \in JobRecord
    BY <2>2, <2>3, <2>4 DEF JobRecord, Phase
  <2> HIDE DEF j
  <2>6. JobOK(j)
    BY <2>2, <2>4, <2>5 DEF JobOK, ReleaseName
  <2>7. GithubTypeOK' /\ WikiTypeOK' /\ JobTypeOK' /\ Dated(wiki)'
    BY <2>1, <2>6 DEF PublishInv, GithubTypeOK, WikiTypeOK, JobTypeOK, Go, github
  <2>8. CloneInv'
    BY <2>1, <2>2, <2>3, <2>5 DEF CloneInv, Go
  <2>9. SeenInv'
    BY <2>1, <2>4, <2>5, SeenKept DEF PublishInv, Go
  <2> QED BY <2>7, <2>8, <2>9 DEF PublishInv
<1> QED BY <1>1, <1>2
\* The clone of a job that may push.
LEMMA PushingFacts ==
    ASSUME PublishInv, job.phase \in {"push", "rebase", "repush"}
    PROVE  /\ job.final /\ job.base \in Wiki /\ job.local \in Wiki
           /\ Dated(job.local) /\ job.rel \in ReleaseName /\ job.event \in Kind
           /\ Kept(job.base, job.local) /\ Forward(job.base, job.local, job.force)
           /\ Clean(job.base, job.local)
           /\ job.phase # "repush" => Cleared(job.base, job.local)
           /\ edits = job.baseEdits => wiki = job.base
           /\ seen = AllFacts
<1>1. job.final /\ job.rel \in ReleaseName /\ job.event \in Kind
  BY DEF PublishInv, JobTypeOK, JobOK, Named
<1>2. seen = AllFacts
  BY <1>1 DEF PublishInv, SeenInv, AllFacts
<1> QED BY <1>1, <1>2 DEF PublishInv, CloneInv

\* A push that is accepted puts what was installed in the place of what it was installed in.
LEMMA PushStep == PublishInv /\ Push /\ Remember => PublishInv'
<1> SUFFICES ASSUME PublishInv, Push, Remember PROVE PublishInv'
  OBVIOUS
<1> USE DEF Push, At
<1>1. CASE UNCHANGED wiki /\ (Finish \/ Fail)
  BY <1>1, EndStep
<1>2. CASE wiki' = job.local /\ Finish
  <2>1. WikiTypeOK' /\ Dated(wiki)'
    BY <1>2, PushingFacts DEF PublishInv, WikiTypeOK
  <2>2. JobTypeOK' /\ ~job'.final
    BY <1>2, NextJobFacts DEF PublishInv, Finish
  <2>3. GithubTypeOK' /\ CloneInv'
    BY <2>2 DEF PublishInv, GithubTypeOK, github, CloneInv
  <2>4. SeenInv'
    BY <2>2, SeenKept DEF PublishInv
  <2> QED BY <2>1, <2>2, <2>3, <2>4 DEF PublishInv
<1>3. CASE UNCHANGED wiki /\ At("push") /\ Go([job EXCEPT !.phase = "rebase"])
  <2> DEFINE j == [job EXCEPT !.phase = "rebase"]
  <2>1. /\ j.phase = "rebase" /\ j.rel = job.rel /\ j.final = job.final /\ j.base = job.base
        /\ j.baseEdits = job.baseEdits /\ j.local = job.local /\ j.force = job.force
        /\ j.event = job.event /\ j \in JobRecord
    BY JobFields DEF JobRecord, Phase
  <2> HIDE DEF j
  <2>2. Go(j) /\ job.phase = "push" /\ UNCHANGED <<github, wiki, edits>>
    BY <1>3 DEF j
  <2>3. JobOK(j)
    BY <2>1, <2>2, PushingFacts DEF JobOK
  <2>4. SameClone
    BY <2>1, <2>2 DEF SameClone, Go
  <2>5. GithubTypeOK' /\ WikiTypeOK' /\ JobTypeOK' /\ Dated(wiki)' /\ CloneInv'
    BY <2>2, <2>3, <2>4, GateStep
  <2>6. SeenInv'
    BY <2>1, <2>2, PushingFacts, SeenKept DEF PublishInv, Go
  <2> QED BY <2>5, <2>6 DEF PublishInv
<1> QED BY <1>1, <1>2, <1>3

\* A push that reports an error may have reached the wiki, which the job then finds when it
\* rebases.
LEMMA PushBreaksStep == PublishInv /\ PushBreaks /\ Remember => PublishInv'
<1> SUFFICES ASSUME PublishInv, PushBreaks, Remember PROVE PublishInv'
  OBVIOUS
<1> USE DEF PushBreaks, At
<1>1. CASE UNCHANGED wiki /\ Go([job EXCEPT !.phase = "rebase"])
  <2> DEFINE j == [job EXCEPT !.phase = "rebase"]
  <2>1. /\ j.phase = "rebase" /\ j.rel = job.rel /\ j.final = job.final /\ j.base = job.base
        /\ j.baseEdits = job.baseEdits /\ j.local = job.local /\ j.force = job.force
        /\ j.event = job.event /\ j \in JobRecord
    BY JobFields DEF JobRecord, Phase
  <2> HIDE DEF j
  <2>2. Go(j) /\ job.phase = "push" /\ UNCHANGED <<github, wiki, edits>>
    BY <1>1 DEF j
  <2>3. JobOK(j)
    BY <2>1, <2>2, PushingFacts DEF JobOK
  <2>4. SameClone
    BY <2>1, <2>2 DEF SameClone, Go
  <2>5. GithubTypeOK' /\ WikiTypeOK' /\ JobTypeOK' /\ Dated(wiki)' /\ CloneInv'
    BY <2>2, <2>3, <2>4, GateStep
  <2>6. SeenInv'
    BY <2>1, <2>2, PushingFacts, SeenKept DEF PublishInv, Go
  <2> QED BY <2>5, <2>6 DEF PublishInv
<1>2. CASE wiki' = job.local /\ Go([job EXCEPT !.phase = "rebase", !.base = job.local])
  <2> DEFINE j == [job EXCEPT !.phase = "rebase", !.base = job.local]
  <2>1. job.local \in Wiki /\ Dated(job.local) /\ job.final /\ job.phase = "push"
    BY PushingFacts
  <2>2. /\ j.phase = "rebase" /\ j.rel = job.rel /\ j.final /\ j.base = job.local
        /\ j.baseEdits = job.baseEdits /\ j.local = job.local /\ j.force = job.force
        /\ j.event = job.event /\ j \in JobRecord
    BY <2>1, JobFields DEF JobRecord, Phase
  <2> HIDE DEF j
  <2>3. Go(j) /\ wiki' = job.local /\ UNCHANGED <<github, edits>>
    BY <1>2 DEF j
  <2>4. JobOK(j)
    BY <2>1, <2>2, PushingFacts DEF JobOK
  <2>5. GithubTypeOK' /\ WikiTypeOK' /\ JobTypeOK' /\ Dated(wiki)'
    BY <2>1, <2>3, <2>4 DEF PublishInv, GithubTypeOK, WikiTypeOK, JobTypeOK, Go, github
  <2>6. CloneInv'
    <3>1. job.baseEdits <= edits
      BY <2>1 DEF PublishInv, CloneInv
    <3> QED BY <2>1, <2>2, <2>3, <3>1
            DEF Go, CloneInv, Kept, TextKept, Forward, Clean, Cleared
  <2>7. SeenInv'
    BY <2>1, <2>2, <2>3, SeenKept DEF PublishInv, Go
  <2> QED BY <2>5, <2>6, <2>7 DEF PublishInv
<1> QED BY <1>1, <1>2

\* The merge of what the job installed with what people did meanwhile, page by page: the
\* wiki, rather than the clone, is now what text must be kept of.
Merged == [pages |-> [p \in Page |-> MergedPage(p)],
           manifest |-> IF job.local.manifest = job.base.manifest
                        THEN wiki.manifest ELSE job.local.manifest]

LEMMA MergeFacts ==
    ASSUME PublishInv, job.phase = "rebase",
           \A p \in Page : Conflict(p) =>
              Mergeable(job.base.pages[p], job.local.pages[p], wiki.pages[p]),
           job.local.manifest = job.base.manifest \/ wiki.manifest = job.base.manifest
    PROVE  /\ Merged \in Wiki /\ Dated(Merged)
           /\ Kept(wiki, Merged) /\ Forward(wiki, Merged, job.force) /\ Clean(wiki, Merged)
<1>1. /\ job.base \in Wiki /\ job.local \in Wiki /\ wiki \in Wiki
      /\ Dated(job.local) /\ Dated(wiki)
      /\ Kept(job.base, job.local) /\ Forward(job.base, job.local, job.force)
      /\ Clean(job.base, job.local) /\ Cleared(job.base, job.local)
  BY PushingFacts DEF PublishInv, WikiTypeOK
<1>2. /\ Merged.pages = [p \in Page |-> MergedPage(p)]
      /\ Merged.manifest = IF job.local.manifest = job.base.manifest
                           THEN wiki.manifest ELSE job.local.manifest
      /\ Merged = [pages |-> Merged.pages, manifest |-> Merged.manifest]
  BY DEF Merged
<1> HIDE DEF Merged
<1>3. \A p \in Page : /\ wiki.pages[p] \in PageState /\ job.local.pages[p] \in PageState
                      /\ job.base.pages[p] \in PageState
  BY <1>1 DEF Wiki
<1>4. ASSUME NEW p \in Page
      PROVE  MergedPage(p) \in PageState
  <2>1. \A q \in PageState : q.rel \in Rel
    BY ReleaseFacts DEF PageState, Absent, Bootstrap, Hand
  <2>2. \A r \in Rel : Mixed(r) \in PageState
    BY DEF Mixed, PageState
  <2> QED BY <1>3, <2>1, <2>2 DEF MergedPage
<1>5. Merged \in Wiki
  BY <1>1, <1>2, <1>4 DEF Wiki
<1>6. CASE job.local.manifest = job.base.manifest
  <2>1. job.local = job.base
    BY <1>1, <1>6 DEF Clean
  <2>2. \A p \in Page : Merged.pages[p] = wiki.pages[p]
    BY <1>2, <2>1 DEF MergedPage
  <2>3. Merged.pages = wiki.pages /\ Merged.manifest = wiki.manifest
    BY <1>1, <1>2, <1>5, <1>6, <2>2 DEF Wiki
  <2>4. Merged = wiki
    BY <1>1, <1>5, <2>3 DEF Wiki
  <2> QED BY <1>1, <2>4 DEF Kept, TextKept, Forward, Clean
<1>7. CASE job.local.manifest # job.base.manifest
  <2>1. Merged.manifest = job.local.manifest /\ wiki.manifest = job.base.manifest
    BY <1>2, <1>7
  <2>2. Forward(wiki, Merged, job.force) /\ Clean(wiki, Merged)
    BY <1>1, <1>7, <2>1 DEF Forward, Clean
  <2>3. Owned(Merged) = Owned(job.local) /\ Owned(wiki) = Owned(job.base)
    BY <2>1 DEF Owned
  <2>4. Orphans(Merged) \subseteq Orphans(wiki)
    <3> SUFFICES ASSUME NEW p \in Page, MergedPage(p).by \in {"generator", "both"},
                        p \notin Owned(job.local)
                 PROVE  wiki.pages[p].by \in {"generator", "both"} /\ p \notin Owned(job.base)
      BY <1>2, <2>3 DEF Orphans
    <3>1. ASSUME job.local.pages[p].by \in {"generator", "both"}
          PROVE  job.base.pages[p].by \in {"generator", "both"} /\ p \notin Owned(job.base)
      BY <1>1, <3>1 DEF Kept, Orphans
    <3>2. CASE job.local.pages[p] = job.base.pages[p]
      <4>1. p \notin Owned(job.base)
        BY <1>1, <3>2 DEF Cleared
      <4> QED BY <3>2, <4>1 DEF MergedPage
    <3>3. CASE job.local.pages[p] # job.base.pages[p] /\ Conflict(p)
      BY <3>1, <3>3 DEF Mergeable
    <3>4. CASE job.local.pages[p] # job.base.pages[p] /\ ~Conflict(p)
      BY <3>1, <3>4 DEF MergedPage, Conflict
    <3> QED BY <3>2, <3>3, <3>4
  <2>5. Dated(Merged)
    BY <1>1, <2>1 DEF Dated
  <2>6. TextKept(wiki, Merged)
    <3> SUFFICES ASSUME NEW p \in Page, wiki.pages[p].by \in {"hand", "both"}
                 PROVE  \/ MergedPage(p).by = wiki.pages[p].by
                        \/ wiki.pages[p].by = "both" /\ Entered(wiki, p)
      BY <1>2 DEF TextKept
    <3>1. CASE job.local.pages[p] = job.base.pages[p]
      BY <3>1 DEF MergedPage
    <3>2. CASE job.local.pages[p] # job.base.pages[p] /\ Conflict(p)
      BY <3>2 DEF MergedPage, Mergeable, Mixed
    <3>3. CASE job.local.pages[p] # job.base.pages[p] /\ wiki.pages[p] = job.local.pages[p]
      BY <3>3 DEF MergedPage, Conflict
    <3>4. CASE job.local.pages[p] # job.base.pages[p] /\ wiki.pages[p] = job.base.pages[p]
      <4>1. MergedPage(p) = job.local.pages[p]
        BY <3>4 DEF MergedPage, Conflict
      <4>2. Entered(job.base, p) => Entered(wiki, p)
        BY <2>1, <3>4 DEF Entered, Owned
      <4>3. \/ job.local.pages[p].by = job.base.pages[p].by
            \/ job.base.pages[p].by = "both" /\ Entered(job.base, p)
        BY <1>1, <3>4 DEF Kept, TextKept
      <4> QED BY <4>1, <4>2, <4>3, <3>4
    <3> QED BY <3>1, <3>2, <3>3, <3>4 DEF Conflict
  <2> QED BY <1>5, <2>2, <2>4, <2>5, <2>6 DEF Kept
<1> QED BY <1>6, <1>7

LEMMA RebaseStep == PublishInv /\ Rebase /\ Remember => PublishInv'
<1> SUFFICES ASSUME PublishInv, Rebase, Remember PROVE PublishInv'
  OBVIOUS
<1>1. UNCHANGED <<github, wiki, edits>> /\ job.phase = "rebase"
  BY DEF Rebase, GateKeeps, At
<1>2. CASE Fail
  BY <1>1, <1>2, EndStep
<1>3. CASE ~Fail
  <2> DEFINE j == [job EXCEPT !.phase = "repush", !.base = wiki, !.baseEdits = edits,
                              !.local = Merged]
  <2>1. /\ Go(j)
        /\ \A p \in Page : Conflict(p) =>
              Mergeable(job.base.pages[p], job.local.pages[p], wiki.pages[p])
        /\ job.local.manifest = job.base.manifest \/ wiki.manifest = job.base.manifest
    BY <1>3 DEF Rebase, Merged
  <2>2. /\ Merged \in Wiki /\ Dated(Merged)
        /\ Kept(wiki, Merged) /\ Forward(wiki, Merged, job.force) /\ Clean(wiki, Merged)
    BY <1>1, <2>1, MergeFacts
  <2>3. /\ wiki \in Wiki /\ edits \in Nat /\ job \in JobRecord /\ job.final
        /\ job.rel \in ReleaseName /\ job.event \in Kind
    BY <1>1, JobFields, PushingFacts DEF PublishInv, WikiTypeOK
  <2>4. /\ j.phase = "repush" /\ j.rel = job.rel /\ j.final /\ j.base = wiki
        /\ j.baseEdits = edits /\ j.local = Merged /\ j.force = job.force
        /\ j.event = job.event /\ j \in JobRecord
    BY <2>2, <2>3 DEF JobRecord, Phase
  <2> HIDE DEF j
  <2>5. JobOK(j)
    BY <2>3, <2>4 DEF JobOK
  <2>6. GithubTypeOK' /\ WikiTypeOK' /\ JobTypeOK' /\ Dated(wiki)'
    BY <1>1, <2>1, <2>5 DEF PublishInv, GithubTypeOK, WikiTypeOK, JobTypeOK, Go, github
  <2>7. CloneInv'
    BY <1>1, <2>1, <2>2, <2>3, <2>4 DEF CloneInv, Go
  <2>8. SeenInv'
    BY <1>1, <2>1, <2>3, <2>4, SeenKept DEF PublishInv, Go
  <2> QED BY <2>6, <2>7, <2>8 DEF PublishInv
<1> QED BY <1>2, <1>3

LEMMA StutterPublish == PublishInv /\ UNCHANGED vars => PublishInv'
BY DEF PublishInv, vars, GithubTypeOK, WikiTypeOK, JobTypeOK, CloneInv, SeenInv

LEMMA InitPublish == Init => PublishInv
<1> SUFFICES ASSUME Init PROVE PublishInv
  OBVIOUS
<1> USE DEF Init
<1>1. GithubTypeOK
  BY FS_EmptySet DEF GithubTypeOK
<1>2. NoManifest \in [rel : Rel, files : PageFiles]
  <2>1. << >> \in [{} -> PageState]
    OBVIOUS
  <2>2. << >> \in PageFiles
    BY <2>1 DEF PageFiles
  <2> QED BY <2>2, ReleaseFacts DEF NoManifest, Manifest
<1>3. Bootstrap \in PageState /\ Absent \in PageState
  BY DEF PageState
<1>4. WikiTypeOK
  BY <1>2, <1>3 DEF WikiTypeOK, Wiki
<1>5. JobTypeOK /\ CloneInv
  BY IdleFacts DEF JobTypeOK, CloneInv
<1>6. Dated(wiki)
  BY DEF Dated
<1>7. SeenInv
  BY IdleFacts DEF SeenInv
<1> QED BY <1>1, <1>4, <1>5, <1>6, <1>7 DEF PublishInv

-----------------------------------------------------------------------------
\* The invariant.
THEOREM PublishInvariant == Spec => []PublishInv
<1>1. PublishInv /\ [Next]_vars => PublishInv'
  <2> SUFFICES ASSUME PublishInv, [Next]_vars PROVE PublishInv'
    OBVIOUS
  <2>1. CASE Ignore /\ Remember
    BY <2>1, EndStep DEF Ignore, GateKeeps
  <2>2. CASE Resolve /\ Remember
    BY <2>2, ResolveStep
  <2>3. CASE GateRuns /\ Remember
    BY <2>3, GateRunsStep
  <2>4. CASE GateTag /\ Remember
    BY <2>4, GateTagStep
  <2>5. CASE GateRelease /\ Remember
    BY <2>5, GateReleaseStep
  <2>6. CASE Install /\ Remember
    BY <2>6, InstallStep
  <2>7. CASE Push /\ Remember
    BY <2>7, PushStep
  <2>8. CASE Rebase /\ Remember
    BY <2>8, RebaseStep
  <2>9. CASE RunEnds /\ Remember
    BY <2>9, CompleteStep DEF RunEnds
  <2>10. CASE People /\ Remember
    BY <2>10, EditPageStep, EditManifestStep DEF People
  <2>11. ASSUME NEW v \in Version, NEW s \in Sha, PushTag(v, s), Remember
         PROVE  PublishInv'
    BY <2>11, PushTagStep
  <2>12. ASSUME NEW r \in runs, Rerun(r), Remember
         PROVE  PublishInv'
    BY <2>12, RerunStep
  <2>13. CASE BranchRun /\ Remember
    BY <2>13, BranchRunStep
  <2>14. ASSUME NEW v \in Version, NEW force \in BOOLEAN, Dispatch(v, force), Remember
         PROVE  PublishInv'
    BY <2>14, DispatchStep
  <2>15. ASSUME NEW v \in Version, Withdraw(v), Remember
         PROVE  PublishInv'
    BY <2>15, WithdrawStep
  <2>16. CASE PushBreaks /\ Remember
    BY <2>16, PushBreaksStep
  <2>17. CASE JobDies /\ Remember
    BY <2>17, EndStep DEF JobDies
  <2>18. CASE UNCHANGED vars
    BY <2>18, StutterPublish
  <2> QED BY <2>1, <2>2, <2>3, <2>4, <2>5, <2>6, <2>7, <2>8, <2>9, <2>10, <2>11, <2>12, <2>13,
             <2>14, <2>15, <2>16, <2>17, <2>18 DEF Next, Step, JobStep
<1> QED BY <1>1, InitPublish, PTL DEF Spec

\* The only steps that change the wiki without a person are the job's pushes, of what it has
\* installed in the wiki as it is.
LEMMA PushedFacts ==
    ASSUME PublishInv, [Next]_vars, wiki' # wiki, edits' = edits
    PROVE  /\ wiki' = job.local /\ wiki = job.base
           /\ Kept(wiki, job.local) /\ Forward(wiki, job.local, job.force)
           /\ seen = AllFacts
<1>1. CASE Push
  BY <1>1, PushingFacts DEF Push, At
<1>2. CASE PushBreaks
  BY <1>2, PushingFacts DEF PushBreaks, At
<1>3. CASE ~Push /\ ~PushBreaks
  <2>1. edits \in Nat
    BY DEF PublishInv, WikiTypeOK
  <2>2. ~People
    <3>1. edits + 1 # edits
      BY <2>1
    <3>2. (\A m : ~EditManifest(m)) /\ \A p, c, entered : ~EditPage(p, c, entered)
      BY <3>1 DEF EditPage, EditManifest
    <3> QED BY <3>2 DEF People
  <2>3. ~JobStep
    BY <1>3 DEF JobStep, Ignore, Resolve, GateRuns, GateTag, GateRelease, Install, Rebase, GateKeeps
  <2>4. ~RunEnds /\ ~BranchRun /\ ~JobDies
    BY DEF RunEnds, Complete, BranchRun, JobDies
  <2>5. /\ \A v \in Version : ~Withdraw(v) /\ \A s \in Sha : ~PushTag(v, s)
        /\ \A v \in Version, force \in BOOLEAN : ~Dispatch(v, force)
        /\ \A r \in runs : ~Rerun(r)
    BY DEF Withdraw, PushTag, Dispatch, Rerun
  <2> QED BY <1>3, <2>2, <2>3, <2>4, <2>5 DEF Next, Step, vars
<1> QED BY <1>1, <1>2, <1>3

\* No push leaves a generated page that a later installation would take for somebody's own
\* (publish_bundle.py).
THEOREM WikiNoOrphans == Spec => NoOrphans
<1>1. PublishInv /\ [Next]_vars =>
        [edits' = edits => Orphans(wiki') \subseteq Orphans(wiki)]_vars
  <2> SUFFICES ASSUME PublishInv, [Next]_vars, edits' = edits
               PROVE  Orphans(wiki') \subseteq Orphans(wiki)
    OBVIOUS
  <2>1. CASE wiki' = wiki
    BY <2>1
  <2>2. CASE wiki' # wiki
    <3>1. wiki' = job.local /\ Kept(wiki, job.local)
      BY <2>2, PushedFacts
    <3> QED BY <3>1 DEF Kept
  <2> QED BY <2>1, <2>2
<1> QED BY <1>1, PublishInvariant, PTL DEF Spec, NoOrphans

\* The wiki goes from one release to a newer one, or to an older one that an operator has
\* forced (publish_bundle.py).
THEOREM WikiNeverDowngraded == Spec => NeverDowngraded
<1>1. PublishInv /\ [Next]_vars =>
        [edits' = edits /\ wiki'.manifest.rel # wiki.manifest.rel =>
          \/ wiki'.manifest.rel.version > wiki.manifest.rel.version
          \/ /\ job.force
             /\ wiki'.manifest.rel.version # wiki.manifest.rel.version]_vars
  BY PushedFacts DEF Forward
<1> QED BY <1>1, PublishInvariant, PTL DEF Spec, NeverDowngraded

\* A release is on the wiki only if, since the clone, the gate has seen its workflows
\* succeed, its tag in place and its GitHub Release public (release_gate.py).
THEOREM WikiPublishedWasGated == Spec => PublishedWasGated
<1>1. PublishInv /\ [Next]_vars =>
        [edits' = edits /\ wiki'.manifest.rel # wiki.manifest.rel => seen = AllFacts]_vars
  BY PushedFacts
<1> QED BY <1>1, PublishInvariant, PTL DEF Spec, PublishedWasGated

\* No push of the job removes or overwrites what a person has written, unless somebody has
\* entered the digest of the generated page they wrote it into.
THEOREM WikiTextKept == Spec => PeoplesTextKept
<1>1. PublishInv /\ [Next]_vars =>
        [edits' = edits =>
          \A p \in Page : wiki.pages[p].by \in {"hand", "both"} =>
              \/ wiki'.pages[p].by = wiki.pages[p].by
              \/ wiki.pages[p].by = "both" /\ Entered(wiki, p)]_vars
  BY PushedFacts DEF Kept, TextKept
<1> QED BY <1>1, PublishInvariant, PTL DEF Spec, PeoplesTextKept

-----------------------------------------------------------------------------
(* The shapes (generate.py 236-338).                                         *)

\* A type of the header is a base and a number of stars.
ACType(t) == t = C(t.base, t.depth) /\ t.depth \in Nat

\* The types of the tables, and those of a header, are.
LEMMA CTypeFacts ==
    /\ \A t \in CType : ACType(t)
    /\ \A t \in CTypes : ACType(t)
<1>1. \A b, d : C(b, d).base = b /\ C(b, d).depth = d
  BY DEF C
<1>2. \A t \in CTypes : ACType(t)
  BY <1>1 DEF CTypes, ACType
<1>3. \A t \in CType : ACType(t)
  BY DEF CType, ACType, C
<1> QED BY <1>2, <1>3

\* What a shape of the header says of the type it stands for.
FromHeader(t, pos, shape) ==
    \/ t.depth = 0 /\ t.base \in DOMAIN ScalarShape /\ shape = ScalarShape[t.base]
    \/ t.depth = 1 /\ t.base \in DOMAIN PointerShape /\ shape = PointerShape[t.base]
    \/ t.depth = 1 /\ t.base \in Struct /\ shape = t.base
    \/ t.depth = 1 /\ t.base \in {"char", "uint8_t"} /\ shape = "char_ptr"
    \/ t = C("char", 2) /\ shape = "char_ptr_ptr"
    \/ t = C("char", 1) /\ pos = "result" /\ shape = "cstring_ret"
    \/ t.depth >= 1 /\ shape = "void_ptr"
    \/ t.depth = 2 /\ shape = "void_ptr_ptr"

\* The generator gives a type no other shape.
LEMMA HeaderShapes ==
    ASSUME NEW t, ACType(t), NEW pos, HeaderToPython(t, pos) # Unsupported
    PROVE  FromHeader(t, pos, HeaderToPython(t, pos))
<1>1. t.depth \in Nat /\ t = C(t.base, t.depth)
  BY DEF ACType
<1> DEFINE shape == HeaderToPython(t, pos)
<1> HIDE DEF shape
<1>2. CASE t.depth = 0
  BY <1>2 DEF shape, HeaderToPython, FromHeader
<1>3. CASE t.depth # 0 /\ pos = "result" /\ t = C("char", 1)
  BY <1>3 DEF shape, HeaderToPython, FromHeader
<1>4. CASE t.depth # 0 /\ ~(pos = "result" /\ t = C("char", 1))
  <2>1. t.depth >= 1
    BY <1>1, <1>4
  <2>2. CASE pos = "free" \/ (pos = "fingerprint" /\ t = C("uint8_t", 1))
    <3>1. shape = "void_ptr"
      BY <1>4, <2>2 DEF shape, HeaderToPython
    <3> QED BY <2>1, <3>1 DEF shape, FromHeader
  <2>3. CASE ~(pos = "free" \/ (pos = "fingerprint" /\ t = C("uint8_t", 1)))
    <3>1. shape = IF t.base = "char"    THEN Stars("char_ptr", "char_ptr_ptr", t.depth)
                  ELSE IF t.base = "uint8_t" THEN Stars("char_ptr", "void_ptr_ptr", t.depth)
                  ELSE IF t.depth = 1 /\ t.base \in Struct THEN t.base
                  ELSE IF t.base \in Opaque  THEN Stars("void_ptr", "void_ptr_ptr", t.depth)
                  ELSE IF t.depth = 1 /\ t.base \in DOMAIN PointerShape
                       THEN PointerShape[t.base] ELSE Unsupported
      BY <1>4, <2>3 DEF shape, HeaderToPython
    <3>2. \A one, two : Stars(one, two, t.depth) = IF t.depth = 1 THEN one
                        ELSE IF t.depth = 2 THEN two ELSE Unsupported
      BY DEF Stars
    <3>3. shape # Unsupported
      BY DEF shape
    <3>4. CASE t.base = "char"
      <4>1. (t.depth = 1 /\ shape = "char_ptr") \/ (t.depth = 2 /\ shape = "char_ptr_ptr")
        BY <3>1, <3>2, <3>3, <3>4
      <4> QED BY <4>1, <3>4, <1>1 DEF FromHeader, shape
    <3>5. CASE t.base = "uint8_t"
      <4>1. (t.depth = 1 /\ shape = "char_ptr") \/ (t.depth = 2 /\ shape = "void_ptr_ptr")
        BY <3>1, <3>2, <3>3, <3>5
      <4> QED BY <4>1, <3>5 DEF FromHeader, shape
    <3>6. CASE t.base \notin {"char", "uint8_t"} /\ t.depth = 1 /\ t.base \in Struct
      <4>1. shape = t.base
        BY <3>1, <3>6
      <4> QED BY <4>1, <3>6 DEF FromHeader, shape
    <3>7. CASE t.base \notin {"char", "uint8_t"} /\ ~(t.depth = 1 /\ t.base \in Struct)
      <4>1. \/ t.depth = 1 /\ shape = "void_ptr"
            \/ t.depth = 2 /\ shape = "void_ptr_ptr"
            \/ t.depth = 1 /\ t.base \in DOMAIN PointerShape /\ shape = PointerShape[t.base]
        BY <3>1, <3>2, <3>3, <3>7
      <4> QED BY <4>1, <2>1 DEF FromHeader, shape
    <3> QED BY <3>4, <3>5, <3>6, <3>7
  <2> QED BY <2>2, <2>3
<1> QED BY <1>2, <1>3, <1>4

\* What a shape of the Python binding says of the meaning of its name.
FromPython(u, name, pos, shape) ==
    \/ u.depth = 0 /\ u.base \in DOMAIN ScalarShape /\ shape = ScalarShape[u.base]
    \/ u.depth = 1 /\ u.base \in DOMAIN PointerShape /\ shape = PointerShape[u.base]
    \/ u = C(shape, 1) /\ shape \in Struct
    \/ u = C("char", 1) /\ shape = IF pos = "result" THEN "cstring_ret" ELSE "char_ptr"
    \/ u = C("char", 2) /\ shape = "char_ptr_ptr"
    \/ u = C("void", 1) /\ shape = "void_ptr"
    \/ u = C("void", 2) /\ shape = "void_ptr_ptr"

\* The binding gives a name no other shape.
LEMMA PythonShapes ==
    ASSUME NEW pos, NEW name \in DOMAIN CtypesShape
    PROVE  FromPython(CtypesMeaning[name], name, pos, PythonShape(name, pos))
<1> DEFINE u == CtypesMeaning[name]
<1>1. PythonShape(name, pos) =
        IF pos = "result" /\ name = "CHARP" THEN "cstring_ret" ELSE CtypesShape[name]
  BY DEF PythonShape
<1>2. name \in {"None", "INT", "U32", "I64", "LL", "U64", "FLT", "DBL", "LONG", "SZ"}
        \cup {"PSZ", "PU64", "PLONG", "PINT", "PLL", "PDBL"} \cup {"ZfColInfo", "ZfHeaderEntryV1"}
        \cup {"CHARP", "PCHARP", "VOID", "PVOID"}
  BY DEF CtypesShape
<1>3. CASE name \in {"None", "INT", "U32", "I64", "LL", "U64", "FLT", "DBL", "LONG", "SZ"}
  <2>1. u.depth = 0 /\ u.base \in DOMAIN ScalarShape /\ CtypesShape[name] = ScalarShape[u.base]
    BY <1>3 DEF CtypesMeaning, CtypesShape, ScalarShape, C
  <2> QED BY <1>1, <1>3, <2>1 DEF FromPython
<1>4. CASE name \in {"PSZ", "PU64", "PLONG", "PINT", "PLL", "PDBL"}
  <2>1. u.depth = 1 /\ u.base \in DOMAIN PointerShape /\ CtypesShape[name] = PointerShape[u.base]
    BY <1>4 DEF CtypesMeaning, CtypesShape, PointerShape, C
  <2> QED BY <1>1, <1>4, <2>1 DEF FromPython
<1>5. CASE name \in {"ZfColInfo", "ZfHeaderEntryV1"}
  <2>1. u = C(name, 1) /\ CtypesShape[name] = name /\ name \in Struct
    BY <1>5 DEF CtypesMeaning, CtypesShape, Struct
  <2> QED BY <1>1, <1>5, <2>1 DEF FromPython
<1>6. CASE name = "CHARP"
  <2>1. u = C("char", 1) /\ CtypesShape[name] = "char_ptr"
    BY <1>6 DEF CtypesMeaning, CtypesShape
  <2> QED BY <1>1, <1>6, <2>1 DEF FromPython
<1>7. CASE name = "PCHARP"
  <2>1. u = C("char", 2) /\ CtypesShape[name] = "char_ptr_ptr"
    BY <1>7 DEF CtypesMeaning, CtypesShape
  <2> QED BY <1>1, <1>7, <2>1 DEF FromPython
<1>8. CASE name = "VOID"
  <2>1. u = C("void", 1) /\ CtypesShape[name] = "void_ptr"
    BY <1>8 DEF CtypesMeaning, CtypesShape
  <2> QED BY <1>1, <1>8, <2>1 DEF FromPython
<1>9. CASE name = "PVOID"
  <2>1. u = C("void", 2) /\ CtypesShape[name] = "void_ptr_ptr"
    BY <1>9 DEF CtypesMeaning, CtypesShape
  <2> QED BY <1>1, <1>9, <2>1 DEF FromPython
<1> QED BY <1>2, <1>3, <1>4, <1>5, <1>6, <1>7, <1>8, <1>9

\* Scalars, or pointers, of one shape are the same to the machine.
LEMMA ScalarSame ==
    ASSUME NEW b \in DOMAIN ScalarShape, NEW c \in DOMAIN ScalarShape,
           ScalarShape[b] = ScalarShape[c]
    PROVE  Same(b, c)
BY DEF ScalarShape, Same, Width

\* And so for pointers.
LEMMA PointerSame ==
    ASSUME NEW b \in DOMAIN PointerShape, NEW c \in DOMAIN PointerShape,
           PointerShape[b] = PointerShape[c]
    PROVE  Same(b, c)
BY DEF PointerShape, Same, Width

\* The kinds of shapes have nothing in common.
ByScalar == {"void", "int", "u32", "i64", "u64", "f32", "f64", "long", "usize"}
ByPointer == {"size_ptr", "u64_ptr", "long_ptr", "i64_ptr", "int_ptr", "f64_ptr", "f32_ptr"}

\* A scalar shape is no pointer shape, and a pointer shape no other.
LEMMA KindsOfShape ==
    /\ \A b \in DOMAIN ScalarShape : ScalarShape[b] \in ByScalar
    /\ \A b \in DOMAIN PointerShape : PointerShape[b] \in ByPointer
<1>1. \A b \in DOMAIN ScalarShape : ScalarShape[b] \in ByScalar
  BY DEF ScalarShape, ByScalar
<1>2. \A b \in DOMAIN PointerShape : PointerShape[b] \in ByPointer
  BY DEF PointerShape, ByPointer
<1> QED BY <1>1, <1>2

\* A shape that both sides give stands for types a call does not tell apart.
LEMMA PythonSpeaks ==
    ASSUME NEW t, ACType(t), NEW pos, NEW name \in DOMAIN CtypesShape,
           HeaderToPython(t, pos) = PythonShape(name, pos),
           HeaderToPython(t, pos) # Unsupported
    PROVE  Compatible(t, CtypesMeaning[name])
<1> DEFINE u == CtypesMeaning[name] shape == PythonShape(name, pos)
<1>1. FromHeader(t, pos, shape) /\ FromPython(u, name, pos, shape)
  BY HeaderShapes, PythonShapes
<1> HIDE DEF u, shape
<1>2. t.depth \in Nat /\ t = C(t.base, t.depth)
  BY DEF ACType
<1>3. /\ \A b, d : C(b, d).base = b /\ C(b, d).depth = d
      /\ \A v : v.depth = t.depth /\ Same(t.base, v.base) => Compatible(t, v)
      /\ \A b : Same(b, b)
  BY DEF C, Compatible, Same
<1>4. CASE u.depth = 0 /\ u.base \in DOMAIN ScalarShape /\ shape = ScalarShape[u.base]
  <2>1. shape \in ByScalar
    BY <1>4, KindsOfShape
  <2>2. t.depth = 0 /\ t.base \in DOMAIN ScalarShape /\ shape = ScalarShape[t.base]
    BY <2>1, <1>1, KindsOfShape DEF FromHeader, ByScalar, ByPointer, Struct
  <2>3. Same(t.base, u.base)
    BY <2>2, <1>4, ScalarSame
  <2> QED BY <2>2, <2>3, <1>3, <1>4 DEF u
<1>5. CASE u.depth = 1 /\ u.base \in DOMAIN PointerShape /\ shape = PointerShape[u.base]
  <2>1. shape \in ByPointer
    BY <1>5, KindsOfShape
  <2>2. t.depth = 1 /\ t.base \in DOMAIN PointerShape /\ shape = PointerShape[t.base]
    BY <2>1, <1>1, KindsOfShape DEF FromHeader, ByScalar, ByPointer, Struct
  <2>3. Same(t.base, u.base)
    BY <2>2, <1>5, PointerSame
  <2> QED BY <2>2, <2>3, <1>3, <1>5 DEF u
<1>6. CASE u = C(shape, 1) /\ shape \in Struct
  <2>1. t.depth = 1 /\ t.base = shape
    BY <1>1, <1>6, KindsOfShape DEF FromHeader, ByScalar, ByPointer, Struct
  <2>2. u.depth = 1 /\ u.base = shape
    BY <1>3, <1>6
  <2> QED BY <2>1, <2>2, <1>3 DEF u
<1>7. CASE u = C("char", 1) /\ shape = IF pos = "result" THEN "cstring_ret" ELSE "char_ptr"
  <2>1. t.depth = 1 /\ t.base \in {"char", "uint8_t"}
    BY <1>1, <1>2, <1>3, <1>7, KindsOfShape DEF FromHeader, ByScalar, ByPointer, Struct
  <2>2. Same(t.base, "char")
    BY <2>1 DEF Same, Width
  <2> QED BY <2>1, <2>2, <1>3, <1>7 DEF u
<1>8. CASE u = C("char", 2) /\ shape = "char_ptr_ptr"
  <2>1. t = C("char", 2)
    BY <1>1, <1>8, KindsOfShape DEF FromHeader, ByScalar, ByPointer, Struct
  <2> QED BY <2>1, <1>3, <1>8 DEF u
<1>9. CASE u = C("void", 1) /\ shape = "void_ptr"
  <2>1. t.depth >= 1
    BY <1>1, <1>9, KindsOfShape DEF FromHeader, ByScalar, ByPointer, Struct
  <2> QED BY <2>1, <1>9 DEF Compatible, u
<1>10. CASE u = C("void", 2) /\ shape = "void_ptr_ptr"
  <2>1. t.depth = 2
    BY <1>1, <1>10, KindsOfShape DEF FromHeader, ByScalar, ByPointer, Struct
  <2> QED BY <2>1, <1>10 DEF Compatible, u
<1> QED BY <1>1, <1>4, <1>5, <1>6, <1>7, <1>8, <1>9, <1>10 DEF FromPython

\* A neutral type that stands for a scalar has the shape of what it means.
LEMMA NeutralScalar ==
    ASSUME NEW name \in ByScalar
    PROVE  LET u == NeutralMeaning[name]
           IN  u.depth = 0 /\ u.base \in DOMAIN ScalarShape /\ ScalarShape[u.base] = name
BY DEF ByScalar, NeutralMeaning, ScalarShape, C

\* A neutral type and a type of the header of the same shape: of the pointers, those to
\* characters are that, and the others addresses of no particular type.
LEMMA TypeScriptSpeaks ==
    ASSUME NEW t, ACType(t), NEW pos, NEW name \in TypeScriptShapes,
           HeaderToTypeScript(t, pos) = name
    PROVE  Compatible(t, NeutralMeaning[name])
<1> DEFINE u == NeutralMeaning[name]
<1>1. t.depth \in Nat /\ t = C(t.base, t.depth)
  BY DEF ACType
<1>2. CASE t.depth = 0
  <2>1. t.base \in DOMAIN ScalarShape /\ ScalarShape[t.base] = name
    BY <1>2 DEF HeaderToTypeScript, TypeScriptShapes, Unsupported
  <2>2. name \in ByScalar
    BY <2>1, KindsOfShape
  <2>3. u.depth = 0 /\ u.base \in DOMAIN ScalarShape /\ ScalarShape[u.base] = name
    BY <2>2, NeutralScalar
  <2>4. Same(t.base, u.base)
    BY <2>1, <2>3, ScalarSame
  <2> QED BY <1>2, <2>3, <2>4 DEF Compatible
<1>3. CASE t.depth # 0
  <2>1. \/ name \in {"cstring_ret", "cstr"} /\ t = C("char", 1)
        \/ name = "cstr_arr" /\ t = C("char", 2)
        \/ name \in {"handle", "buf"}
    BY <1>1, <1>3 DEF HeaderToTypeScript
  <2>2. CASE name \in {"cstring_ret", "cstr"} /\ t = C("char", 1)
    <3>1. u = t
      BY <2>2 DEF NeutralMeaning
    <3> QED BY <3>1 DEF Compatible, Same
  <2>3. CASE name = "cstr_arr" /\ t = C("char", 2)
    <3>1. u = t
      BY <2>3 DEF NeutralMeaning
    <3> QED BY <3>1 DEF Compatible, Same
  <2>4. CASE name \in {"handle", "buf"}
    <3>1. u = C("void", 1)
      BY <2>4 DEF NeutralMeaning
    <3>2. t.depth >= 1
      BY <1>1, <1>3
    <3> QED BY <3>1, <3>2 DEF Compatible
  <2> QED BY <2>1, <2>2, <2>3, <2>4
<1> QED BY <1>2, <1>3

\* A name with a shape is one of the table.
LEMMA NamedShape ==
    ASSUME NEW name, NEW pos, PythonShape(name, pos) # Unsupported
    PROVE  name \in DOMAIN CtypesShape
<1>1. "CHARP" \in DOMAIN CtypesShape
  BY DEF CtypesShape
<1> QED BY <1>1 DEF PythonShape

\* The tables of shapes hide no drift: where the shapes of a type and of a name agree, a
\* call through the name passes what the type expects.
LEMMA NoDriftHides == ShapesSpeak
<1>1. \A t \in CTypes : ACType(t)
  BY CTypeFacts
<1>2. ASSUME NEW t \in CTypes, NEW pos \in Position, NEW name,
             HeaderToPython(t, pos) = PythonShape(name, pos), PythonShape(name, pos) # Unsupported
      PROVE  Compatible(t, CtypesMeaning[name])
  BY <1>1, <1>2, PythonSpeaks, NamedShape
<1>3. ASSUME NEW t \in CTypes, NEW pos \in Position, NEW name \in TypeScriptShapes,
             HeaderToTypeScript(t, pos) = TypeScriptShape(name)
      PROVE  Compatible(t, NeutralMeaning[name])
  BY <1>1, <1>3, TypeScriptSpeaks DEF TypeScriptShape
<1> QED BY <1>2, <1>3 DEF ShapesSpeak

\* What is in a sequence, and its length.
LEMMA SeqFacts ==
    ASSUME NEW S, NEW s \in Seq(S)
    PROVE  Len(s) \in Nat /\ \A i \in 1 .. Len(s) : s[i] \in S
BY LenProperties, ElementOfSeq

\* A function on an initial segment of the naturals is a sequence.
LEMMA SegmentFacts ==
    ASSUME NEW n \in Nat, NEW f, f = [i \in 1 .. n |-> f[i]]
    PROVE  Len(f) = n /\ f \in Seq({f[i] : i \in 1 .. n})
<1> DEFINE S == {f[i] : i \in 1 .. n}
<1>1. f \in [1 .. n -> S]
  OBVIOUS
<1> HIDE DEF S
<1> QED BY <1>1 DEF S

\* A prototype's name and its types.
LEMMA PrototypeFacts ==
    ASSUME NEW T, NEW fs \in Prototypes(T)
    PROVE  /\ Len(fs) \in Nat
           /\ \A n \in 1 .. Len(fs) :
                 /\ fs[n].result \in T /\ Len(fs[n].args) \in Nat
                 /\ \A i \in 1 .. Len(fs[n].args) : fs[n].args[i] \in T
<1> DEFINE R == [name : STRING, kind : STRING, result : T, args : Seq(T)]
<1>1. fs \in Seq(R)
  BY DEF Prototypes
<1>2. \A f \in R : f.result \in T /\ f.args \in Seq(T)
  OBVIOUS
<1> HIDE DEF R
<1>3. Len(fs) \in Nat /\ \A n \in 1 .. Len(fs) : fs[n] \in R
  BY <1>1, SeqFacts
<1> QED BY <1>2, <1>3, SeqFacts

\* The list of shapes of a prototype, element by element.
ResultOf(list, f) == ShapeOf(list, f.result, "result")
ShapeAt(list, f, i) ==
    IF i = 1 THEN f.name
    ELSE IF i = 2 THEN ResultOf(list, f)
    ELSE ShapeOf(list, f.args[i - 2], ArgumentOf(f, i - 2))

\* It starts with the name and the result, and the arguments follow.
LEMMA ShapedIs ==
    ASSUME NEW list, NEW f, Len(f.args) \in Nat
    PROVE  /\ Len(Shaped(list, f)) = Len(f.args) + 2
           /\ \A i \in 1 .. Len(f.args) + 2 : Shaped(list, f)[i] = ShapeAt(list, f, i)
<1> DEFINE L == Len(f.args) head == <<f.name, ResultOf(list, f)>>
           tail == [i \in 1 .. L |-> ShapeOf(list, f.args[i], ArgumentOf(f, i))]
           S == {head[1], head[2]} \cup {tail[i] : i \in 1 .. L}
<1>1. head \in Seq(S) /\ Len(head) = 2 /\ head[1] = f.name
      /\ head[2] = ResultOf(list, f)
  OBVIOUS
<1>2. tail = [i \in 1 .. L |-> tail[i]]
      /\ \A i \in 1 .. L : tail[i] = ShapeOf(list, f.args[i], ArgumentOf(f, i))
  OBVIOUS
<1> HIDE DEF head, tail, L
<1>3. L \in Nat
  BY DEF L
<1>4. Len(tail) = L /\ tail \in Seq({tail[i] : i \in 1 .. L})
  BY <1>2, <1>3, SegmentFacts
<1>5. tail \in Seq(S)
  <2>1. {tail[i] : i \in 1 .. L} \subseteq S
    OBVIOUS
  <2> QED BY <2>1, <1>4
<1> HIDE DEF S
<1>6. /\ Len(head \o tail) = 2 + L
      /\ \A i \in 1 .. 2 + L : (head \o tail)[i] = IF i <= 2 THEN head[i] ELSE tail[i - 2]
  <2>1. head \in Seq(S) /\ tail \in Seq(S)
    BY <1>1, <1>5
  <2>2. /\ Len(head \o tail) = Len(head) + Len(tail)
        /\ \A i \in 1 .. Len(head) + Len(tail) :
              (head \o tail)[i] = IF i <= Len(head) THEN head[i] ELSE tail[i - Len(head)]
    BY ONLY <2>1, ConcatProperties
  <2> QED BY <2>2, <1>1, <1>4
<1>7. Shaped(list, f) = head \o tail
  BY DEF Shaped, ResultOf, head, tail, L
<1> DEFINE w == head \o tail
<1> HIDE DEF w
<1>8. /\ Len(w) = 2 + L
      /\ \A i \in 1 .. 2 + L : w[i] = IF i <= 2 THEN head[i] ELSE tail[i - 2]
  BY <1>6 DEF w
<1>9. ASSUME NEW i \in 1 .. L + 2
      PROVE  w[i] = ShapeAt(list, f, i)
  <2>1. i \in 1 .. 2 + L
    BY <1>3
  <2>2. CASE i = 1
    BY <2>1, <2>2, <1>1, <1>8 DEF ShapeAt
  <2>3. CASE i = 2
    BY <2>1, <2>3, <1>1, <1>8 DEF ShapeAt
  <2>4. CASE i # 1 /\ i # 2
    <3>1. ~(i <= 2) /\ i - 2 \in 1 .. L
      BY <2>4, <1>3
    <3>2. w[i] = tail[i - 2]
      BY <2>1, <3>1, <1>8
    <3> QED BY <2>4, <3>1, <3>2, <1>2 DEF ShapeAt
  <2> QED BY <2>2, <2>3, <2>4
<1>10. Len(w) = L + 2
  BY <1>8, <1>3
<1>11. Shaped(list, f) = w
  BY <1>7 DEF w
<1> QED BY <1>9, <1>10, <1>11 DEF L

\* Where the list made of the header and that of a binding agree on a type and a name, a
\* call through the name passes what the type expects.
Speaks(list, binding, meaning) ==
    \A t, name, pos, pos2 :
       /\ ACType(t) /\ (pos = "result" <=> pos2 = "result")
       /\ ShapeOf(list, t, pos) = ShapeOf(binding, name, pos2)
       /\ ShapeOf(list, t, pos) # Unsupported
       => Compatible(t, meaning[name])

\* So it is for Python ...
LEMMA PythonLists == Speaks("for python", "python", CtypesMeaning)
<1>1. ASSUME NEW list, NEW t, NEW pos, list = "for python"
      PROVE  ShapeOf(list, t, pos) = HeaderToPython(t, pos)
  BY <1>1 DEF ShapeOf
<1>2. ASSUME NEW list, NEW t, NEW pos, list = "python"
      PROVE  ShapeOf(list, t, pos) = PythonShape(t, pos)
  BY <1>2 DEF ShapeOf
<1>3. ASSUME NEW t, NEW name, NEW pos, NEW pos2, ACType(t), pos = "result" <=> pos2 = "result",
             HeaderToPython(t, pos) = PythonShape(name, pos2),
             HeaderToPython(t, pos) # Unsupported
      PROVE  Compatible(t, CtypesMeaning[name])
  <2>1. PythonShape(name, pos2) = PythonShape(name, pos)
    BY <1>3 DEF PythonShape
  <2> QED BY <1>3, <2>1, NamedShape, PythonSpeaks
<1>4. ASSUME NEW t, NEW name, NEW pos, NEW pos2, ACType(t), pos = "result" <=> pos2 = "result",
             ShapeOf("for python", t, pos) = ShapeOf("python", name, pos2),
             ShapeOf("for python", t, pos) # Unsupported
      PROVE  Compatible(t, CtypesMeaning[name])
  <2>1. /\ ShapeOf("for python", t, pos) = HeaderToPython(t, pos)
        /\ ShapeOf("python", name, pos2) = PythonShape(name, pos2)
    BY <1>1, <1>2
  <2> QED BY <1>3, <1>4, <2>1
<1> QED BY <1>4 DEF Speaks

\* ... and for TypeScript.
LEMMA TypeScriptLists == Speaks("for typescript", "typescript", NeutralMeaning)
<1>1. ASSUME NEW list, NEW t, NEW pos, list = "for typescript"
      PROVE  ShapeOf(list, t, pos) = HeaderToTypeScript(t, pos)
  BY <1>1 DEF ShapeOf
<1>2. ASSUME NEW list, NEW t, NEW pos, list = "typescript"
      PROVE  ShapeOf(list, t, pos) = TypeScriptShape(t)
  BY <1>2 DEF ShapeOf
<1>3. ASSUME NEW t, NEW name, NEW pos, ACType(t),
             HeaderToTypeScript(t, pos) = TypeScriptShape(name),
             HeaderToTypeScript(t, pos) # Unsupported
      PROVE  Compatible(t, NeutralMeaning[name])
  <2>1. name \in TypeScriptShapes /\ TypeScriptShape(name) = name
    BY <1>3 DEF TypeScriptShape
  <2> QED BY <1>3, <2>1, TypeScriptSpeaks
<1>4. ASSUME NEW t, NEW name, NEW pos, NEW pos2, ACType(t), pos = "result" <=> pos2 = "result",
             ShapeOf("for typescript", t, pos) = ShapeOf("typescript", name, pos2),
             ShapeOf("for typescript", t, pos) # Unsupported
      PROVE  Compatible(t, NeutralMeaning[name])
  <2>1. /\ ShapeOf("for typescript", t, pos) = HeaderToTypeScript(t, pos)
        /\ ShapeOf("typescript", name, pos2) = TypeScriptShape(name)
    BY <1>1, <1>2
  <2> QED BY <1>3, <1>4, <2>1
<1> QED BY <1>4 DEF Speaks

\* The lists of the header and of a binding are equal.
Agrees(list, h, binding, p) == AbiEqual(Shapes(list, h), Shapes(binding, p))

\* Where the lists are equal, every prototype of the binding can be called for its function
\* (generate.py 437-451).
LEMMA EqualIsCallable ==
    ASSUME NEW h \in Prototypes(CType), NEW p \in Prototypes(STRING),
           NEW list, NEW binding, NEW meaning,
           Agrees(list, h, binding, p), Speaks(list, binding, meaning)
    PROVE  AllCallable(meaning, p, h)
<1> DEFINE x == Shapes(list, h) y == Shapes(binding, p)
<1>1. x = y /\ Supported(x)
  BY DEF AbiEqual, Agrees
<1>2. Len(h) \in Nat /\ Len(p) \in Nat
  BY PrototypeFacts
<1>3. /\ Len(x) = Len(h) /\ \A n \in 1 .. Len(h) : x[n] = Shaped(list, h[n])
      /\ Len(y) = Len(p) /\ \A n \in 1 .. Len(p) : y[n] = Shaped(binding, p[n])
  <2>1. /\ x = [n \in 1 .. Len(h) |-> x[n]] /\ y = [n \in 1 .. Len(p) |-> y[n]]
        /\ \A n \in 1 .. Len(h) : x[n] = Shaped(list, h[n])
        /\ \A n \in 1 .. Len(p) : y[n] = Shaped(binding, p[n])
    BY DEF Shapes
  <2> HIDE DEF x, y
  <2> QED BY <2>1, <1>2, SegmentFacts
<1> HIDE DEF x, y
<1>4. Len(h) = Len(p)
  BY <1>1, <1>3
<1>5. ASSUME NEW n \in 1 .. Len(h)
      PROVE  Callable(meaning, p[n], h[n])
  <2> DEFINE f == p[n] g == h[n]
  <2>1. /\ g.result \in CType /\ Len(g.args) \in Nat
        /\ \A i \in 1 .. Len(g.args) : g.args[i] \in CType
    BY PrototypeFacts
  <2>2. /\ f.result \in STRING /\ Len(f.args) \in Nat
        /\ \A i \in 1 .. Len(f.args) : f.args[i] \in STRING
    BY <1>4, PrototypeFacts
  <2> DEFINE m == Len(g.args) l == Len(f.args)
  <2> HIDE DEF f, g, m, l
  <2> DEFINE a == Shaped(list, g) b == Shaped(binding, f)
  <2>3. /\ Len(a) = m + 2 /\ Len(b) = l + 2
        /\ \A i \in 1 .. m + 2 : a[i] = ShapeAt(list, g, i)
        /\ \A i \in 1 .. l + 2 : b[i] = ShapeAt(binding, f, i)
    BY <2>1, <2>2, ShapedIs DEF m, l
  <2>4. a = b /\ \A i \in 1 .. Len(a) : a[i] # Unsupported
    <3>1. x[n] = a /\ y[n] = b /\ n \in 1 .. Len(x)
      BY <1>3, <1>4 DEF f, g
    <3> QED BY <3>1, <1>1 DEF Supported
  <2> HIDE DEF a, b
  <2>5. l = m
    <3>1. m \in Nat /\ l \in Nat /\ m + 2 = l + 2
      BY <2>1, <2>2, <2>3, <2>4 DEF m, l
    <3> QED BY ONLY <3>1
  <2>6. \A i \in 1 .. m + 2 :
           /\ ShapeAt(list, g, i) = ShapeAt(binding, f, i)
           /\ ShapeAt(list, g, i) # Unsupported
    BY <2>3, <2>4, <2>5
  <2>10. m \in Nat
    BY <2>1 DEF m
  <2>7. f.name = g.name
    <3>1. 1 \in 1 .. m + 2
      BY <2>10
    <3> QED BY <3>1, <2>6 DEF ShapeAt
  <2>8. Compatible(g.result, meaning[f.result])
    <3>1. 2 \in 1 .. m + 2
      BY <2>10
    <3>2. \A l2, k : ShapeAt(l2, k, 2) = ResultOf(l2, k)
      BY DEF ShapeAt
    <3>3. /\ ResultOf(list, g) = ResultOf(binding, f)
          /\ ResultOf(list, g) # Unsupported
      BY <3>1, <2>6, <3>2
    <3>4. ACType(g.result)
      BY <2>1, CTypeFacts
    <3> QED BY <3>3, <3>4 DEF ResultOf, Speaks
  <2>9. ASSUME NEW i \in 1 .. m
        PROVE  Compatible(g.args[i], meaning[f.args[i]])
    <3> DEFINE pos == ArgumentOf(g, i) pos2 == ArgumentOf(f, i)
    <3>1. i + 2 \in 1 .. m + 2 /\ (i + 2) - 2 = i /\ i + 2 # 1 /\ i + 2 # 2
      BY <2>10
    <3>2. /\ ShapeAt(list, g, i + 2) = ShapeOf(list, g.args[i], pos)
          /\ ShapeAt(binding, f, i + 2) = ShapeOf(binding, f.args[i], pos2)
      BY <3>1 DEF ShapeAt
    <3>3. /\ ShapeAt(list, g, i + 2) = ShapeAt(binding, f, i + 2)
          /\ ShapeAt(list, g, i + 2) # Unsupported
      BY <3>1, <2>6
    <3>4. pos # "result" /\ pos2 # "result"
      BY DEF ArgumentOf
    <3>5. ACType(g.args[i])
      BY <2>1, CTypeFacts DEF m
    <3> HIDE DEF pos, pos2
    <3> QED BY <3>2, <3>3, <3>4, <3>5 DEF Speaks
  <2> QED BY <2>5, <2>7, <2>8, <2>9 DEF Callable, f, g, m, l
<1> QED BY <1>4, <1>5 DEF AllCallable

-----------------------------------------------------------------------------
(* The releases that reach the wiki: only a commit that generates the wiki   *)
(* gets past its workflows, and only a release past the gate is installed.   *)

GoodPages(w) ==
    \A p \in Page : w.pages[p].by \in {"generator", "both"} => Generates(w.pages[p].rel)
Past == {"tag", "release", "clone"}
ReleaseInv ==
    /\ \A q \in runs : q.status = "success" => Generates(q.rel)
    /\ GoodPages(wiki)
    /\ job.phase \in Past \/ job.final => Generates(job.rel)
    /\ job.final => GoodPages(job.base) /\ GoodPages(job.local)

\* A job that has passed no gate, or the same one further on.
NewJob == job'.phase \notin Past /\ ~job'.final
SameRelease ==
    /\ job'.final = job.final /\ job'.rel = job.rel
    /\ job'.base = job.base /\ job'.local = job.local
    /\ job'.phase \in Past => job.phase \in Past \/ job.final

\* A step that starts no push and gets past no gate keeps the invariant.
LEMMA ReleaseKept ==
    ASSUME ReleaseInv, UNCHANGED <<runs, wiki>>, NewJob \/ SameRelease
    PROVE  ReleaseInv'
BY DEF ReleaseInv, NewJob, SameRelease

\* The job that starts with an event has passed no gate.
LEMMA StartedNew ==
    ASSUME NEW e, EventOK(e)
    PROVE  Started(e).phase \notin Past /\ ~Started(e).final
<1>1. e.kind \in Kind
  BY DEF EventOK
<1>2. FirstPhase(e.kind) \in {"runs", "ignore", "resolve"}
  BY <1>1 DEF FirstPhase, Kind
<1>3. Started(e).phase = FirstPhase(e.kind) /\ ~Started(e).final
  BY DEF Started, Idle
<1> QED BY <1>2, <1>3 DEF Past

\* So has the job that follows one that ends ...
LEMMA EndNew ==
    ASSUME PublishInv, Finish \/ Fail
    PROVE  NewJob
<1>1. Idle.phase \notin Past /\ ~Idle.final
  BY DEF Idle, Past
<1>2. pending # None => EventOK(pending)
  BY DEF PublishInv, JobTypeOK
<1> QED BY <1>1, <1>2, StartedNew DEF Finish, Fail, NextJob, NewJob

\* ... and the one an arriving event starts, if it starts one.
LEMMA ArriveNew ==
    ASSUME NEW e, EventOK(e), Arrive(e)
    PROVE  NewJob \/ SameRelease
BY StartedNew DEF Arrive, NewJob, SameRelease

\* The runs: one that ends well is of a commit that generates the wiki.
LEMMA RunsKeepReleases ==
    ASSUME PublishInv, ReleaseInv, UNCHANGED wiki,
           \/ RunEnds \/ BranchRun \/ \E r \in runs : Rerun(r)
           \/ \E v \in Version : Withdraw(v) \/ \E s \in Sha : PushTag(v, s)
           \/ \E v \in Version, force \in BOOLEAN : Dispatch(v, force)
    PROVE  ReleaseInv'
<1>1. ASSUME NEW r \in runs, NEW st \in {"success", "failure"}, Complete(r, st)
      PROVE  ReleaseInv'
  <2>1. EventOK(Event("run", r.rel, FALSE))
    <3>1. r.rel \in ReleaseName /\ r.rel \in Rel
      BY ReleaseFacts DEF PublishInv, GithubTypeOK, Run
    <3> QED BY <3>1 DEF EventOK, Event, Kind
  <2>2. NewJob \/ SameRelease
    BY <1>1, <2>1, ArriveNew DEF Complete
  <2>3. ASSUME NEW q \in runs', q.status = "success"
        PROVE  Generates(q.rel)
    <3> DEFINE n == [r EXCEPT !.status = st]
    <3>1. n.status = st /\ n.rel = r.rel
      BY DEF PublishInv, GithubTypeOK, Run
    <3>2. st = "success" => Generates(r.rel)
      BY <1>1 DEF Complete
    <3> HIDE DEF n
    <3>3. q \in runs \/ q = n
      BY <1>1, <2>3 DEF Complete, n
    <3> QED BY <2>3, <3>1, <3>2, <3>3 DEF ReleaseInv
  <2> QED BY <2>2, <2>3 DEF ReleaseInv, NewJob, SameRelease
<1>2. ASSUME NEW v \in Version, NEW s \in Sha, PushTag(v, s)
      PROVE  ReleaseInv'
  <2>1. \A q \in runs' : q.status = "success" => q \in runs
    BY <1>2 DEF PushTag
  <2> QED BY <1>2, <2>1 DEF PushTag, ReleaseInv
<1>3. ASSUME NEW r \in runs, Rerun(r)
      PROVE  ReleaseInv'
  <2>1. [r EXCEPT !.attempt = @ + 1, !.status = "running"].status # "success"
    BY DEF PublishInv, GithubTypeOK, Run
  <2>2. \A q \in runs' : q.status = "success" => q \in runs
    BY <1>3, <2>1 DEF Rerun
  <2> QED BY <1>3, <2>2 DEF Rerun, ReleaseInv
<1>4. CASE BranchRun
  <2>1. EventOK(Event("branch", NoRelease, FALSE))
    BY ReleaseFacts DEF EventOK, Event, Kind
  <2> QED BY <1>4, <2>1, ArriveNew, ReleaseKept DEF BranchRun, github
<1>5. ASSUME NEW v \in Version, NEW force \in BOOLEAN, Dispatch(v, force)
      PROVE  ReleaseInv'
  <2>1. EventOK(Event("dispatch", Release(v, None), force))
    BY PublishAssumption DEF EventOK, Event, Kind, Release, Rel
  <2> QED BY <1>5, <2>1, ArriveNew, ReleaseKept DEF Dispatch, github
<1>6. ASSUME NEW v \in Version, Withdraw(v)
      PROVE  ReleaseInv'
  BY <1>6, ReleaseKept DEF Withdraw, SameRelease
<1> QED BY <1>1, <1>2, <1>3, <1>4, <1>5, <1>6 DEF RunEnds

\* The gate: a release it calls ready has a run that succeeded.
LEMMA GateKeepsReleases ==
    ASSUME PublishInv, ReleaseInv, Resolve \/ GateRuns \/ GateTag \/ GateRelease
    PROVE  ReleaseInv'
<1> USE DEF At, GateKeeps, github
<1>1. UNCHANGED <<runs, wiki>> /\ job \in JobRecord
  BY JobFields DEF Resolve, GateRuns, GateTag, GateRelease
<1>2. CASE Finish \/ Fail
  BY <1>1, <1>2, EndNew, ReleaseKept
<1>3. CASE Resolve /\ ~Fail
  <2> DEFINE r == Release(job.rel.version, tagAt[job.rel.version])
             j == [job EXCEPT !.phase = "runs", !.rel = r]
  <2>1. job' = j /\ (job.final => r = job.rel)
    BY <1>3 DEF Resolve, Go
  <2>2. /\ j.phase = "runs" /\ j.rel = r /\ j.final = job.final /\ j.base = job.base
        /\ j.local = job.local
    BY <1>1 DEF JobRecord
  <2> HIDE DEF j, r
  <2> QED BY <1>1, <2>1, <2>2, ReleaseKept DEF NewJob, SameRelease, Past
<1>4. CASE Evaluate(job.rel) = "ready" /\ Go([job EXCEPT !.phase = "tag", !.polls = 0])
  <2> DEFINE j == [job EXCEPT !.phase = "tag", !.polls = 0]
  <2>1. j.rel = job.rel /\ j.final = job.final /\ j.base = job.base /\ j.local = job.local
    BY <1>1 DEF JobRecord
  <2>2. job' = j
    BY <1>4 DEF Go
  <2>3. Generates(job.rel)
    <3>1. PICK q \in Selected(job.rel) : q.flow = PythonFlow
      BY <1>4, PublishAssumption DEF Evaluate
    <3>2. q.status = "success" /\ q \in runs /\ q.rel = job.rel
      BY <1>4, <3>1 DEF Evaluate, Selected, Listed
    <3> QED BY <3>2 DEF ReleaseInv
  <2> HIDE DEF j
  <2> QED BY <1>1, <2>1, <2>2, <2>3 DEF ReleaseInv
<1>5. CASE Go([job EXCEPT !.polls = @ + 1]) /\ GateRuns
  <2> DEFINE j == [job EXCEPT !.polls = @ + 1]
  <2>1. /\ j.rel = job.rel /\ j.final = job.final /\ j.base = job.base /\ j.local = job.local
        /\ j.phase = job.phase
    BY <1>1 DEF JobRecord
  <2>2. job' = j
    BY <1>5 DEF Go
  <2> HIDE DEF j
  <2> QED BY <1>1, <2>1, <2>2, ReleaseKept DEF SameRelease
<1>6. CASE ~Fail /\ GateTag
  <2> DEFINE j == [job EXCEPT !.phase = "release"]
  <2>1. j.rel = job.rel /\ j.final = job.final /\ j.base = job.base /\ j.local = job.local
    BY <1>1 DEF JobRecord
  <2>2. job' = j /\ job.phase \in Past
    BY <1>6 DEF GateTag, Go, Past
  <2> HIDE DEF j
  <2> QED BY <1>1, <2>1, <2>2, ReleaseKept DEF SameRelease
<1>7. CASE ~Fail /\ GateRelease
  <2> DEFINE j == [job EXCEPT !.phase = IF job.final THEN "push" ELSE "clone"]
  <2>1. j.rel = job.rel /\ j.final = job.final /\ j.base = job.base /\ j.local = job.local
    BY <1>1 DEF JobRecord
  <2>2. job' = j /\ job.phase \in Past
    BY <1>7 DEF GateRelease, Go, Past
  <2> HIDE DEF j
  <2> QED BY <1>1, <2>1, <2>2, ReleaseKept DEF SameRelease
<1> QED BY <1>2, <1>3, <1>4, <1>5, <1>6, <1>7 DEF GateRuns

\* What is installed is the release of the job, or what was there.
LEMMA InstallKeepsReleases ==
    ASSUME PublishInv, ReleaseInv, Install
    PROVE  ReleaseInv'
<1> USE DEF At, GateKeeps, github
<1>1. UNCHANGED <<runs, wiki>> /\ job \in JobRecord
  BY JobFields DEF Install
<1>2. CASE Fail
  BY <1>1, <1>2, EndNew, ReleaseKept
<1>3. CASE ~Fail
  <2> DEFINE b == Bundle(job.rel) l == Installed(b, wiki, job.force)
             j == [job EXCEPT !.final = TRUE, !.base = wiki, !.baseEdits = edits, !.local = l,
                              !.phase = FirstPhase(job.event)]
  <2>1. job' = j /\ Generates(job.rel)
    BY <1>3 DEF Install, Go, ReleaseInv, Past
  <2>2. GoodPages(l)
    <3>1. \A p \in DOMAIN b.pages : b.pages[p].rel = job.rel
      BY <2>1 DEF Bundle, Manifest, Generates, PagesValid, Gen
    <3>2. \/ l = wiki
          \/ \A p \in Page : l.pages[p] = IF p \in DOMAIN b.pages THEN b.pages[p]
                                        ELSE IF p \in Owned(wiki) THEN Absent ELSE wiki.pages[p]
      BY DEF Installed, Copied
    <3>3. Absent.by = "nobody"
      BY DEF Absent
    <3> HIDE DEF b, l
    <3> QED BY <2>1, <3>1, <3>2, <3>3 DEF ReleaseInv, GoodPages
  <2> HIDE DEF l
  <2>3. j.rel = job.rel /\ j.final /\ j.base = wiki /\ j.local = l
    BY <1>1 DEF JobRecord
  <2> HIDE DEF j
  <2> QED BY <1>1, <2>1, <2>2, <2>3 DEF ReleaseInv
<1> QED BY <1>2, <1>3

\* A push and a rebase put into the wiki, and into the clone, what was in either.
LEMMA PushKeepsReleases ==
    ASSUME PublishInv, ReleaseInv, Push \/ PushBreaks \/ Rebase
    PROVE  ReleaseInv'
<1> USE DEF At, github
<1>1. /\ UNCHANGED runs /\ job \in JobRecord /\ job.final
      /\ job.phase \in {"push", "rebase", "repush"}
  BY JobFields, PushingFacts DEF Push, PushBreaks, Rebase, GateKeeps
<1>2. Generates(job.rel) /\ GoodPages(job.base) /\ GoodPages(job.local) /\ GoodPages(wiki)
  BY <1>1 DEF ReleaseInv
<1>3. CASE (Finish \/ Fail) /\ (UNCHANGED wiki \/ wiki' = job.local)
  <2>1. NewJob /\ GoodPages(wiki')
    BY <1>2, <1>3, EndNew
  <2> QED BY <1>1, <2>1 DEF ReleaseInv, NewJob
<1>4. CASE UNCHANGED wiki /\ Go([job EXCEPT !.phase = "rebase"])
  <2> DEFINE j == [job EXCEPT !.phase = "rebase"]
  <2>1. j.rel = job.rel /\ j.final = job.final /\ j.base = job.base /\ j.local = job.local
    BY <1>1 DEF JobRecord
  <2>2. job' = j
    BY <1>4 DEF Go
  <2> HIDE DEF j
  <2> QED BY <1>1, <1>4, <2>1, <2>2, ReleaseKept DEF SameRelease
<1>5. CASE wiki' = job.local /\ Go([job EXCEPT !.phase = "rebase", !.base = job.local])
  <2> DEFINE j == [job EXCEPT !.phase = "rebase", !.base = job.local]
  <2>1. j.rel = job.rel /\ j.final = job.final /\ j.base = job.local /\ j.local = job.local
    BY <1>1 DEF JobRecord
  <2>2. job' = j
    BY <1>5 DEF Go
  <2> HIDE DEF j
  <2> QED BY <1>1, <1>2, <1>5, <2>1, <2>2 DEF ReleaseInv
<1>6. CASE Rebase /\ ~Fail
  <2> DEFINE j == [job EXCEPT !.phase = "repush", !.base = wiki, !.baseEdits = edits,
                              !.local = Merged]
  <2>1. /\ job' = j /\ UNCHANGED wiki
        /\ \A p \in Page : Conflict(p) =>
              Mergeable(job.base.pages[p], job.local.pages[p], wiki.pages[p])
    BY <1>6 DEF Rebase, Merged, Go, GateKeeps
  <2>2. GoodPages(Merged)
    <3>1. ASSUME NEW p \in Page, MergedPage(p).by \in {"generator", "both"}
          PROVE  Generates(MergedPage(p).rel)
      <4>1. CASE job.local.pages[p] = job.base.pages[p]
        BY <1>2, <3>1, <4>1 DEF MergedPage, GoodPages
      <4>2. CASE job.local.pages[p] # job.base.pages[p] /\ Conflict(p)
        <5>1. job.local.pages[p].by = "generator" /\ MergedPage(p).rel = job.local.pages[p].rel
          BY <2>1, <4>2 DEF MergedPage, Mergeable, Mixed
        <5> QED BY <1>2, <5>1 DEF GoodPages
      <4>3. CASE job.local.pages[p] # job.base.pages[p] /\ ~Conflict(p)
        BY <1>2, <3>1, <4>3 DEF MergedPage, GoodPages
      <4> QED BY <4>1, <4>2, <4>3
    <3> QED BY <3>1 DEF GoodPages, Merged
  <2> HIDE DEF Merged
  <2>3. j.rel = job.rel /\ j.final = job.final /\ j.base = wiki /\ j.local = Merged
    BY <1>1 DEF JobRecord
  <2> HIDE DEF j
  <2> QED BY <1>1, <1>2, <2>1, <2>2, <2>3 DEF ReleaseInv
<1> QED BY <1>3, <1>4, <1>5, <1>6 DEF Push, PushBreaks, Rebase, GateKeeps

\* A person makes a generated page of nothing but one, of the same release.
LEMMA PeopleKeepReleases ==
    ASSUME PublishInv, ReleaseInv, People
    PROVE  ReleaseInv'
<1>1. UNCHANGED <<runs, job>>
  BY DEF People, EditPage, EditManifest, github
<1>2. wiki \in Wiki /\ wiki.pages \in [Page -> PageState]
  BY DEF PublishInv, WikiTypeOK, Wiki
<1>3. ASSUME NEW m, EditManifest(m)
      PROVE  wiki'.pages = wiki.pages
  BY <1>2, <1>3 DEF EditManifest, Wiki
<1>4. ASSUME NEW p \in Page, NEW c, NEW entered, EditPage(p, c, entered)
      PROVE  /\ wiki'.pages = [wiki.pages EXCEPT ![p] = c]
             /\ c.by \in {"generator", "both"} =>
                   wiki.pages[p].by \in {"generator", "both"} /\ c.rel = wiki.pages[p].rel
  <2>1. wiki'.pages = [wiki.pages EXCEPT ![p] = c]
    <3> DEFINE w == [wiki EXCEPT !.pages[p] = c]
    <3>1. w.pages = [wiki.pages EXCEPT ![p] = c] /\ DOMAIN w = {"pages", "manifest"}
      BY <1>2 DEF Wiki
    <3>2. \A m : [w EXCEPT !.manifest = m].pages = w.pages
      BY <3>1
    <3> QED BY <1>4, <3>1, <3>2 DEF EditPage
  <2>2. c.by \in {"generator", "both"} =>
           wiki.pages[p].by \in {"generator", "both"} /\ c.rel = wiki.pages[p].rel
    BY <1>4 DEF EditPage, Absent, Hand, Gen, Mixed
  <2> QED BY <2>1, <2>2
<1>5. GoodPages(wiki')
  <2> SUFFICES ASSUME NEW q \in Page, wiki'.pages[q].by \in {"generator", "both"}
               PROVE  Generates(wiki'.pages[q].rel)
    BY DEF GoodPages
  <2>1. /\ wiki.pages[q].by \in {"generator", "both"}
        /\ wiki'.pages[q].rel = wiki.pages[q].rel
    BY <1>2, <1>3, <1>4 DEF People
  <2> QED BY <2>1 DEF ReleaseInv, GoodPages
<1> QED BY <1>1, <1>5 DEF ReleaseInv

\* No step lets a release reach the wiki whose commit does not generate it.
LEMMA ReleaseStep ==
    ASSUME PublishInv, ReleaseInv, [Next]_vars
    PROVE  ReleaseInv'
<1>1. CASE Ignore \/ JobDies
  BY <1>1, EndNew, ReleaseKept DEF Ignore, JobDies, GateKeeps, github
<1>2. CASE Resolve \/ GateRuns \/ GateTag \/ GateRelease
  BY <1>2, GateKeepsReleases
<1>3. CASE Install
  BY <1>3, InstallKeepsReleases
<1>4. CASE Push \/ PushBreaks \/ Rebase
  BY <1>4, PushKeepsReleases
<1>5. CASE People
  BY <1>5, PeopleKeepReleases
<1>6. CASE \/ RunEnds \/ BranchRun \/ \E r \in runs : Rerun(r)
           \/ \E v \in Version : Withdraw(v) \/ \E s \in Sha : PushTag(v, s)
           \/ \E v \in Version, force \in BOOLEAN : Dispatch(v, force)
  <2>1. UNCHANGED wiki
    BY <1>6 DEF RunEnds, Complete, BranchRun, Rerun, Withdraw, PushTag, Dispatch
  <2> QED BY <1>6, <2>1, RunsKeepReleases
<1>7. CASE UNCHANGED vars
  BY <1>7, ReleaseKept DEF vars, SameRelease
<1> QED BY <1>1, <1>2, <1>3, <1>4, <1>5, <1>6, <1>7 DEF Next, Step, JobStep

\* Only releases whose commits generate the wiki reach it: their six versions agree, their
\* metadata is valid and their bindings declare the prototypes of the header
\* (release_gate.py, generate.py 437-451).
THEOREM WikiReleasesGenerate == Spec => []ReleaseInv
<1>1. Init => ReleaseInv
  BY DEF Init, ReleaseInv, GoodPages, Bootstrap, Absent, Idle, Past
<1>2. PublishInv /\ ReleaseInv /\ [Next]_vars => ReleaseInv'
  BY ReleaseStep
<1> QED BY <1>1, <1>2, PublishInvariant, PTL DEF Spec

\* A release that generates the wiki has bindings that can be called.
LEMMA GeneratesCalls ==
    ASSUME NEW r, Generates(r)
    PROVE  BindingsCall(Abi[r.sha])
<1>1. r.sha \in MetadataValid
  BY DEF Generates
<1> DEFINE abi == Abi[r.sha]
<1>2. r.sha \in Sha /\ AbiMatches(abi.header, abi.python, abi.typescript)
  BY <1>1 DEF MetadataValid
<1>3. /\ abi.header \in Prototypes(CType)
      /\ abi.python \in Prototypes(STRING) /\ abi.typescript \in Prototypes(STRING)
  <2>1. Abi \in [Sha -> [header : Prototypes(CType), python : Prototypes(STRING),
                         typescript : Prototypes(STRING)]]
    BY TreeAssumption
  <2> QED BY <2>1, <1>2
<1>4. /\ Agrees("for python", abi.header, "python", abi.python)
      /\ Agrees("for typescript", abi.header, "typescript", abi.typescript)
  BY <1>2 DEF AbiMatches, Agrees
<1> HIDE DEF abi
<1>5. AllCallable(CtypesMeaning, abi.python, abi.header)
  BY <1>3, <1>4, EqualIsCallable, PythonLists
<1>6. AllCallable(NeutralMeaning, abi.typescript, abi.header)
  BY <1>3, <1>4, EqualIsCallable, TypeScriptLists
<1> QED BY <1>5, <1>6 DEF BindingsCall, abi

\* A release on the wiki has bindings that call the library as its header says, and no shape
\* hides a drift (generate.py 236-338, 437-451).
THEOREM WikiAbiDriftFound == Spec => []AbiDriftFound
<1>1. ReleaseInv => AbiDriftFound
  BY NoDriftHides, GeneratesCalls DEF ReleaseInv, GoodPages, AbiDriftFound
<1> QED BY <1>1, WikiReleasesGenerate, PTL
=============================================================================
