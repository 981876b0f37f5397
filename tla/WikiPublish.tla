----------------------------- MODULE WikiPublish -----------------------------
(***************************************************************************)
(* From a pushed release tag to the pages of the wiki: the two release      *)
(* workflows, the gate that waits for both (tools/wiki/release_gate.py),    *)
(* the installation of the bundle in a clone of the wiki                    *)
(* (tools/wiki/publish_bundle.py) and the push that must live with people   *)
(* who edit the same wiki.                                                  *)
(*                                                                         *)
(* One publishing job runs at a time and one more may wait; an event that   *)
(* arrives while one waits takes its place.  Everything that may go wrong   *)
(* from outside (a rerun, a moved tag, a draft release, an edit, a failing  *)
(* job, a foreign or manual event) takes one of `left` disturbances.        *)
(***************************************************************************)
EXTENDS WikiBundle

CONSTANTS
    Version,        \* versions, as numbers in their order
    FirstCommit,    \* the commit each version is first tagged at
    Flow,           \* the release workflows
    PythonFlow,     \* the one that creates the GitHub Release
    PollAttempts,   \* of the first gate
    MaxDisturb      \* bound on the disturbances

ASSUME PublishAssumption ==
    /\ Version \subseteq Nat \ {0} /\ PythonFlow \in Flow /\ IsFiniteSet(Flow)
    /\ FirstCommit \in [Version -> Sha]
    /\ PollAttempts \in Nat /\ MaxDisturb \in Nat

VARIABLES
    tagAt,      \* the commit each tag is at, or None
    runs,       \* every attempt of every run: [id, flow, rel, attempt, status]
    public,     \* the GitHub Release of a version: "none", "public" or "draft"
    wiki,       \* the wiki repository: [pages, manifest]
    edits,      \* how many commits people have made there
    job,        \* the publishing job
    pending,    \* the event that waits for it, or None
    left,       \* disturbances that may still happen
    seen,       \* history: what held of the job's release since its clone
    givenUp     \* history: releases whose last event failed or was displaced
vars == <<tagAt, runs, public, wiki, edits, job, pending, left, seen, givenUp>>

github == <<tagAt, runs, public>>
Disturb == left > 0 /\ left' = left - 1

Idle == [phase |-> "idle", event |-> "none", rel |-> NoRelease, force |-> FALSE,
         final |-> FALSE, polls |-> 0, base |-> <<>>, baseEdits |-> 0, local |-> <<>>]

\* What an event is about: a completed run of a tag or of a branch, or an operator.
Event(kind, r, force) == [kind |-> kind, rel |-> r, force |-> force]

\* Only tags of the form vX.Y.Z are published; an operator names no commit.
FirstPhase(kind) == [run |-> "runs", branch |-> "ignore", dispatch |-> "resolve"][kind]
Started(e) == [Idle EXCEPT !.phase = FirstPhase(e.kind), !.event = e.kind,
                           !.rel = e.rel, !.force = e.force]

Init ==
    /\ tagAt = [v \in Version |-> None]
    /\ runs = {}
    /\ public = [v \in Version |-> "none"]
    /\ wiki = [pages |-> [p \in Page |-> IF p = Home THEN Bootstrap ELSE Absent],
               manifest |-> NoManifest]
    /\ edits = 0 /\ job = Idle /\ pending = None /\ left = MaxDisturb
    /\ seen = {} /\ givenUp = {}

-----------------------------------------------------------------------------
(* Releasing *)

Pushes == {r.id : r \in runs}
NextId == 1 + Cardinality(Pushes)

\* Both workflows start when a tag is pushed.  Pushing it anywhere but first at
\* its first commit takes a disturbance.
PushTag(v, s) ==
    /\ IF tagAt[v] = None /\ s = FirstCommit[v] THEN UNCHANGED left ELSE Disturb
    /\ tagAt' = [tagAt EXCEPT ![v] = s]
    /\ runs' = runs \cup {[id |-> NextId, flow |-> f, rel |-> Release(v, s),
                           attempt |-> 1, status |-> "running"] : f \in Flow}
    /\ UNCHANGED <<public, wiki, edits, job, pending, givenUp>>

Rerun(r) ==
    /\ Disturb
    /\ r.status # "running"
    /\ ~\E q \in runs : q.id = r.id /\ q.flow = r.flow /\ q.attempt > r.attempt
    /\ runs' = runs \cup {[r EXCEPT !.attempt = @ + 1, !.status = "running"]}
    /\ UNCHANGED <<tagAt, public, wiki, edits, job, pending, givenUp>>

\* The single slot of the concurrency group: a newer event displaces the waiting one.
Arrive(e) ==
    IF job = Idle
    THEN /\ job' = Started(e) /\ givenUp' = givenUp \ {e.rel}
         /\ UNCHANGED pending
    ELSE /\ pending' = e
         /\ givenUp' = (IF pending = None THEN givenUp ELSE givenUp \cup {pending.rel})
                       \ {e.rel}
         /\ UNCHANGED job

\* A run ends well if its commit generates the wiki and nothing else fails; the
\* Python one then creates the GitHub Release.
Complete(r, status) ==
    /\ r.status = "running"
    /\ \/ status = "success" /\ Generates(r.rel) /\ UNCHANGED left
       \/ status = "failure" /\ ~Generates(r.rel) /\ UNCHANGED left
       \/ status = "failure" /\ Generates(r.rel) /\ Disturb
    /\ runs' = (runs \ {r}) \cup {[r EXCEPT !.status = status]}
    /\ public' = IF status = "success" /\ r.flow = PythonFlow
                    /\ public[r.rel.version] = "none"
                 THEN [public EXCEPT ![r.rel.version] = "public"] ELSE public
    /\ Arrive(Event("run", r.rel, FALSE))
    /\ UNCHANGED <<tagAt, wiki, edits>>

\* The same workflows also run for branches, and complete.
BranchRun ==
    /\ Disturb
    /\ Arrive(Event("branch", NoRelease, FALSE))
    /\ UNCHANGED <<github, wiki, edits>>

Dispatch(v, force) ==
    /\ Disturb
    /\ Arrive(Event("dispatch", Release(v, None), force))
    /\ UNCHANGED <<github, wiki, edits>>

\* The GitHub Release is made a draft, or a draft public.
Withdraw(v) ==
    /\ Disturb
    /\ public[v] # "none"
    /\ public' = [public EXCEPT ![v] = IF @ = "public" THEN "draft" ELSE "public"]
    /\ UNCHANGED <<tagAt, runs, wiki, edits, job, pending, givenUp>>

-----------------------------------------------------------------------------
(* People edit the wiki *)

\* What somebody may make of the manifest: a page is listed with the digest it has, be it
\* their own or a generated one they changed; a page is struck out; another version is
\* stated.
Listing(w, p) ==
    [q \in Owned(w) \cup {p} |-> IF q = p THEN w.pages[p] ELSE w.manifest.files[q]]
Striking(w, p) == [q \in Owned(w) \ {p} |-> w.manifest.files[q]]
ManifestEdits(w) ==
    {Manifest(w.manifest.rel, Listing(w, p)) : p \in {q \in Page : w.pages[q] # Absent}}
    \cup {Manifest(w.manifest.rel, Striking(w, p)) : p \in Owned(w)}
    \cup {Manifest(Release(v, w.manifest.rel.sha), w.manifest.files) : v \in Version}

\* A page is edited, and in the same commit, maybe, entered in the manifest.
EditPage(p, c, entered) ==
    /\ Disturb
    /\ LET old == wiki.pages[p]
       IN  /\ c # old
           /\ \/ c = Hand /\ old = Absent
              \/ c = Mixed(old.rel) /\ old.by = "generator"
              \/ c = Gen(old.rel) /\ old.by = "both"
              \/ c = Hand /\ old = Bootstrap
              \/ c = Absent
    /\ entered => wiki.manifest # NoManifest /\ c # Absent
    /\ LET w == [wiki EXCEPT !.pages[p] = c]
       IN  wiki' = IF entered
                   THEN [w EXCEPT !.manifest = Manifest(wiki.manifest.rel, Listing(w, p))]
                   ELSE w
    /\ edits' = edits + 1
    /\ UNCHANGED <<github, job, pending, givenUp>>

EditManifest(m) ==
    /\ Disturb
    /\ wiki.manifest # NoManifest /\ m # wiki.manifest
    /\ wiki' = [wiki EXCEPT !.manifest = m]
    /\ edits' = edits + 1
    /\ UNCHANGED <<github, job, pending, givenUp>>

-----------------------------------------------------------------------------
(* The gate, run before the clone and once more, `final`, before the push *)

NextJob ==
    /\ job' = IF pending = None THEN Idle ELSE Started(pending)
    /\ pending' = None
Finish == NextJob /\ UNCHANGED givenUp
Fail   == NextJob /\ givenUp' = givenUp \cup {job.rel}
Go(j)  == job' = j /\ UNCHANGED <<pending, givenUp>>

At(phase) == job.phase = phase
GateKeeps == UNCHANGED <<github, wiki, edits, left>>

\* An event that names no release tag: nothing to publish.
Ignore == At("ignore") /\ Finish /\ GateKeeps

\* An operator names a tag: its commit is looked up, and must not have changed
\* the second time.
Resolve ==
    /\ At("resolve")
    /\ LET r == Release(job.rel.version, tagAt[job.rel.version])
       IN  IF r.sha = None \/ (job.final /\ r # job.rel) THEN Fail
           ELSE Go([job EXCEPT !.phase = "runs", !.rel = r])
    /\ GateKeeps

\* The newest run of a workflow for this tag and commit; of its attempts, the last
\* (the mutant looks for one that succeeded).
Ranks(q, r) == q.id > r.id \/ (q.id = r.id /\ q.attempt > r.attempt)
Listed(rel) == {r \in runs : r.rel = rel}
SelectedBest(rel) ==
    {r \in Listed(rel) : r.status = "success"
        \/ ~\E q \in Listed(rel) : q.flow = r.flow /\ (q.status = "success" \/ Ranks(q, r))}
Selected(rel) ==
    {r \in Listed(rel) : ~\E q \in Listed(rel) : q.flow = r.flow /\ Ranks(q, r)}

\* Both workflows are waited for, and must have succeeded (the mutant counts the
\* runs instead of the workflows, and waits on for what a rerun has replaced).
EvaluateCount(rel) ==
    IF Cardinality(Listed(rel)) # Cardinality(Flow) THEN "waiting"
    ELSE IF \E r \in Selected(rel) : r.status = "running" THEN "waiting"
    ELSE IF \A r \in Selected(rel) : r.status = "success" THEN "ready"
    ELSE "failed"
Evaluate(rel) ==
    IF {r.flow : r \in Selected(rel)} # Flow THEN "waiting"
    ELSE IF \E r \in Selected(rel) : r.status = "running" THEN "waiting"
    ELSE IF \A r \in Selected(rel) : r.status = "success" THEN "ready"
    ELSE "failed"

\* Runs that are not complete are polled for a while; then the first gate leaves
\* the release to the next event, and the final one, which requires it, fails.
Waits == IF job.final THEN 1 ELSE PollAttempts
GateRuns ==
    /\ At("runs")
    /\ LET verdict == Evaluate(job.rel)
       IN  \/ verdict = "ready"   /\ Go([job EXCEPT !.phase = "tag", !.polls = 0])
           \/ verdict = "failed"  /\ Fail
           \/ verdict = "waiting" /\ IF job.polls + 1 < Waits
                                     THEN Go([job EXCEPT !.polls = @ + 1])
                                     ELSE IF job.final THEN Fail ELSE Finish
    /\ GateKeeps

\* The tag is still at the commit the runs were for.
GateTag ==
    /\ At("tag")
    /\ IF tagAt[job.rel.version] = job.rel.sha
       THEN Go([job EXCEPT !.phase = "release"]) ELSE Fail
    /\ GateKeeps

GateRelease ==
    /\ At("release")
    /\ IF public[job.rel.version] # "public" THEN Fail
       ELSE Go([job EXCEPT !.phase = IF job.final THEN "push" ELSE "clone"])
    /\ GateKeeps

-----------------------------------------------------------------------------
(* Installing and pushing *)

\* The wiki is cloned, the bundle installed in the clone, and the gate is next.
Install ==
    /\ At("clone")
    /\ LET b == Bundle(job.rel)
       IN  IF Refused(b, job.rel, wiki) \/ OtherCommit(b, wiki) THEN Fail
           ELSE Go([job EXCEPT !.final = TRUE, !.base = wiki, !.baseEdits = edits,
                               !.local = Installed(b, wiki, job.force),
                               !.phase = FirstPhase(job.event)])
    /\ GateKeeps

\* Without a difference there is nothing to push; a push onto commits that are
\* not in the clone is rejected.
Push ==
    /\ At("push") \/ At("repush")
    /\ IF job.local = job.base \/ edits = job.baseEdits
       THEN /\ wiki' = IF job.local = job.base THEN wiki ELSE job.local
            /\ Finish
       ELSE /\ IF At("push") THEN Go([job EXCEPT !.phase = "rebase"]) ELSE Fail
            /\ UNCHANGED wiki
    /\ UNCHANGED <<github, edits, left>>

\* The push reports an error, whether it reached the wiki or not.
PushBreaks ==
    /\ Disturb
    /\ At("push") /\ job.local # job.base /\ edits = job.baseEdits
    /\ \/ UNCHANGED wiki /\ Go([job EXCEPT !.phase = "rebase"])
       \/ wiki' = job.local /\ Go([job EXCEPT !.phase = "rebase", !.base = job.local])
    /\ UNCHANGED <<github, edits>>

\* What the job changed is put on top of what people changed in the meantime.
\* Edits of one page of text may fall in different places and merge.
Mergeable(base, ours, theirs) ==
    base.by = "generator" /\ ours.by = "generator" /\ theirs.by = "both"
Conflict(p) ==
    /\ job.local.pages[p] # job.base.pages[p] /\ wiki.pages[p] # job.base.pages[p]
    /\ wiki.pages[p] # job.local.pages[p]
MergedPage(p) ==
    IF job.local.pages[p] = job.base.pages[p] THEN wiki.pages[p]
    ELSE IF Conflict(p) THEN Mixed(job.local.pages[p].rel)
    ELSE job.local.pages[p]

Rebase ==
    /\ At("rebase")
    /\ \/ /\ \A p \in Page : Conflict(p) =>
                Mergeable(job.base.pages[p], job.local.pages[p], wiki.pages[p])
          /\ \/ job.local.manifest = job.base.manifest
             \/ wiki.manifest = job.base.manifest
          /\ Go([job EXCEPT !.phase = "repush", !.base = wiki, !.baseEdits = edits,
                   !.local = [pages |-> [p \in Page |-> MergedPage(p)],
                              manifest |-> IF job.local.manifest = job.base.manifest
                                           THEN wiki.manifest ELSE job.local.manifest]])
       \/ /\ (\E p \in Page : Conflict(p)) \/ ( /\ job.local.manifest # job.base.manifest
                                                /\ wiki.manifest # job.base.manifest )
          /\ Fail
    /\ GateKeeps

\* A request to GitHub fails, or the machine is lost.
JobDies ==
    /\ Disturb
    /\ job # Idle /\ Fail
    /\ UNCHANGED <<github, wiki, edits>>

-----------------------------------------------------------------------------
(* Specification *)

JobStep == Ignore \/ Resolve \/ GateRuns \/ GateTag \/ GateRelease
           \/ Install \/ Push \/ Rebase
RunEnds == \E r \in runs : \E st \in {"success", "failure"} : Complete(r, st)
People  ==
    \/ \E m \in ManifestEdits(wiki) : EditManifest(m)
    \/ \E p \in Page :
          \E c \in {Absent, Hand} \cup {Gen(wiki.pages[p].rel), Mixed(wiki.pages[p].rel)} :
             \E entered \in BOOLEAN : EditPage(p, c, entered)

Step ==
    \/ JobStep \/ RunEnds \/ People
    \/ \E v \in Version, s \in Sha : PushTag(v, s)
    \/ \E r \in runs : Rerun(r)
    \/ BranchRun
    \/ \E v \in Version, force \in BOOLEAN : Dispatch(v, force)
    \/ \E v \in Version : Withdraw(v)
    \/ PushBreaks \/ JobDies

\* What holds of a release now: no newer run of it failed or is under way, its
\* tag is at its commit, the GitHub Release is public.
Succeeded(r) ==
    \A f \in Flow : \E q \in runs :
        /\ q.rel = r /\ q.flow = f /\ q.status = "success"
        /\ \A o \in runs : (o.rel = r /\ o.flow = f) =>
              (o.id < q.id \/ (o.id = q.id /\ o.attempt <= q.attempt))
Facts(r) ==
    {f \in {"succeeded", "tagged", "public"} :
        \/ f = "succeeded" /\ Succeeded(r)
        \/ f = "tagged" /\ tagAt[r.version] = r.sha
        \/ f = "public" /\ public[r.version] = "public"}
AllFacts == {"succeeded", "tagged", "public"}

Remember ==
    seen' = IF job'.final THEN (IF job.final THEN seen ELSE {}) \cup Facts(job.rel)'
            ELSE {}

Next == Step /\ Remember

\* GitHub runs what it has started: while the job or a run of a workflow can go on, one of
\* them does.  (Each of their steps changes the job, the waiting event or a run.)
Spec == Init /\ [][Next]_vars /\ WF_<<job, pending, runs>>(JobStep \/ RunEnds)

-----------------------------------------------------------------------------
(* Properties *)

\* What the wiki shows was released: since the clone of the job that pushed it,
\* the newest runs of both workflows had succeeded for its commit, its tag was at
\* that commit and its GitHub Release was public.
PublishedWasGated ==
    [][edits' = edits /\ wiki'.manifest.rel # wiki.manifest.rel => seen = AllFacts]_vars

\* No job takes the wiki back to an older release unless an operator forces it, nor
\* to another commit of the release it shows.
NeverDowngraded ==
    [][edits' = edits /\ wiki'.manifest.rel # wiki.manifest.rel =>
          \/ wiki'.manifest.rel.version > wiki.manifest.rel.version
          \/ /\ job.force
             /\ wiki'.manifest.rel.version # wiki.manifest.rel.version]_vars

\* Whatever a person wrote, on a page of their own or into a generated one, is
\* still there after the push of a job; but a generated page they changed is the
\* generator's again once its new digest is entered in the manifest.
Entered(w, p) == p \in Owned(w) /\ w.manifest.files[p] = w.pages[p]
PeoplesTextKept ==
    [][edits' = edits =>
          \A p \in Page : wiki.pages[p].by \in {"hand", "both"} =>
              \/ wiki'.pages[p].by = wiki.pages[p].by
              \/ wiki.pages[p].by = "both" /\ Entered(wiki, p)]_vars

\* No push of a job leaves a generated page that the manifest does not list, and that a
\* later installation would take for somebody's own, unless a person has struck it out.
Orphans(w) == {p \in Page : w.pages[p].by \in {"generator", "both"} /\ p \notin Owned(w)}
NoOrphans == [][edits' = edits => Orphans(wiki') \subseteq Orphans(wiki)]_vars

\* A generated page on the wiki is of a release whose bindings call the library as its
\* header says; and that is so whatever the types, for where the shapes of a type and of
\* what a binding declares agree, a call passes what is expected (generate.py 236-338,
\* 437-451).
AbiDriftFound ==
    /\ \A p \in Page : wiki.pages[p].by \in {"generator", "both"} =>
          BindingsCall(Abi[wiki.pages[p].rel.sha])
    /\ ShapesSpeak

\* A release whose runs have succeeded for good reaches the wiki, or a newer one
\* does, unless the last event about it failed or was displaced.
Settled(r) == Facts(r) = AllFacts
Tagged(v) == Release(v, tagAt[v])
Shows(v) == \E p \in Owned(wiki) : wiki.pages[p].rel.version >= v
ReleaseReachesWiki ==
    \A v \in Version :
        <>[]Settled(Tagged(v)) => <>Shows(v) \/ <>[](Tagged(v) \in givenUp)
=============================================================================
