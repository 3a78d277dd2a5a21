------------------------------ MODULE Pipeline ------------------------------
(* The publication pipeline of .github/workflows: runs of the nightly, the   *)
(* stable and the lock-regeneration workflow queue for one concurrency group *)
(* per dispatched slot, publish their source mirror and their runtime image  *)
(* under dated tags, float tags onto them, prune what is old, and release.   *)
(* A run may turn red in any step and be run again, from the start or only   *)
(* its failed jobs, when other runs have published and pruned in between.    *)
EXTENDS Integers, FiniteSets

CONSTANTS
    Run,            \* workflow runs, by number
    Slot,           \* (env_name, fork_url, fork_branch) as dispatched
    Env,            \* environment names, which all tags carry
    IdentOf,        \* IdentOf[s]: the name that the preamble derives for s
    Fork,           \* the environments of forks
    Workflows,      \* which workflows an instance dispatches
    KeepMirrors,    \* versions of the source mirror kept per environment
    KeepImages,     \* versions of the runtime image kept per environment
    KeepReleases,   \* stable releases kept per environment
    MaxDay, MaxAttempt, MaxRetried,     \* bounds of an instance
    NoId

ASSUME PipelineAssumption ==
    /\ Run \subseteq Nat /\ Slot # {}
    /\ IdentOf \in [Slot -> Env]
    /\ Fork \subseteq Env
    /\ Workflows \subseteq {"nightly", "stable", "regen"}
    /\ {KeepMirrors, KeepImages, KeepReleases} \subseteq Nat \ {0}
    /\ {MaxDay, MaxAttempt, MaxRetried} \subseteq Nat \ {0}
    /\ NoId \notin Run \X (1 .. MaxAttempt)

VARIABLES
    run,        \* run[r]: the record of a workflow run
    inputs,     \* the versions of the package hpc-cf-inputs
    images,     \* the versions of the image packages
    releases,   \* GitHub releases: environment, and day or 0 for the rolling one
    today,
    \* history
    green,      \* the image that the last run to float -release had shipped
    since       \* image versions newer than it at that time and pushed since

vars == <<run, inputs, images, releases, today, green, since>>
packages == <<inputs, images>>
history == <<green, since>>

-----------------------------------------------------------------------------
Prepare == {"prepare", "tidyMirrors"}
Runtime == {"runtime", "tidyImages"}
Sif == {"sif", "attach", "verify", "tidyReleases"}
Step == Prepare \cup {"binaries"} \cup Runtime \cup Sif
Job == {"prepare", "binaries", "runtime", "sif"}

(* The job that a step belongs to; jobs are named for their first step. *)
JobOf(at) == CASE at \in Prepare -> "prepare"
               [] at = "binaries" -> "binaries"
               [] at \in Runtime -> "runtime"
               [] OTHER -> "sif"

Id == Run \X (1 .. MaxAttempt)
Tag == [env : Env, track : {"mirror", "nightly", "stable", "release"},
        day : 0 .. MaxDay]
Version == [id : Id, seq : Nat, tags : SUBSET Tag]
Record == [wf : {"nightly", "stable", "regen"}, slot : Slot,
           day : 0 .. MaxDay, attempt : 1 .. MaxAttempt,
           from : Job, at : {"idle", "queued", "ended"} \cup Step,
           verdict : {"none", "green", "red", "cancelled"},
           mirror : Id \cup {NoId}, image : Id \cup {NoId}, got : Id \cup {NoId}]

EnvOf(r) == IdentOf[run[r].slot]
Channel(r) == IF run[r].wf = "stable" THEN "stable" ELSE "nightly"
Dated(r, track) == [env |-> EnvOf(r), track |-> track, day |-> run[r].day]
Float(e, track) == [env |-> e, track |-> track, day |-> 0]
MirrorTag(r) == Dated(r, "mirror")
ImageTag(r) == Dated(r, Channel(r))

-----------------------------------------------------------------------------
(* Registry operations. *)

Named(pkg, tag) == {v \in pkg : tag \in v.tags}
Stored(pkg, id) == {v \in pkg : v.id = id}

(* A tag names one version: naming another takes it away from the first. *)
Retag(pkg, tag, id) ==
    {[v EXCEPT !.tags = IF v.id = id THEN @ \cup {tag} ELSE @ \ {tag}] : v \in pkg}

(* A push of content that the registry has already stored only moves the tag. *)
Push(pkg, tag, id) ==
    LET new == [id |-> id, seq |-> Cardinality(pkg) + 1, tags |-> {}]
    IN Retag(IF Stored(pkg, id) = {} THEN pkg \cup {new} ELSE pkg, tag, id)

(* Versions are numbered in the order they were created. *)
Delete(pkg, gone) ==
    {[v EXCEPT !.seq = @ - Cardinality({w \in gone : w.seq < v.seq})] : v \in pkg \ gone}

(* ghcr_prune_versions.sh: of the versions with a tag of this environment,   *)
(* the newest n stay, and whatever carries the tag of the current run.       *)

(* Mutant: a budget for the whole package. *)
PackageWide(pkg, e) == {v \in pkg : v.tags # {}}
Matching(pkg, e) == {v \in pkg : \E t \in v.tags : t.env = e}
Newer(pkg, e, v) == {w \in Matching(pkg, e) : w.seq > v.seq}
(* Mutants: the version of the current run counts like the others; one       *)
(* version too few is kept.                                                  *)
OwnToo(pkg, e, keepTag, n) ==
    {v \in Matching(pkg, e) : Cardinality(Newer(pkg, e, v)) >= n}
OneTooFew(pkg, e, keepTag, n) ==
    {v \in Matching(pkg, e) : keepTag \notin v.tags /\ Cardinality(Newer(pkg, e, v)) >= n - 1}
Doomed(pkg, e, keepTag, n) ==
    {v \in Matching(pkg, e) : keepTag \notin v.tags /\ Cardinality(Newer(pkg, e, v)) >= n}

-----------------------------------------------------------------------------
(* Runs and their concurrency group. *)

Idle == [wf |-> "nightly", slot |-> CHOOSE s \in Slot : TRUE, day |-> 0,
         attempt |-> 1, from |-> "prepare", at |-> "idle", verdict |-> "none",
         mirror |-> NoId, image |-> NoId, got |-> NoId]

Init ==
    /\ run = [r \in Run |-> Idle]
    /\ inputs = {} /\ images = {} /\ releases = {}
    /\ today = 1
    /\ green = [e \in Env |-> NoId] /\ since = [e \in Env |-> 0]

(* Bounds of an instance on repeated runs. Mutant: one more. *)
OnceMore(r) ==
    /\ run[r].attempt <= MaxAttempt
    /\ Cardinality({q \in Run \ {r} : run[q].attempt > 1}) < MaxRetried
MayRerun(r) ==
    /\ run[r].attempt < MaxAttempt
    /\ Cardinality({q \in Run \ {r} : run[q].attempt > 1}) < MaxRetried

(* Mutant: who waits for the group counts as holding it. *)
WaitsOrHolds(r) == run[r].at \in {"queued"} \cup Step
Holds(r) == run[r].at \in Step

(* Nothing is looked at again of a run that cannot be run again. *)
Over(r, verdict) ==
    [Idle EXCEPT !.at = "ended", !.verdict = verdict, !.attempt = run[r].attempt]

(* The step fails; what follows it in the job, but for `always()`, is skipped. *)
Failed(r, at) ==
    IF at = "ended" /\ ~MayRerun(r) THEN Over(r, "red")
    ELSE [run[r] EXCEPT !.at = at, !.verdict = "red", !.from = JobOf(run[r].at), !.got = NoId]

(* A run that joins the queue of its group replaces the one that waits there. *)
Joined(r, rec) ==
    [q \in Run |->
        CASE q = r -> [rec EXCEPT !.at = "queued"]
          [] q # r /\ run[q].at = "queued" /\ run[q].slot = rec.slot ->
                Over(q, "cancelled")
          [] OTHER -> run[q]]

Set(r, rec) == run' = [run EXCEPT ![r] = rec]
To(r, at) == Set(r, [run[r] EXCEPT !.at = at])

(* Runs are numbered as they are dispatched; forks have nightly builds only. *)
Dispatch(r, wf, s) ==
    /\ run[r].at = "idle"
    /\ \A q \in Run : q < r => run[q].at # "idle"
    /\ wf # "nightly" => IdentOf[s] \notin Fork
    /\ run' = Joined(r, [run[r] EXCEPT !.wf = wf, !.slot = s])
    /\ UNCHANGED <<packages, releases, today, history>>

(* The date is stamped when `prepare` begins and travels with the run. *)
Enter(r) ==
    /\ run[r].at = "queued"
    /\ \A q \in Run : Holds(q) => run[q].slot # run[r].slot
    /\ Set(r, [run[r] EXCEPT !.at = run[r].from,
                             !.day = IF run[r].from = "prepare" THEN today ELSE @])
    /\ UNCHANGED <<packages, releases, today, history>>

-----------------------------------------------------------------------------
(* The job `prepare`. *)

(* The tree is new, or still the one that the job was seeded with; the dated  *)
(* tag is pushed before the floating one.                                     *)
PublishMirror(r, id, floated) ==
    LET float == Float(EnvOf(r), "mirror")
        dated == Push(inputs, MirrorTag(r), id)
    IN
    /\ run[r].at = "prepare"
    /\ id \in {<<r, run[r].attempt>>} \cup {v.id : v \in Named(inputs, float)}
    /\ inputs' = IF floated THEN Retag(dated, float, id) ELSE dated
    /\ Set(r, IF floated THEN [run[r] EXCEPT !.at = "tidyMirrors", !.mirror = id]
                         ELSE Failed(r, "ended"))
    /\ UNCHANGED <<images, releases, today, history>>

(* Deletions are best effort: any of them may fail. *)
TidyMirrors(r, gone) ==
    /\ run[r].at = "tidyMirrors"
    /\ gone \subseteq Doomed(inputs, EnvOf(r), MirrorTag(r), KeepMirrors)
    /\ inputs' = Delete(inputs, gone)
    /\ IF run[r].wf = "regen" THEN Set(r, Over(r, "green")) ELSE To(r, "binaries")
    /\ UNCHANGED <<images, releases, today, history>>

-----------------------------------------------------------------------------
(* The jobs `binaries` and `runtime`. *)

(* Restores the mirror by its dated tag, installs, pushes to the buildcache. *)
Produce(r) ==
    /\ run[r].at = "binaries"
    /\ Named(inputs, MirrorTag(r)) # {}
    /\ To(r, "runtime")
    /\ UNCHANGED <<packages, releases, today, history>>

(* The nightly track also moves its floating tag, by a second push. *)
PushImage(r, floated) ==
    LET id == <<r, run[r].attempt>>
        dated == Push(images, ImageTag(r), id)
        e == EnvOf(r)
    IN
    /\ run[r].at = "runtime"
    /\ images' = IF floated /\ Channel(r) = "nightly"
                 THEN Retag(dated, Float(e, "nightly"), id) ELSE dated
    /\ Set(r, IF floated \/ Channel(r) = "stable"
              THEN [run[r] EXCEPT !.image = id, !.at = "tidyImages"]
              ELSE Failed(r, "ended"))
    /\ since' = [since EXCEPT ![e] = IF green[e] = NoId \/ @ >= KeepImages THEN @ ELSE @ + 1]
    /\ UNCHANGED <<inputs, releases, today, green>>

(* Forks keep the version of the current run only. *)
TidyImages(r, gone) ==
    /\ run[r].at = "tidyImages"
    /\ gone \subseteq Doomed(images, EnvOf(r), ImageTag(r),
                             IF EnvOf(r) \in Fork THEN 0 ELSE KeepImages)
    /\ images' = Delete(images, gone)
    /\ To(r, "sif")
    /\ UNCHANGED <<inputs, releases, today, history>>

-----------------------------------------------------------------------------
(* The job `sif`. *)

PullImage(r) ==
    /\ run[r].at = "sif"
    /\ \E v \in Named(images, ImageTag(r)) :
        Set(r, [run[r] EXCEPT !.at = "attach", !.got = v.id])
    /\ UNCHANGED <<packages, releases, today, history>>

ReleaseOf(r) == [env |-> EnvOf(r), day |-> IF Channel(r) = "stable" THEN run[r].day ELSE 0]

(* The release may exist and the upload of its assets fail. *)
Attach(r, uploaded) ==
    /\ run[r].at = "attach"
    /\ releases' = releases \cup {ReleaseOf(r)}
    /\ Set(r, IF uploaded THEN [run[r] EXCEPT !.at = "verify"] ELSE Failed(r, "tidyReleases"))
    /\ UNCHANGED <<packages, today, history>>

FloatRelease(r) ==
    LET e == EnvOf(r)  id == run[r].got IN
    /\ run[r].at = "verify"
    /\ images' = Push(images, Float(e, "release"), id)
    /\ green' = [green EXCEPT ![e] = id]
    /\ since' = [since EXCEPT ![e] =
            IF Stored(images, id) = {} THEN 0
            ELSE Cardinality(UNION {Newer(images, e, v) : v \in Stored(images, id)})]
    /\ Set(r, [run[r] EXCEPT !.at = "tidyReleases", !.got = NoId])
    /\ UNCHANGED <<inputs, releases, today>>

(* Mutant: one release too few is kept. *)
OneTooMany(e) ==
    {x \in releases :
        /\ x.env = e /\ x.day # 0
        /\ Cardinality({y \in releases : y.env = e /\ y.day > x.day}) >= KeepReleases - 1}
OldReleases(e) ==
    {x \in releases :
        /\ x.env = e /\ x.day # 0
        /\ Cardinality({y \in releases : y.env = e /\ y.day > x.day}) >= KeepReleases}

(* Runs also when the job has failed (`always()`). *)
TidyReleases(r, gone) ==
    /\ run[r].at = "tidyReleases"
    /\ gone \subseteq (IF Channel(r) = "stable" THEN OldReleases(EnvOf(r)) ELSE {})
    /\ releases' = releases \ gone
    /\ Set(r, IF run[r].verdict # "red" THEN Over(r, "green")
              ELSE IF MayRerun(r) THEN [run[r] EXCEPT !.at = "ended"]
              ELSE Over(r, "red"))
    /\ UNCHANGED <<packages, today, history>>

-----------------------------------------------------------------------------
(* Failures, retries, and the world outside. *)

Red(r, at) ==
    /\ Set(r, Failed(r, at))
    /\ UNCHANGED <<packages, releases, today, history>>

(* The tag to restore or to pull is gone. *)
Refused(r) ==
    \/ /\ run[r].at = "binaries"
       /\ Named(inputs, MirrorTag(r)) = {}
       /\ Red(r, "ended")
    \/ /\ run[r].at = "sif" /\ Named(images, ImageTag(r)) = {}
       /\ Red(r, "tidyReleases")

(* Anything may fail at any time: a fetch, a timeout, a lost runner. *)
Fail(r) ==
    /\ Holds(r)
    /\ run[r].at # "tidyReleases"
    /\ Red(r, IF run[r].at \in Sif THEN "tidyReleases" ELSE "ended")

(* "Re-run failed jobs" or "Re-run all jobs" by an operator, or the automatic *)
(* retry, which is one of the latter. A green or a cancelled run that is run   *)
(* again takes the steps of one that is dispatched.                           *)
Rerun(r, from) ==
    /\ run[r].at = "ended" /\ run[r].verdict = "red"
    /\ MayRerun(r)
    /\ from \in {run[r].from, "prepare"}
    /\ run' = Joined(r, [(IF from = "prepare" THEN [run[r] EXCEPT !.mirror = NoId, !.image = NoId] ELSE run[r])
                         EXCEPT !.from = from, !.attempt = @ + 1, !.verdict = "none"])
    /\ UNCHANGED <<packages, releases, today, history>>

NextDay ==
    /\ today < MaxDay
    /\ today' = today + 1
    /\ UNCHANGED <<run, packages, releases, history>>

Advance(r) ==
    \/ Enter(r)
    \/ \E id \in Id, floated \in BOOLEAN : PublishMirror(r, id, floated)
    \/ \E gone \in SUBSET inputs : TidyMirrors(r, gone)
    \/ Produce(r) \/ (\E floated \in BOOLEAN : PushImage(r, floated))
    \/ \E gone \in SUBSET images : TidyImages(r, gone)
    \/ PullImage(r) \/ FloatRelease(r)
    \/ \E uploaded \in BOOLEAN : Attach(r, uploaded)
    \/ \E gone \in SUBSET releases : TidyReleases(r, gone)
    \/ Refused(r)

Next ==
    \/ \E r \in Run :
        \/ \E wf \in Workflows, s \in Slot : Dispatch(r, wf, s)
        \/ Advance(r) \/ Fail(r)
        \/ \E from \in Job : Rerun(r, from)
    \/ NextDay

PipelineSpec == Init /\ [][Next]_vars
FairSpec == PipelineSpec /\ \A r \in Run : WF_vars(Advance(r))
-----------------------------------------------------------------------------
(* Properties. *)

TypeOK ==
    /\ run \in [Run -> Record]
    /\ inputs \subseteq Version /\ images \subseteq Version
    /\ releases \subseteq [env : Env, day : 0 .. MaxDay]
    /\ today \in 1 .. MaxDay
    /\ green \in [Env -> Id \cup {NoId}] /\ since \in [Env -> Nat]

(* No other slot has the environment of r. *)
Alone(r) == \A s \in Slot : IdentOf[s] = EnvOf(r) => s = run[r].slot

(* In an attempt that prepares its own mirror, the dated tag names that      *)
(* mirror until the run is over: no run of another environment, no prune and *)
(* no run of the same environment takes it away before `binaries` has        *)
(* restored it.                                                              *)
OwnMirror ==
    \A r \in Run :
        /\ Holds(r) /\ run[r].at # "prepare" /\ run[r].from = "prepare" /\ Alone(r)
        => \E v \in Named(inputs, MirrorTag(r)) : v.id = run[r].mirror

(* The image that `sif` converts and floats -release onto is the one that    *)
(* `runtime` pushed in the same attempt.                                     *)
OwnImage ==
    \A r \in Run :
        /\ run[r].at \in {"tidyImages"} \cup Sif
        /\ run[r].from # "sif" /\ Alone(r)
        => \E v \in Named(images, ImageTag(r)) : v.id = run[r].image

(* One slot at most has the environment e. *)
Unshared(e) == \A s, t \in Slot : IdentOf[s] = e /\ IdentOf[t] = e => s = t

(* -release names the last image that was verified end to end, as long as    *)
(* fewer newer images of that environment were pushed than its budget keeps. *)
(* Of a fork that is one image, the group of its slot keeping others away.   *)
GreenInBudget ==
    \A e \in Env :
        /\ green[e] # NoId
        /\ IF e \in Fork THEN Unshared(e) /\ since[e] < 1 ELSE since[e] < KeepImages
        => \E v \in Named(images, Float(e, "release")) : v.id = green[e]

(* An environment with a verified image has a release to download, whatever  *)
(* was pruned: assets are attached before the tag floats, and the prune of   *)
(* stable releases never takes the last one.                                 *)
GreenReleased == \A e \in Env : green[e] # NoId => \E x \in releases : x.env = e

(* Whatever fails or joins the queue, a run that was dispatched ends: the    *)
(* group passes on from run to run.                                          *)
EveryRunEnds == \A r \in Run : []<>(run[r].at \in {"idle", "ended"})

(* What nightly-cp2k.yml and the pipeline say of -release: red runs do not   *)
(* take the pointer to the last verified image away. Violated by the code.   *)
ReleaseKeepsGreen ==
    \A e \in Env :
        green[e] # NoId => \E v \in Named(images, Float(e, "release")) : v.id = green[e]
=============================================================================
