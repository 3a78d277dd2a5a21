# HPC-Container-Factory: formal models

TLA+ models of the parts of `hpc_cf` in which several invocations, crashes or
stale readings meet: TLC checks them on small instances, and TLAPS proves the
properties that matter most for every instance.

## The system

`hpc_cf` is a Python command line that builds HPC container images with Spack.
Nothing runs as a daemon. Each invocation is a sequential process, and
invocations meet through files under `assets/` and `artifacts/`, two `flock`
files, the container engine's images and containers, and the environment
directories under `spack-envs/`.

| Component | State it keeps | Operations |
|---|---|---|
| Buildcache producers (`buildcache_workflow.py`, `buildcache.py`, `buildcache_ops.py`) | packages and index in `assets/spack-buildcache` or a registry, temporary and stable producer images, run directories | `buildcache build`, `resume`, `verify`, `status` |
| Buildcache consumers (`workflows.py`, `buildcache.py`) | the rendered Dockerfile, the images built | `build --buildcache auto|only|never` |
| Buildcache sidecar (`execution.py`) | `buildcache.lock`, `health.json`, `coverage/<lock sha>.json` | publisher and consumer lock, `mark_healthy`, `mark_unhealthy`, coverage records |
| Source mirror (`assets.py`, `spack_ops.py`, `execution.py`) | `assets/spack-mirror`, `mirror.lock`, run manifests (30 kept) | `assets --mirror`, `--verify`, `--prune-mirror-*`, `--bootstrap`, concretize |
| Prune plan (`mirror_prune.py`) | none: a function of the mirror tree and the fetch specs of a verified run | plan, apply |
| Lock provenance (`pin.py`, `env_set_version.py`, `lock_manifest.py`, `repo_pins.py`) | `env.yaml`, `spack.yaml`, `spack.lock`, the manifest of the lock's inputs, the resolved-repos sidecar | `env pin set`, `env set-version`, concretize, the build-input gate |
| SIF export (`sif.py`) | OCI archives, a sidecar with the image Id, SIF files | `build-sif` |
| Worker container (`container.py`) | one named container per engine, with labels | ensure the image, create, exec, destroy |
| Storage GC (`storage_gc.py`) | none | look for builds, then remove working containers and tags |
| Schema, validation, templates, command line | none | parse, check, render |
| Publication pipeline (`.github/workflows`, `scripts/`) | versions and tags of two registry packages, GitHub releases, concurrency groups, run attempts | nightly, stable and lock runs; automatic retry; pruning of versions and releases |

How they interact: producers and consumers share the buildcache lock (shared
for stage builds and consumers, exclusive for publication) and inside it take
the mirror lock shared; mirror, verify and prune runs take the mirror lock
exclusively. Consumers trust what producers recorded in `health.json` and the
coverage records. A producer is let in by the manifest of a verified mirror run.
Every command reads `spack.lock` directly, and concretization replaces it
under the mirror lock only. Exports, sessions and collections take no lock at all:
they meet in the container engine and in `artifacts/`. Runs of the pipeline meet in
the registry; runs of one dispatched slot wait for each other in a concurrency group.

What is hard about it: the lock is released and taken again between a stage
build and its publication; three records (packages and index, coverage, health)
are written one after the other and any step may fail or be killed; the lock
file is read three times in one run; one Dockerfile, one health file and one
worker container are shared by all environments; coverage is keyed by lock SHA
while images are named by environment and backends differ; containers, references
and archives have fixed names, and are looked at before they are acted on; a
pipeline run that is repeated finds what others have published and pruned
meanwhile. What each component
must get right is listed in `PROJECT.json` under `hazards`, each at its line.

## Modules

| Module | What it is |
|---|---|
| `Buildcache` | producers, consumers, the store and its lock |
| `Admission` | what consumers may rely on, as an abstract machine; `Buildcache` implements it |
| `MCBuildcache` | instances of `Buildcache` for TLC |
| `Buildcache_proofs` | types, the lock, readers, health: theorems for every instance |
| `BuildcacheStore_proofs` | availability of what is recorded, and the refinement |
| `BuildcacheUse_proofs` | what an `only` build is admitted on, and the image that `resume` needs |
| `Mirror` | the source mirror: mirror, verify and prune stages, the gate of producers, the readers |
| `MCMirror` | instances of `Mirror` for TLC |
| `Mirror_proofs` | types, readers, what the manifests vouch for, the latest run |
| `MirrorPrune` | which files a prune removes, over histories of runs |
| `MCMirrorPrune` | instances of `MirrorPrune` for TLC |
| `MirrorPrune_proofs` | types, what a plan may contain, what its application leaves |
| `LockProvenance` | what a lock was concretized against, and how builds find out; the commands that edit its inputs |
| `MCLockProvenance` | instances of `LockProvenance` for TLC |
| `LockProvenance_proofs` | types, the manifest and its lock, the commands |
| `Engine` | invocations that share one container engine: builds, exports, collections, sessions in the worker |
| `MCEngine` | an instance of `Engine` for TLC |
| `Engine_proofs` | types, the archive and its sidecar, the worker, what a collection removes |
| `Pipeline` | the publication pipeline: runs, their group, tags, prunes, releases |
| `MCPipeline` | instances of `Pipeline` for TLC |
| `Pipeline_proofs` | packages under pushes and prunes; types, dated tags, -release, releases |

### Buildcache

A process is one invocation. `pc` is its place in `BuildcacheService.run` or
`BuildService.run`; `job` its command, environment and backend; `lock`, `img`,
`target` and `policy` are the Python locals that live across steps: the lock
SHA of the preflight, the producer image, the SHA that the coverage record is
about to be named by, and the effective policy.

| Variable | In the code |
|---|---|
| `hostLock` | `spack.lock` of each environment; a lock is its SHA-256 |
| `dockerfile` | `project_root/Dockerfile`: environment, producer or consumer, backend |
| `ex`, `sh` | holders of `flock` on `buildcache.lock` |
| `storeDir`, `store`, `index` | `assets/spack-buildcache`, the packages in it and in the registry, its index |
| `temp`, `stable`, `image` | temporary tags, `{tag}-buildcache-producer`, and what each image holds |
| `coverage`, `health` | `coverage/<sha>.json`, `health.json` |

A producer goes `Start`, `RenderProducer` (or `GateRefused`), `AcquireShared`,
`Stage` or `StageLost`, `AcquireExclusive`, `InspectBuilt`, `Push`,
`UpdateIndex`, `Check`, `Promote`, `Recheck`, `Bind`, `StageCoverage`,
`RenameCoverage`, `MarkHealthy`, `Cleanup`. From `Push` to `MarkHealthy` any
step may fail instead (`StepFails`) and is recorded (`RecordFailure`). `resume`
and `verify` join it in the exclusive section (`InspectRecovery`,
`InspectStable`). A consumer goes `Start`, `AcquireShared`, `ResolvePolicy`,
`RenderConsumer`, for `only` also `Admit`, then `Consume`; a `never` build goes
`Start`, `RenderConsumer`, `Consume` without the lock, and the `dockerfile`
command ends at `RenderOnly`. One action is one
interval in which no other process can see the difference; the steps inside
the exclusive section stay separate because a crash may fall between any two.

The environment may crash a process anywhere (the kernel then drops its
`flock`), replace a lock, remove a temporary tag, or remove the local store;
the constant `Faults` says which of these an instance allows.

What is abstracted: a package is its hash; the Spack version, padding and
environment provenance that a coverage record also carries are functions of the
lock and the environment here; run directories and logs are left out; an image
is identified by the run that built it, because tags are unique to a run.
`spack -e NAME` works in an image that has an environment so named (`EnvName`):
two CP2K environments have the same name, so a check can succeed in an image of
another environment, and the instances keep that case.

### Admission

`avail` only grows, a `record` appears only when all it needs is available from
its backend, and a `claim` of health needs a record. `Buildcache` maps its index
and registry to `avail`, the coverage records to `record`, and health to
`claim`.

### Mirror

A process is one invocation that touches `assets/spack-mirror`. `plan` is what it
was asked for: a sequence of the stages `mirror`, `verify` and `prune` (the
command line's action flags, in their order), `reuse` (`assets prune`, which goes
by fetch specs that an earlier run exported), `build` (a producer, which passes
the gate first) or `image` (a consumer).

| Variable | In the code |
|---|---|
| `hostLock` | `spack.lock` of each environment, or none; a lock is its SHA-256 |
| `ex`, `sh` | holders of `flock` on `mirror.lock` |
| `session` | the Spack environment that exists in the one worker container, and its lock |
| `tree` | the source files in the mirror; a lock pins each by commit or checksum |
| `sidecar` | the lock whose sources `fetch-specs.json` lists; an empty list for none |
| `runs`, `begun` | run directories and their manifests, in the order in which they were begun; `at` is the place of a run's name among all names |
| `pc`, `plan`, `env` | where each invocation is, its remaining stages, its environment |
| `hasLock`, `run` | the Python locals `has_lock` and `run_id` of a stage |

An invocation goes `Start`, `CreateWorker`, and then for each stage `EnterStage`
(what it reads before it takes the lock), `AcquireExclusive` (which begins a run
and removes the directories beyond the last `Keep`), `ImportLock` or else
`Concretize` and `WriteBack`, `MirrorCreate`, `RecordSuccess`; for a prune
`ExportFetchSpecs` and `Prune`. From the acquisition on, any step may fail
(`StageFails`) and leave part of its work; the failure manifest may get written
or not. A producer goes `Gate`, `AcquireShared`, `Read`; a consumer starts at
`AcquireShared`. A process may crash anywhere, with the same partial work and no
manifest.

A run's name carries a timestamp of one second, the environment and random
letters, so that of two runs of one second either may sort first. A run that
succeeds has executed Spack several times in the container; it is assumed to take
longer than a second, so only after a failure may the next run begin in the same
second. `Places` lets a new run sort last, or just before the last one if that did
not succeed, one such pair at a time.

What is abstracted: the bootstrap archive and the status report; the `sources` of
an environment that floats (branches without a commit), which belong to the prune
plan; the buildcache lock, which producers and consumers take first and which no
`assets` command takes, so that the two locks are only ever taken in one order.
`EditLock` replaces a lock between the invocations that work for its environment:
a lock edited by hand under a running command is recorded by the hash it has at
the end; what a lock's own records say of an edited input is the subject of
`LockProvenance`.

### MirrorPrune

`Mirror` takes one lock's sources as a set and lets a prune keep exactly those.
`MirrorPrune` is about how `plan_mirror_prune` finds out what to keep, for the
environments that follow branches without a commit, where only modification times
tell. One invocation runs at a time (the prune holds `mirror.lock`); others only
fill the mirror at the two points where it is free. `Mirror` has the interleaved
prunes.

| Variable | In the code |
|---|---|
| `tree`, `mtime` | the files below `_source-cache` and their modification times |
| `links`, `folders` | the per-package symlinks and their directories |
| `clock` | time, counted in mirror creations |
| `sidecar`, `dag` | `fetch-specs.json` and the specs a run goes by |
| `fresh` | `fresh_after`: `mirror_started`, or infinity in `assets prune` |
| `plan` | what `apply_git_prune_plan` has still to remove |
| `got`, `broken` | history: what this invocation downloaded; whether an application was ever cut short |

A run goes `Start`, `Fill`, `PruneRun` (or `Return` without a prune); `assets prune`
goes `Reuse`, `PruneAgain`. Both plans are applied or only reported. An application
is one action per file, `UnlinkBlob`, `UnlinkLink`, `RemoveFolder`, in the code's three
phases but in any order within one, then `Applied`. A crash may fall anywhere,
and CI may restore the mirror with all times at the epoch. Branches
move: a creation finds each of them at any commit it may have (`Wanted`). A creation
of this run that fails or is killed leaves any part of what it wanted (`FillPartly`),
and so may one of another invocation.

`Keep` is `_keep_set`: the pinned commits of a repository (class A), and for a
floating one what this run fetched or else its newest bundle (class B); a repository
of no spec (class C), and the archives when no spec has a checksum, are kept whole.

What is abstracted: a repository is its directory, so that the normalisation of its
URL is not seen; fetch specs are the blobs they pin and the branches they follow; a
checksum or commit names one blob; the report.

### LockProvenance

`spack.lock` does not say what it was concretized against. The model gives a lock
that as its value: the version in `spack.yaml` and the commit of each repository
whose recipes were cloned. Builds cannot see it; they compare `lock-manifest.json`
with the files. One environment, one run at a time (two are in `Mirror`), and an
operator who works beside it.

| Variable | In the code |
|---|---|
| `text` | `env.yaml`: the commit at each repository, `<name>_repo_commit` variable and comment |
| `version` | the version in `env.yaml` and in `spack.yaml` |
| `lock`, `manifest`, `resolved` | `spack.lock`, `lock-manifest.json`, `resolved-repos.yaml` |
| `tip` | the commit each repository's branch points to upstream |
| `pc`, `run` | where `run_mirror` is; its `has_lock`, the environment it loaded, `resolved_repo_pins`, the worker's session |
| `cmd`, `todo`, `edit` | where the operator's command is, the files it has still to write, what it writes and has read |
| `disturbed`, `sealed`, `cut` | history: inputs changed under the run; the lock's run recorded it undisturbed; a command was ever cut short |

A run goes `Begin`, `PrepareRepos`, `PrepareEnvironment`, without a lock
`Concretize`, then `WriteSidecar`, `WriteManifest`, `End`, and may stop anywhere
(`RunStops`: the mirror creation fails, or a kill). Reading the tips back may fail
silently. `pin set` goes `PinSet`, `WriteFile`, `VerifyPin`; `env set-version` goes
`SetVersion`, a `WriteFile` for each file, `VerifyVersion`, `UnlinkLock`; a
verification that fails goes back by `WriteFile` to `Reverted`, which is where a
`pin set` ends whose commit was typed in upper case, since parsing lowers it. A write
that fails ends the command where it is (`CommandStops`). `EditByHand`,
`DeleteLock` and `Move` (a push upstream) complete what may happen in between.

`Guard` is `check_env_repo_pins` without the checks for single repositories (CP2K,
s8ga) and for Dockerfiles. What else is abstracted: files are written in place but
not torn; a commit that is spelled in upper case is one of the places `Odd`, which
text replacement does not find; the other files that carry a version are like
`spack.yaml`; repositories of the image phase only; `lock_source_commits`; locks
that come by checkout.

### Engine

A process is one invocation, its record `proc[p]` where it is and its Python locals.
Four kinds of invocation meet: a build of an image in three stages, `build-sif`,
`run_storage_gc` and `assets`, the last reduced to its session in the worker
container (`Mirror` has what it does there).

| Variable | In the code |
|---|---|
| `made`, `image`, `mirror` | images by number, which stands for the Id; what each reference names; the mirror-builder image |
| `working` | working containers of builds: running, or left behind by builds that were killed, which counts as one |
| `tar`, `sidecar` | the OCI archive, which export writes it, and the file with the Id beside it |
| `worker` | the one named container: the checkout it mounts and the image Id, as its labels say, and whether it runs |
| `disturbed` | history: whether the archive is one of several hands |

An export goes `Inspect` (the Id behind the reference), `Decide`, `UnlinkTar`,
`UnlinkId`, `BeginSave`, `EndSave`, `WriteId`, `Convert`; every one of these may find
what another invocation has done since the last. Several references whose last path
segment and tag agree share one archive. A collection goes `Scan` (refuses while a
build is active, unless forced), `List`, `Remove`. A session goes `Begin`, `Ensure`,
`Resolve`, then asks the engine three times, whether the worker is there (`Look`), which
labels it has (`Compare`) and whether it runs (`IsRunning`), and goes on by `Destroy`,
`Create`, `Start` and `Finish`. A build goes `Build`, and for each stage `BeginStage` and
`EndStage` or `FailStage`; it begins with the second stage when the Dockerfile has no
`builder-installed`, and its last stage may yield an old image from the cache. `Stop` is a failure or a kill
anywhere; `Tag`, `RemoveTar` and `Rebuild` are what operators do. `engine save` over
an existing file is refused or overwrites it, by the engine.

What is abstracted: building the mirror-builder image is one step; only the parts of
storage GC that look at containers (checkpoint tags and dangling layers are remade by
the next build); SIF files and bundles, which are written by one name and not read
back; ephemeral containers.

### Pipeline

A process is one workflow run. `run[r]` says which workflow and slot it is, the day
stamped on it, its attempt, the job its attempt started from, where it is, and the
mirror and image it published. `IdentOf` is the preamble's derivation of the
environment name from a slot; the concurrency group is the slot, the tags carry the
name.

| Variable | In the code |
|---|---|
| `inputs`, `images` | versions of the package `hpc-cf-inputs` and of the image packages, in the order of their creation, with their tags |
| `releases` | GitHub releases: one rolling, and one per day of a stable build |
| `today` | the date that `prepare` stamps |
| `green`, `since` | history: the image that the last verified run shipped, and how many newer ones there are |

A run is dispatched (`Dispatch`, which replaces a run that waits in the same group),
enters when the group is free (`Enter`), and goes `PublishMirror`, `TidyMirrors`,
`Produce`, `PushImage`, `TidyImages`, `PullImage`, `Attach`, `FloatRelease`,
`TidyReleases`; a run of regen-lock ends after its mirror. Each push may fail between
its dated and its floating tag, each prune may delete any part of what it lists,
`Refused` is a tag that is gone, and `Fail` anything else at any step. `Rerun` is a
repetition of a red run of any workflow from the start, as an operator may ask for and
the automatic retry does once; or an operator's "Re-run failed jobs", which starts at
the job that failed and keeps what its predecessors published. A green run that is
repeated from the start goes through the same steps with a new date, and one that was
cancelled while it waited has done nothing: repeating them is dispatching another run.
`Doomed` is `ghcr_prune_versions.sh`.

What is abstracted: what `hpc_cf` does inside a step; the release branch that
stable-release cuts; artifacts between jobs; the rolling release's assets. A push of
content that the registry has already only moves a tag. A called workflow that
names its caller's group takes it once.

## Runs

| Run | Instance | What it shows |
|---|---|---|
| `buildcache_local` | 3 processes, 2 environments, 2 locks, 2 packages, local backend, crashes; processes symmetric | the invariants of the store, its records and images, and that readers see one store |
| `buildcache_backends` | 2 processes, both backends, crashes, removed tags and store | backends do not mix under one lock hash; admission is live |
| `buildcache_promise` | 2 processes, 1 environment, 2 locks, lock replaced at any time, fair | `Buildcache` implements `Admission`; every started run ends |
| `mirror` | 2 processes, 1 environment without a lock at first, 2 locks that share one of 3 sources, all kinds of plans, crashes, lock replaced, fair | the manifests vouch only for a complete mirror and never by an older success; readers see one mirror; every started invocation ends |
| `mirror_export` | 2 processes, each with `--mirror --prune-mirror-apply` | counterexample: the export is not of its own run |
| `mirror_prune` | 6 blobs (a repository with 3, one with 1, 2 archives), 2 branches of one repository, 3 links, 2 environments, 3 mirror creations, all faults | a prune removes nothing that its specs pin or do not identify, nothing its run fetched, never all of a branch; the links follow |
| `lock` | 3 repositories, two of them in one monorepo, a variable in upper case, a comment, 2 commits, 2 versions, 2 changes, all faults; symmetric | what a lock's manifest vouches for, that fresh locks are accepted, that commands leave files that agree |
| `lock_drift` | the same, files change only between runs | counterexample: an old manifest vouches for a new lock |
| `pipeline` | 2 runs of any workflow, an environment and its fork, 2 days, one run repeated, failures at every step, fair | what a run published is under its tag when its later jobs need it; the verified image keeps its tag within the budget and has a release; every run ends |
| `release_green` | nightly runs of one day | counterexample: a red run of a fork deletes the verified image |
| `engine` | 2 invocations of any command, 1 reference, 2 checkouts, 2 images, all faults; symmetric | exports convert the image they inspected; scripts run in a worker of their own checkout; collections spare running builds |
| `failed_producer_stable` | 1 process | counterexample to what the documentation says (below) |

Bounds. Two processes are enough for a producer against a consumer; the third
lets a producer, a `resume` of what it left and a consumer overlap, which is the
case `RecoveryImageExists` is about. The two locks share one package and one has
another, so that a partial install, a package already published by another
environment and an incomplete index are all different states. The two
environments share their Spack name. There are no counters: every process takes
finitely many steps, so no state constraint is needed. `SYMMETRY` is used only
in runs without liveness properties.

In `mirror` the bounds are `Keep = 2` and `MaxRuns = 4`. A plan holds at most two
stages that begin a run, so two processes never begin a fifth and `MaxRuns` cuts
nothing off; with two directories kept, the third run removes the first, which is
the case in which a verification disappears while a later failure stays. The code
keeps 30.

In `mirror_prune` the bound is `MaxClock = 3` mirror creations. Three are enough for
one run to fill the mirror, another environment to fill it with something else, and
a third to prune what both left, with a restore in between; two branches of one
repository that also has pins make classes A and B meet, and the environments
disagree on which repository the specs name (class C). Both archives' links share a
package directory, which may lose one or both.

In `lock` the bound is `MaxChanges = 2`: two commands, edits, deletions or pushes, with
any number of runs between and beside them. That is what it takes to delete a lock and
move a branch before the next run, or to edit a file and move a pin that follows from
the edit. Both instances start with the monorepo pinned, the third repository floating
and all branches at one commit; the changes lead to the other combinations.

In `pipeline` the code's budgets of 3 mirrors, 7 images and 5 releases become
`KeepMirrors = 1`, `KeepImages = 2` and `KeepReleases = 1`: two runs, one of them
repeated (`MaxAttempt = 2`, `MaxRetried = 1`), push at most three versions, which
exceeds each budget. `MaxDay = 2` makes runs of one day share dated tags and runs of
two days not. The slots are an environment and a fork of it, the case in which two
groups meet in one package. With one slot for each environment `Alone` and `Unshared`
restrict nothing in the run; the theorems are about any assignment of slots.

In `engine` the bound is `MaxImage = 2`: a reference names one image, then another.
Two invocations of any command meet in every pair of steps; after the end or the kill
of one, its process begins again, so that archives, containers and workers of earlier
invocations lie about. The theorems hold for any number.

Fairness. `FairSpec` says that a started process keeps being scheduled
(`WF_vars(Step(p))`), as the operating system does; it does not say that anyone
starts, and faults are never forced. Weak fairness is enough because the number
of invocations is finite; with an endless stream of consumers a publisher may
starve, since `flock` does not order its waiters. The same holds for `Mirror`,
where the lock is polled: its waiters are at `waitExclusive` and `waitShared`,
whose actions are enabled as soon as the lock is free. In `Pipeline` fairness says that
GitHub starts a run whose group is free and executes its jobs to their end, each
run's own `Advance`; that something fails, is dispatched or is repeated is never
forced, and `Enter` stays enabled because only one run waits per group.

### Where the code and the documentation part

* `failed_producer_stable`: promotion comes before the digest recheck, the lock
  binding and the coverage record, so a failed producer can replace the stable
  image.
* `mirror_export`: `run_mirror` looks for `spack.lock` before it takes the mirror
  lock and gives the lock up before the prune takes it again. Two
  `assets --allow-concretize` of an environment without a lock both concretize,
  and when the first one prunes, the fetch specs it exports are those of the
  second one's environment: it removes sources of its own lock.
* `lock_drift`: the lock reaches the host before the mirror is created, the sidecar
  and the manifest after it. When the creation fails, the records of an older lock
  stay, and since the old sidecar also makes the build view, they agree and vouch for
  the new lock. What holds is `LockIsCurrent`, for a lock whose run was not disturbed.
* `release_green`: images are pruned in `runtime`, before `sif` has verified the new
  one. A fork keeps only the current one, so a run that then turns red has deleted the
  version that `-release` named; another environment gets there after seven such runs
  in a row. `GreenInBudget` is what does hold.

Modelling turned up more, for which there is no run, because the models keep the case
out by a hypothesis or abstract from it:

* The lock is hashed again to name the coverage record after it was compared with the
  image's, so a lock replaced in between is recorded as covered. `CoverageExactLock`
  is checked and proved for locks that are not replaced during the run.
* The manifest is made from the files as they are when the run ends, not from those it
  concretized. An edit between the sidecar and the manifest is recorded as what the lock
  was concretized against, unlike what `lock_manifest.py:97-98` says of an empty drift.
  Hence `sealed` in `LockIsCurrent`.
* `env set-version` writes its files (135-136) before the `try` whose handler reverts
  them, though `env_set_version.py:139-140` says that anything failing restores every
  touched file. If a write fails, the files before it keep the new version. Hence `cut`
  in `EnvAgrees`.
* A prune unlinks blobs before links, and a plan lists a link only with the blob that
  it deletes itself. Killed in between, it leaves dangling links that no later prune
  removes, and `verify` refuses a mirror with such a link. Hence the hypothesis
  `~broken` of `LinksFollow`.
* Freshness and age are looked at per repository, not per branch or pin. When a pinned
  commit is fetched in a run, the bundle of a branch of the same repository that has
  not moved is deleted, after the verification, though `mirror_prune.py:19-21` says
  that a branch that does not move never churns.
* All commands render to one Dockerfile and read it later, after waiting for a lock
  that does not cover the write; and nothing ties `fetch-specs.json`, by which
  `assets prune` goes, to the lock that the mirror was last filled for.
* Of two sessions whose labels differ, one may remove the worker that the other has
  just created and is about to use, by a decision it took on the older worker; and
  `exec` goes by the name, so a session's scripts may run in the tree of another
  checkout. Hence `company` in `ExecInOwn`; and `ps --filter name=` matches substrings.
* The sidecar of an archive gets the Id that `inspect` read before `save` (`sif.py:512`,
  531-532), which goes by the reference. A build that ends in between leaves an archive
  under the Id of another image, and later exports reuse it. Hence `disturbed` in
  `ExportIsImage`.
* Storage GC looks for builds once and then removes all working containers
  (`storage_gc.py:113`, 126-133); a build that begins a stage in between loses its
  container, which is not the orphan that line 109 speaks of. A build between two stages,
  or whose engine has an option before `build`, is not seen at all. Hence `late` in
  `RunningBuildKept`.
* A fork's tags are named by owner and branch (`ci_job_preamble.sh:67`), its concurrency
  group by URL and branch. Two repositories of one owner are two groups with the same
  tags, so one run's `sif` may pull and release the image that the other has just pushed,
  though `regen-lock.yml:33` says that fork tags are disjoint. Hence `Alone`, and
  `Unshared` in `GreenInBudget`: of two groups of one fork's environment, each deletes
  the image that the other has just had verified.
* `stable-release.yml:24-25` promises a permanent release that is never pruned;
  `pipeline-cp2k.yml` keeps the newest five of an environment. Its `resolve` job, which
  force-pushes `release/<env>`, is in no concurrency group, unlike what its comment
  says (lines 99-100): a second dispatch moves the head while the first run is about
  to create a release at its own commit.
* The budget for manifests counts manifests and dependency graphs together, so that
  five of them are the files of two or three versions.
* The dated mirror tag is shared by the runs of a day. When a run is repeated from a
  later job, the tag may name the mirror of another run of the same environment; hence
  `run[r].from = "prepare"` in `OwnMirror`.

## Proofs

All theorems are for every value of the constants, every mix of commands, and every
choice of faults except where stated. They assume only what the `ASSUME` of the
module says of its constants (`ConstantsAssumption` in `Buildcache`).

`Buildcache_proofs`:

* `TypeCorrect`. `TypeOK` alone is not inductive: a stage build looks up the lock
  of the environment the Dockerfile names. `TypeInv` adds what the control flow
  knows: a started process has an environment, whoever may build has a rendered
  Dockerfile, and which commands reach which control points.
* `MutexInvariant`. `Mutex` equates holding the `flock` with being at the control
  points of the locked section.
* `ReadersTheorem` (no operator removes the store). From `Mutex`: a step that
  changes the local packages, the index, a stable image or a coverage record is
  taken at a control point that holds the exclusive lock.
* `HealthyHasCoverageTheorem`. `Claims` is the strengthening: between the rename
  and the health write, the record that is about to be named exists already.

`BuildcacheStore_proofs` (no operator removes the store):

* `CoverageIsAvailableTheorem` and `StableIsPublishedTheorem`. Neither property is
  inductive: a record or a tag is written some steps after the check, and
  another process may build an image in between. `Backed` extends them to the
  image of a publisher whose check has passed. It is kept because images do not
  change once they are named (`Settled`, `ImageKept`) and packages never go away
  (`Indexed`, `StoreGrows`): the index is rebuilt from all the packages.
* `PromiseTheorem`: `Buildcache` implements `Admission`, step by step
  (`PromiseStep`), by the same invariants.

`BuildcacheUse_proofs`, what an `only` build is admitted on (no lock is replaced during
the run):

* `CoverageExactLockTheorem`. `Exact` follows the hash from the binding to the
  record. Without the hypothesis it is false (above).
* `OnlyConsumerServedTheorem`, `BackendsDoNotMixTheorem` (also no store removal).
  `Admitted` keeps the record that admitted a build while its shared lock
  excludes publishers; `Backed` and `Exact` give the rest.
* `AdmissionIsLiveTheorem` allows the store to be removed at any time.

`BuildcacheUse_proofs`, the image that `resume` needs (no operator removes temporary
tags):

* `RecoveryImageExistsTheorem`. The danger is the cleanup after a success, which
  runs without the lock. `Kept` says that no two runs work on one image, and that
  the image health.json names is worked on only inside the exclusive section,
  whose end overwrites health.json.

`Mirror_proofs` (every plan, fault and number of kept directories from two on):

* `MirrorInvariant` is inductive: types; `Control`, which environment, plan and
  open run each control point has; `Begun`, that runs are numbered as they begin
  and their names ordered in that range; `Mutex`, the control points that hold
  the `flock`; and `Worked`, what the holder has achieved: after the import or the
  write-back the session's lock is the host's, after `MirrorCreate` its sources are
  in the tree. `TypeCorrect` and `ReadersTheorem` follow.
* `AdmissionTheorem`. The property is about `Vouched`, the gate's reading of the
  manifests. A new run, with the directories it removes, can only make them vouch
  for less (`BeginRunVouches`), because directories go from the front of the order
  (`ExcessIsFront`); a manifest makes them vouch only for its own lock
  (`ManifestVouches`), and by `Worked` only when the sources are there.
* `GateLatestTheorem`. `Sorted` says how far the order of names may differ from
  the order of runs: a run may sort before one that did not succeed, what has been
  removed sorts before what has not, and the last name stays. So no failure that
  followed a success can be removed while the success stays.

`MirrorPrune_proofs` (all repositories, branches, links and fetch specs):

* `PruneInvariant` is the induction. Its core is `Planned`, about what remains of a
  plan: its blobs are identified by the specs and were not downloaded by this
  invocation, every link to them is in the plan too, and so is every link without a
  blob; `FoldersRemovable` says the same of the folders. `Downloaded` says that what a run downloaded
  is there with a time no older than its start, which is why `Fresh` spares it:
  the specs name the blob as a pin, or its repository as floating.
  `FetchedTheorem`, `LinksTheorem`, `FoldersTheorem` and `IdentityTheorem` follow.
* `FloatingTheorem`. `Survived` says of a plan that it leaves each repository of a
  floating branch a bundle; the next plan, made after a cut-short one, leaves one of
  what is left. That a repository has a newest bundle at all needs that the mirror is
  finite (`Finite`: specs list finitely many blobs, `DagsAssumption`) and that the names
  in a directory sort in one order (`NameBeforeAssumption`; they are different file
  names). Instead of an induction over the set, `SurvivorExists` takes a bundle that a
  minimal set of others beats, which exists because strict inclusion of finite sets is
  well founded: were it beaten by one, that one would be beaten by fewer.

`LockProvenance_proofs` (all repositories, variables, comments, commits and versions,
any number of changes, all faults):

* `LockIsCurrentTheorem` and `FreshLockTheorem`. `ProvenanceInv` is the induction.
  `Working` follows what an undisturbed run knows: the pins it loaded are still those
  of the file, each clone is at its pin or at the tip that was read back, and once the
  sidecar is written the build view is what was cloned (`WrittenSidecar`). So the
  manifest is the lock's (`WrittenManifest`), which `Recorded` keeps until the next
  lock is written; a run over an existing lock and all commands leave both alone.
* `EnvAgreesTheorem`. `Kept` says what a command still knows of the files it may have
  to write back: `pin set` never touches versions, `env set-version` never commits, and
  what has been reverted is as it was read.

`Engine_proofs` (any number of invocations, references, checkouts and images, every
mix of commands, all faults):

* `EngineInv` is inductive: types, and that an export and a build have a reference and
  a session a checkout (`TypeInv`); `Exports`, `Collections` and `Sessions`. A frame
  lemma for each kind of invocation says what it leaves alone, so that each of the
  three parts is proved against the steps of its own kind only.
* `ExportTheorem`. `Sole`: two exports at once know that they are not alone.
  `Achieved`: what a lone export of an unmoved reference has saved is its image.
  `Archived`: an undisturbed archive is the one that its sidecar names, unless the
  sidecar is about to be removed, and a sidecar is gone before a new archive appears.
  The last is why the order tar, then sidecar in removing and in writing is right.
* `ExecTheorem`. `Sessions` carries the mount from the comparison of labels, or from
  the creation, to the execution; sessions of one checkout may replace each other's
  worker, but only by one with the same mount.
* `CollectionTheorem`. `Collections`: a container listed for removal belongs to no
  running build but one that began since the look.

`Pipeline_proofs` (any number of runs, slots, environments and days, environments
assigned to slots in any way, all budgets from one on):

* The first half is about packages. The prune counts the versions newer than another,
  so its effect is known only if versions are numbered without two alike, from one to
  their number (`Packed`). `Added`, `Retagged`, `Pushed` and `Deleted` say what each
  registry operation leaves: the versions in their order, renumbered without gaps, and
  for each version no more newer ones of an environment than before, or one more when
  something is pushed (`NoneNewer`, `OneNewer`). They rest on counting: `Counted` and
  `CountedApart` on versions with numbers in an interval, `CarriedNewer` and
  `CarriedButOne` on maps of versions that keep identities. `BelowPush`, `BelowFloat`
  and `BelowDelete` say the same of the budget of `-release`.
* The second half is about runs. `Kept` is what a step of one run leaves of another and
  what failing, ending or joining the queue leaves of the own record; `MutexKept`,
  `PastKept`, `GotKept`, `OwnMirrorKept` and `OwnImageKept` draw the consequences once
  for all steps.
* `PipelineInvariant` is the induction. `OwnMirrorTheorem` and `OwnImageTheorem` need
  that no version carries tags of two environments (`OneEnv`), that no version has the
  identity of a push still to come (`Past`), so that what a run pushes is new or the
  tree it was seeded with, and that of the runs in the middle of a job only one is of a
  slot (`Mutex`): then whoever else pushes or prunes does so in another environment.
* `GreenInBudgetTheorem`. `Below`: the green image is under `-release`, and at most
  `since` versions with tags of its environment are newer. A push adds one to both, a
  move of a tag to a version that had one of that environment adds none, and a prune
  takes only what has as many newer versions as it keeps. What `sif` has pulled may be
  pruned before it is verified and comes back when the tag floats; `GotInv` keeps that
  it is still of one environment. A fork prunes everything but its own version; that
  its prune comes after its push, which counted, is the second conjunct of `GreenInv`.
* `GreenReleasedTheorem`. `Attached`: the release exists before the image is verified.
  The prune of releases cannot take the latest one, which exists because the days are
  finitely many (`ReleaseLeft`, by the same argument as above, `Greatest`).

The proof of `GreenInBudget` failed at first, for a reason: it said of every fork that
`-release` keeps its image until the next push. When two slots share the environment of
a fork, which the naming allows (above, `Alone`), it is false: one run pushes, a run of
the other slot pushes, prunes, verifies and floats `-release`, and then the first one
prunes everything but its own version, without a push after the verification. TLC finds
this in nineteen steps on an instance with two slots of one fork. `GreenInBudget` now
asks of a fork that its environment is its own (`Unshared`); the invariant was checked
on that instance and on the one of the run `pipeline` before it was proved.

What stays with TLC: liveness (`EveryRunEnds`), which is out of the provers' reach; the
violations; and everything when the excluded
operator actions happen: the runs `buildcache_backends` and `buildcache_promise`
include them. All invariants and action properties that the runs check are proved.

## Plan

1. `Buildcache`, `Admission` and their proofs: done, as above.
2. `Mirror` and its proofs: done, as above.
3. `MirrorPrune` and its proofs: done, as above.
4. `LockProvenance` and its proofs: done, as above.
5. `Engine` (exports, worker sessions, storage GC) and its proofs: done, as above.
6. `Pipeline` and its proofs: done, as above.
7. `Buildcache` with the engine's time-out: a publisher whose client is killed while
   its container goes on pushing.

## Not modelled

* Schema and validation (`environment.py`, `validation.py`), templates, the command
  line, the Spack plan: they parse, check and render one input in one process and keep
  no state. Their properties would restate the code.
* The status report reads what the other components have left, without a lock, and
  writes nothing.
* `atomic_io.py`: the modules take its temporary file and `os.replace` as one step,
  except where a model is about what lies between (`StageCoverage`, `RenameCoverage`).
* Recipes: `spack-envs/*/spack-env-file/repos/packages/cp2k/package.py` and the copy
  under `docs` are Spack recipes, eight of more than twelve hundred lines each and
  together more than a third of the repository's lines of code. Spack executes them
  inside an image; they describe variants and build flags, and nothing in `hpc_cf`
  calls them.
* Of the pipeline: what it shares with the outside only as text (release notes,
  manifests, the summary), the cut of release branches, and the rolling release's
  assets.
