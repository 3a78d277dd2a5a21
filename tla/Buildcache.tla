------------------------------ MODULE Buildcache ------------------------------
(***************************************************************************)
(* Producers and consumers of the shared Spack buildcache.                 *)
(*                                                                         *)
(* Each process is one invocation of the command line: `buildcache build`, *)
(* `buildcache resume`, `buildcache verify` (BuildcacheService.run), or    *)
(* `build --buildcache auto|only|never` (BuildService.run; `dockerfile`    *)
(* goes the same way up to rendering).  They share one host: the flock on  *)
(* buildcache.lock, the binary store, the engine's image tags, the         *)
(* rendered Dockerfile in the project root, health.json, and the coverage  *)
(* records keyed by lock SHA.                                              *)
(*                                                                         *)
(* An image is named by the process that built it: the temporary tag is    *)
(* unique to the run, and an image ID is never reused.                     *)
(***************************************************************************)
EXTENDS FiniteSets

CONSTANTS
    Proc,       \* invocations of the command line
    Env,        \* environments (directories under spack-envs/)
    Lock,       \* contents of spack.lock, up to equality of their SHA-256
    Spec,       \* binary packages, named by DAG hash
    SpecsOf,    \* the non-external, non-excluded specs each lock demands
    EnvName,    \* spack.env_name of each environment; need not be unique
    HostLock0,  \* the committed lock of each environment
    Commands,   \* the commands that processes may run
    Modes,      \* the buildcache backends in use
    Faults,     \* what else may happen: see the environment actions
    NoProc, NoEnv, NoLock

Mode == {"local", "oci"}
Producing == {"build", "resume"}
Consuming == {"auto", "only"}
Command == Producing \cup Consuming \cup {"verify", "never"}
Fault == {"crash", "edit", "rmi", "wipe"}

ASSUME ConstantsAssumption ==
    /\ SpecsOf \in [Lock -> SUBSET Spec]
    /\ HostLock0 \in [Env -> Lock]
    /\ Commands \subseteq Command
    /\ Modes \subseteq Mode
    /\ Faults \subseteq Fault
    /\ NoProc \notin Proc /\ NoEnv \notin Env /\ NoLock \notin Lock

VARIABLES
    hostLock,    \* spack.lock of each environment directory
    dockerfile,  \* the one rendered Dockerfile of the project root
    ex, sh,      \* holder of the exclusive flock, holders of the shared one
    storeDir,    \* whether assets/spack-buildcache exists
    store,       \* packages pushed, by backend
    index,       \* packages the local store's index lists
    temp,        \* images that still carry their temporary tag
    stable,      \* image behind each {tag}-buildcache-producer
    image,       \* what each process's image was built from and contains
    coverage,    \* the coverage record of each lock
    health,      \* health.json
    pc,          \* where each process is
    job,         \* the command, environment and backend of each process
    lock,        \* lock SHA each process read in its preflight or admission
    img,         \* the producer image each process works on
    target,      \* lock SHA each process is about to write coverage for
    policy       \* effective consumer policy

hostVars == <<hostLock, dockerfile>>
lockVars == <<ex, sh>>
storeVars == <<storeDir, store, index>>
tagVars == <<temp, stable, image>>
stateVars == <<coverage, health>>
localVars == <<job, lock, img, target, policy>>
vars == <<hostVars, lockVars, storeVars, tagVars, stateVars, pc, localVars>>

-------------------------------------------------------------------------------
(* Control points, grouped by the lock a process holds there.              *)

SharedAt == {"stage", "policy", "write", "admit", "consume"}
CompleteAt == {"push", "index", "check", "promote", "recheck", "bind",
               "cover", "rename", "mark"}
ExclusiveAt == CompleteAt \cup {"inspect", "record"}
Terminal == {"done", "failed", "crashed"}
PC == SharedAt \cup ExclusiveAt \cup Terminal
        \cup {"idle", "gate", "waitShared", "lost", "waitInspect", "waitPush",
              "cleanup", "render", "build"}

NoImage == [env |-> NoEnv, lock |-> NoLock, specs |-> {}]
NoCoverage == [img |-> NoProc, kind |-> "local"]
NoHealth == [state |-> "missing", cov |-> NoLock,
             img |-> NoProc, env |-> NoEnv, lock |-> NoLock]

(* Mutant: environment and lock are passed in the wrong order. *)
UnhealthySwapped(i, e, l) == [state |-> "unhealthy", cov |-> NoLock,
                              img |-> i, env |-> l, lock |-> e]

(* mark_healthy and mark_unhealthy; an image is named when it is recoverable *)
Healthy(l) == [state |-> "healthy", cov |-> l,
               img |-> NoProc, env |-> NoEnv, lock |-> NoLock]
Unhealthy(i, e, l) == [state |-> "unhealthy", cov |-> NoLock,
                       img |-> i, env |-> e, lock |-> l]

Init ==
    /\ hostLock = HostLock0
    /\ dockerfile = [env |-> NoEnv, producer |-> FALSE, mode |-> "local"]
    /\ ex = NoProc /\ sh = {}
    /\ storeDir = FALSE
    /\ store = [m \in Mode |-> {}]
    /\ index = {}
    /\ temp = {}
    /\ stable = [e \in Env |-> NoProc]
    /\ image = [p \in Proc |-> NoImage]
    /\ coverage = [l \in Lock |-> NoCoverage]
    /\ health = NoHealth
    /\ pc = [p \in Proc |-> "idle"]
    /\ job = [p \in Proc |-> [cmd |-> "build", env |-> NoEnv, mode |-> "local"]]
    /\ lock = [p \in Proc |-> NoLock]
    /\ img = [p \in Proc |-> NoProc]
    /\ target = [p \in Proc |-> NoLock]
    /\ policy = [p \in Proc |-> "never"]

Goto(p, s) == pc' = [pc EXCEPT ![p] = s]
EnvOf(p) == job[p].env
ModeOf(p) == job[p].mode

(* The packages a consumer of a backend can find there. *)
Available(m) == IF m = "local" THEN index ELSE store["oci"]

(* `spack -e env_name` works in an image that has an environment so named. *)
HasEnvironment(i, e) == /\ image[i].env \in Env
                        /\ EnvName[image[i].env] = EnvName[e]

-------------------------------------------------------------------------------
(* Preflight.  No lock is held, and failures here leave no record.         *)

Start(p) ==
    /\ pc[p] = "idle"
    /\ \E c \in Commands, e \in Env, m \in Modes :
        /\ ~(c = "verify" /\ m = "oci")
        /\ job' = [job EXCEPT ![p] = [cmd |-> c, env |-> e, mode |-> m]]
        /\ lock' = [lock EXCEPT ![p] = hostLock[e]]
        /\ Goto(p, CASE c = "build" -> "gate"
                     [] c \in {"resume", "verify"} -> "waitInspect"
                     [] c \in Consuming -> "waitShared"
                     [] c = "never" -> "render")
    /\ UNCHANGED <<hostVars, lockVars, storeVars, tagVars, stateVars,
                   img, target, policy>>

(* The source mirror has no verified run for this lock; or rendering fails, *)
(* for which the store's directory has been made.                          *)
GateRefused(p) ==
    /\ pc[p] = "gate"
    /\ storeDir' \in {storeDir, TRUE}
    /\ Goto(p, "failed")
    /\ UNCHANGED <<hostVars, lockVars, store, index, tagVars, stateVars, localVars>>

RenderProducer(p) ==
    /\ pc[p] = "gate"
    /\ storeDir' = TRUE
    /\ dockerfile' = [env |-> EnvOf(p), producer |-> TRUE, mode |-> ModeOf(p)]
    /\ Goto(p, "waitShared")
    /\ UNCHANGED <<hostLock, lockVars, store, index, tagVars, stateVars, localVars>>

AcquireShared(p) ==
    /\ pc[p] = "waitShared"
    /\ ex = NoProc
    /\ sh' = sh \cup {p}
    /\ Goto(p, IF job[p].cmd = "build" THEN "stage" ELSE "policy")
    /\ UNCHANGED <<hostVars, ex, storeVars, tagVars, stateVars, localVars>>

-------------------------------------------------------------------------------
(* The producer's stage build, under the shared lock.  The engine reads    *)
(* whatever the Dockerfile holds now and copies the lock of the            *)
(* environment that file was rendered for.  A producer's install           *)
(* soft-fails: any nonempty part of the lock may be installed; a           *)
(* consumer's installs all of it or fails.  A producer's oci Dockerfile    *)
(* pushes each package as it is installed.                                 *)

Autopush(specs) ==
    IF dockerfile.producer /\ dockerfile.mode = "oci"
    THEN [store EXCEPT !["oci"] = @ \cup specs]
    ELSE store

Built(specs) == [env |-> dockerfile.env, lock |-> hostLock[dockerfile.env], specs |-> specs]

(* The engine tags the image; it may report failure all the same, and then *)
(* the digest is resolved before the exclusive lock is taken.              *)
Stage(p) ==
    /\ pc[p] = "stage"
    /\ \E specs \in SUBSET SpecsOf[hostLock[dockerfile.env]] :
        /\ specs # {}
        /\ dockerfile.producer \/ specs = SpecsOf[hostLock[dockerfile.env]]
        /\ image' = [image EXCEPT ![p] = Built(specs)]
        /\ store' = Autopush(specs)
    /\ temp' = temp \cup {p}
    /\ img' = [img EXCEPT ![p] = p]
    /\ sh' = sh \ {p}
    /\ \E reported \in {"waitInspect", "waitPush"} : Goto(p, reported)
    /\ UNCHANGED <<hostVars, ex, storeDir, index, stable, stateVars,
                   job, lock, target, policy>>

(* Mutant: the failure path leaves without releasing the shared lock. *)
StageLostKeepsLock(p) ==
    /\ pc[p] = "stage"
    /\ Goto(p, "lost")
    /\ UNCHANGED <<hostVars, lockVars, storeVars, tagVars, stateVars, localVars>>

StageLost(p) ==
    /\ pc[p] = "stage"
    /\ \E specs \in SUBSET SpecsOf[hostLock[dockerfile.env]] :
        store' = Autopush(specs)
    /\ sh' = sh \ {p}
    /\ Goto(p, "lost")
    /\ UNCHANGED <<hostVars, ex, storeDir, index, tagVars, stateVars, localVars>>

(* Cleanup and the unhealthy record of a lost stage run without any lock. *)
RecordLost(p) ==
    /\ pc[p] = "lost"
    /\ temp' = temp \ {p}
    /\ health' = Unhealthy(NoProc, NoEnv, NoLock)
    /\ Goto(p, "failed")
    /\ UNCHANGED <<hostVars, lockVars, storeVars, stable, image, coverage, localVars>>

-------------------------------------------------------------------------------
(* The exclusive section.                                                  *)

(* Mutant: readers do not hold off the publisher. *)
NoWriter == ex = NoProc

NobodyHolds == ex = NoProc /\ sh = {}

AcquireExclusive(p) ==
    /\ pc[p] \in {"waitInspect", "waitPush"}
    /\ NobodyHolds
    /\ ex' = p
    /\ storeDir' = (storeDir \/ job[p].cmd # "resume")
    /\ Goto(p, IF pc[p] = "waitPush" THEN "push" ELSE "inspect")
    /\ UNCHANGED <<hostVars, sh, store, index, tagVars, stateVars, localVars>>

InspectBuilt(p) ==
    /\ pc[p] = "inspect" /\ job[p].cmd = "build"
    /\ \/ img[p] \in temp /\ Goto(p, "push") /\ UNCHANGED img
       \/ img' = [img EXCEPT ![p] = NoProc] /\ Goto(p, "record")
    /\ UNCHANGED <<hostVars, lockVars, storeVars, tagVars, stateVars,
                   job, lock, target, policy>>

InspectStable(p) ==
    /\ pc[p] = "inspect" /\ job[p].cmd = "verify"
    /\ \/ /\ stable[EnvOf(p)] # NoProc
          /\ img' = [img EXCEPT ![p] = stable[EnvOf(p)]]
          /\ Goto(p, "check")
       \/ Goto(p, "record") /\ UNCHANGED img
    /\ UNCHANGED <<hostVars, lockVars, storeVars, tagVars, stateVars,
                   job, lock, target, policy>>

(* What health.json must say for `resume` to go on: the image it names was *)
(* left by this environment, under the lock read in the preflight, and is  *)
(* still there.                                                            *)
Resumable(p) ==
    /\ health.state = "unhealthy"
    /\ health.img # NoProc
    /\ health.env = EnvOf(p)
    /\ health.lock = lock[p]
    /\ health.img \in temp

InspectRecovery(p) ==
    /\ pc[p] = "inspect" /\ job[p].cmd = "resume"
    /\ Resumable(p)
    /\ img' = [img EXCEPT ![p] = health.img]
    /\ Goto(p, "push")
    /\ UNCHANGED <<hostVars, lockVars, storeVars, tagVars, stateVars,
                   job, lock, target, policy>>

(* One of these does not hold, or the engine cannot inspect the image.     *)
ResumeRefused(p) ==
    /\ pc[p] = "inspect" /\ job[p].cmd = "resume"
    /\ ex' = NoProc
    /\ Goto(p, "failed")
    /\ UNCHANGED <<hostVars, sh, storeVars, tagVars, stateVars, localVars>>

(* One container runs push, update-index and check.  oci has neither of    *)
(* the last two: there, completeness is that all the lock is installed.    *)
Push(p) ==
    /\ pc[p] = "push"
    /\ img[p] \in temp
    /\ HasEnvironment(img[p], EnvOf(p))
    /\ store' = [store EXCEPT ![ModeOf(p)] = @ \cup image[img[p]].specs]
    /\ IF ModeOf(p) = "local"
       THEN storeDir' = TRUE /\ Goto(p, "index")
       ELSE /\ UNCHANGED storeDir
            /\ Goto(p, IF image[img[p]].specs = SpecsOf[image[img[p]].lock]
                       THEN "promote" ELSE "record")
    /\ UNCHANGED <<hostVars, lockVars, index, tagVars, stateVars, localVars>>

(* Mutant: the index lists only what this image pushed. *)
IndexOwnPackages(p) ==
    /\ pc[p] = "index"
    /\ index' = image[img[p]].specs
    /\ Goto(p, "check")
    /\ UNCHANGED <<hostVars, lockVars, storeDir, store, tagVars, stateVars, localVars>>

UpdateIndex(p) ==
    /\ pc[p] = "index"
    /\ index' = store["local"]
    /\ Goto(p, "check")
    /\ UNCHANGED <<hostVars, lockVars, storeDir, store, tagVars, stateVars, localVars>>

(* Mutant: check what is installed instead of the whole lock. *)
InstalledIsIndexed(i) == image[i].specs \subseteq index

(* `spack buildcache check` of the specs of the lock inside an image *)
LockIsIndexed(i) == SpecsOf[image[i].lock] \subseteq index

Check(p) ==
    /\ pc[p] = "check"
    /\ HasEnvironment(img[p], EnvOf(p))
    /\ LockIsIndexed(img[p])
    /\ Goto(p, IF job[p].cmd = "verify" THEN "bind" ELSE "promote")
    /\ UNCHANGED <<hostVars, lockVars, storeVars, tagVars, stateVars, localVars>>

Promote(p) ==
    /\ pc[p] = "promote"
    /\ img[p] \in temp
    /\ stable' = [stable EXCEPT ![EnvOf(p)] = img[p]]
    /\ Goto(p, "recheck")
    /\ UNCHANGED <<hostVars, lockVars, storeVars, temp, image, stateVars, localVars>>

Recheck(p) ==
    /\ pc[p] = "recheck"
    /\ stable[EnvOf(p)] = img[p]
    /\ Goto(p, "bind")
    /\ UNCHANGED <<hostVars, lockVars, storeVars, tagVars, stateVars, localVars>>

(* Mutant: any lock will do. *)
LockExists(p) ==
    /\ IF job[p].cmd = "verify" THEN stable[EnvOf(p)] = img[p] ELSE img[p] \in temp
    /\ HasEnvironment(img[p], EnvOf(p))

(* require_matching_image_lock: the lock inside the image is the host's.   *)
LockMatches(p) ==
    /\ LockExists(p)
    /\ image[img[p]].lock = hostLock[EnvOf(p)]

Bind(p) ==
    /\ pc[p] = "bind"
    /\ LockMatches(p)
    /\ Goto(p, "cover")
    /\ UNCHANGED <<hostVars, lockVars, storeVars, tagVars, stateVars, localVars>>

(* publish_success_state in three steps: the host lock is hashed again to  *)
(* name the record, staged under a name nobody reads; the record is        *)
(* renamed into place; only then health says healthy.                      *)
StageCoverage(p) ==
    /\ pc[p] = "cover"
    /\ target' = [target EXCEPT ![p] = hostLock[EnvOf(p)]]
    /\ Goto(p, "rename")
    /\ UNCHANGED <<hostVars, lockVars, storeVars, tagVars, stateVars,
                   job, lock, img, policy>>

(* Mutant: the old order, health before the record. *)
HealthBeforeCoverage(p) ==
    /\ pc[p] = "rename"
    /\ health' = Healthy(target[p])
    /\ Goto(p, "mark")
    /\ UNCHANGED <<hostVars, lockVars, storeVars, tagVars, coverage, localVars>>

RenameCoverage(p) ==
    /\ pc[p] = "rename"
    /\ coverage' = [coverage EXCEPT
                      ![target[p]] = [img |-> img[p], kind |-> ModeOf(p)]]
    /\ Goto(p, "mark")
    /\ UNCHANGED <<hostVars, lockVars, storeVars, tagVars, health, localVars>>

MarkHealthy(p) ==
    /\ pc[p] = "mark"
    /\ health' = Healthy(target[p])
    /\ ex' = NoProc
    /\ Goto(p, IF job[p].cmd = "verify" THEN "done" ELSE "cleanup")
    /\ UNCHANGED <<hostVars, sh, storeVars, tagVars, coverage, localVars>>

(* Best effort, after the lock is released. *)
Cleanup(p) ==
    /\ pc[p] = "cleanup"
    /\ temp' \in {temp, temp \ {img[p]}}
    /\ Goto(p, "done")
    /\ UNCHANGED <<hostVars, lockVars, storeVars, stable, image, stateVars, localVars>>

(* Any step of the sequence may fail: an engine error, a timeout, a full   *)
(* disk, or the condition of the step above not holding.  A failing push   *)
(* leaves whatever it pushed.                                              *)
StepFails(p) ==
    /\ pc[p] \in CompleteAt
    /\ IF pc[p] = "push" /\ img[p] \in temp
       THEN \E specs \in SUBSET image[img[p]].specs :
              store' = [store EXCEPT ![ModeOf(p)] = @ \cup specs]
       ELSE UNCHANGED store
    /\ Goto(p, "record")
    /\ UNCHANGED <<hostVars, lockVars, storeDir, index, tagVars, stateVars, localVars>>

(* Mutant: `verify` too names the image it worked on. *)
AnyImage(p) == img[p]

(* A producer names the image to resume from; `verify` names none. *)
RecoveryImage(p) == IF job[p].cmd = "verify" THEN NoProc ELSE img[p]

(* _record_failure.  Whatever health.json said before is overwritten.      *)
RecordFailure(p) ==
    /\ pc[p] = "record"
    /\ health' = IF RecoveryImage(p) = NoProc
                 THEN Unhealthy(NoProc, NoEnv, NoLock)
                 ELSE Unhealthy(RecoveryImage(p), EnvOf(p), lock[p])
    /\ ex' = NoProc
    /\ Goto(p, "failed")
    /\ UNCHANGED <<hostVars, sh, storeVars, tagVars, coverage, localVars>>

-------------------------------------------------------------------------------
(* Consumers, under the shared lock from the policy decision to the end of *)
(* the image build; without it for `never`.                                *)

(* Mutant: a record of either backend will do. *)
OfAnyKind(r, m) == r.img # NoProc

(* _coverage_check_kind_matches, on a record that exists *)
OfKind(r, m) == r.img # NoProc /\ r.kind = m

(* _healthy: health claims it, and the coverage record it names exists and *)
(* is of this backend's kind.                                              *)
StoreHealthy(m) ==
    /\ m = "local" => storeDir
    /\ health.state = "healthy"
    /\ OfKind(coverage[health.cov], m)

LockCovered(l, m) ==
    /\ m = "local" => storeDir
    /\ OfKind(coverage[l], m)

ResolvePolicy(p) ==
    /\ pc[p] = "policy"
    /\ IF StoreHealthy(ModeOf(p)) \/ LockCovered(hostLock[EnvOf(p)], ModeOf(p))
       THEN /\ policy' = [policy EXCEPT ![p] = job[p].cmd]
            /\ Goto(p, "write") /\ UNCHANGED sh
       ELSE IF job[p].cmd = "auto"
       THEN policy' = [policy EXCEPT ![p] = "never"] /\ Goto(p, "write") /\ UNCHANGED sh
       ELSE sh' = sh \ {p} /\ Goto(p, "failed") /\ UNCHANGED policy
    /\ UNCHANGED <<hostVars, ex, storeVars, tagVars, stateVars,
                   job, lock, img, target>>

(* A `never` build does the same without the lock, at "render" and "build". *)
RenderConsumer(p) ==
    /\ dockerfile' = [env |-> EnvOf(p), producer |-> FALSE, mode |-> ModeOf(p)]
    /\ \/ pc[p] = "render" /\ Goto(p, "build")
       \/ pc[p] = "write" /\ Goto(p, IF policy[p] = "only" THEN "admit" ELSE "consume")
    /\ UNCHANGED <<hostLock, lockVars, storeVars, tagVars, stateVars, localVars>>

(* The `dockerfile` command goes the same way and ends here. *)
RenderOnly(p) ==
    /\ pc[p] \in {"write", "render"}
    /\ dockerfile' = [env |-> EnvOf(p), producer |-> FALSE, mode |-> ModeOf(p)]
    /\ sh' = sh \ {p}
    /\ Goto(p, "done")
    /\ UNCHANGED <<hostLock, ex, storeVars, tagVars, stateVars, localVars>>

(* Mutant: the record is enough, no live check. *)
Recorded(p) ==
    LET r == coverage[hostLock[EnvOf(p)]]
    IN /\ r.img # NoProc
       /\ r.kind = ModeOf(p)
       /\ ModeOf(p) = "local" => r.img = stable[EnvOf(p)]

(* require_coverage against the digest of the stable producer image, then  *)
(* a live check run in that image.  An oci consumer has neither the image  *)
(* nor the check, and takes any record of its kind.                        *)
Admissible(p) ==
    LET r == coverage[hostLock[EnvOf(p)]]
        s == stable[EnvOf(p)]
    IN /\ OfKind(r, ModeOf(p))
       /\ ModeOf(p) = "local" => /\ r.img = s
                                 /\ HasEnvironment(s, EnvOf(p))
                                 /\ LockIsIndexed(s)

Admit(p) ==
    /\ pc[p] = "admit"
    /\ Admissible(p)
    /\ lock' = [lock EXCEPT ![p] = hostLock[EnvOf(p)]]
    /\ Goto(p, "consume")
    /\ UNCHANGED <<hostVars, lockVars, storeVars, tagVars, stateVars,
                   job, img, target, policy>>

ConsumerFails(p) ==
    /\ pc[p] \in {"write", "admit", "consume", "render", "build"}
    /\ sh' = sh \ {p}
    /\ Goto(p, "failed")
    /\ UNCHANGED <<hostVars, ex, storeVars, tagVars, stateVars, localVars>>

(* build_docker_like: like the stage build, it reads the Dockerfile that   *)
(* is there now.                                                           *)
Consume(p) ==
    /\ pc[p] \in {"consume", "build"}
    /\ LET specs == SpecsOf[hostLock[dockerfile.env]]
       IN image' = [image EXCEPT ![p] = Built(specs)] /\ store' = Autopush(specs)
    /\ sh' = sh \ {p}
    /\ Goto(p, "done")
    /\ UNCHANGED <<hostVars, ex, storeDir, index, temp, stable, stateVars, localVars>>

-------------------------------------------------------------------------------
(* The environment.                                                        *)

(* A kill, a power loss or Ctrl-C (which `except Exception` does not see): *)
(* the kernel drops the flock, and nothing else is undone.                 *)
Crash(p) ==
    /\ "crash" \in Faults
    /\ pc[p] \notin Terminal \cup {"idle"}
    /\ ex' = IF ex = p THEN NoProc ELSE ex
    /\ sh' = sh \ {p}
    /\ Goto(p, "crashed")
    /\ UNCHANGED <<hostVars, storeVars, tagVars, stateVars, localVars>>

(* A concretization, a checkout or a version change replaces a lock.       *)
EditLock(e) ==
    /\ "edit" \in Faults
    /\ \E l \in Lock \ {hostLock[e]} : hostLock' = [hostLock EXCEPT ![e] = l]
    /\ UNCHANGED <<dockerfile, lockVars, storeVars, tagVars, stateVars, pc, localVars>>

(* An operator or `image prune` removes a temporary tag. *)
RemoveImage(i) ==
    /\ "rmi" \in Faults
    /\ i \in temp
    /\ temp' = temp \ {i}
    /\ UNCHANGED <<hostVars, lockVars, storeVars, stable, image, stateVars, pc, localVars>>

(* An operator removes the local store. *)
WipeStore ==
    /\ "wipe" \in Faults
    /\ storeDir
    /\ storeDir' = FALSE
    /\ store' = [store EXCEPT !["local"] = {}]
    /\ index' = {}
    /\ UNCHANGED <<hostVars, lockVars, tagVars, stateVars, pc, localVars>>

(* The sequence a process runs by itself once it has been started. *)
Step(p) ==
    \/ GateRefused(p) \/ RenderProducer(p) \/ AcquireShared(p)
    \/ Stage(p) \/ StageLost(p) \/ RecordLost(p)
    \/ AcquireExclusive(p)
    \/ InspectBuilt(p) \/ InspectStable(p) \/ InspectRecovery(p) \/ ResumeRefused(p)
    \/ Push(p) \/ UpdateIndex(p) \/ Check(p) \/ Promote(p) \/ Recheck(p) \/ Bind(p)
    \/ StageCoverage(p) \/ RenameCoverage(p) \/ MarkHealthy(p) \/ Cleanup(p)
    \/ StepFails(p) \/ RecordFailure(p)
    \/ ResolvePolicy(p) \/ RenderConsumer(p) \/ RenderOnly(p) \/ Admit(p)
    \/ ConsumerFails(p) \/ Consume(p)

Finished == /\ \A p \in Proc : pc[p] \in Terminal
            /\ UNCHANGED vars

Next ==
    \/ \E p \in Proc : Start(p) \/ Step(p) \/ Crash(p)
    \/ \E e \in Env : EditLock(e)
    \/ \E i \in Proc : RemoveImage(i)
    \/ WipeStore
    \/ Finished

BuildcacheSpec == Init /\ [][Next]_vars

(* Once started, a process is scheduled until it ends; no invocation needs *)
(* to be started, and none needs to crash.                                 *)
FairSpec == BuildcacheSpec /\ \A p \in Proc : WF_vars(Step(p))

-------------------------------------------------------------------------------
(* Properties.                                                             *)

(* Every variable keeps its type. *)
ProcOrNone == Proc \cup {NoProc}
EnvOrNone == Env \cup {NoEnv}
LockOrNone == Lock \cup {NoLock}
Image == [env : EnvOrNone, lock : LockOrNone, specs : SUBSET Spec]
Coverage == [img : ProcOrNone, kind : Mode]
Health == [state : {"missing", "healthy", "unhealthy"}, cov : LockOrNone,
           img : ProcOrNone, env : EnvOrNone, lock : LockOrNone]

TypeOK ==
    /\ hostLock \in [Env -> Lock]
    /\ dockerfile \in [env : EnvOrNone, producer : BOOLEAN, mode : Mode]
    /\ ex \in ProcOrNone /\ sh \subseteq Proc
    /\ storeDir \in BOOLEAN
    /\ store \in [Mode -> SUBSET Spec] /\ index \subseteq Spec
    /\ temp \subseteq Proc
    /\ stable \in [Env -> ProcOrNone]
    /\ image \in [Proc -> Image]
    /\ coverage \in [Lock -> Coverage]
    /\ health \in Health
    /\ pc \in [Proc -> PC]
    /\ job \in [Proc -> [cmd : Command, env : EnvOrNone, mode : Mode]]
    /\ lock \in [Proc -> LockOrNone]
    /\ img \in [Proc -> ProcOrNone]
    /\ target \in [Proc -> LockOrNone]
    /\ policy \in [Proc -> {"never", "auto", "only"}]

(* Nobody mutates what a build that is running reads: while any producer   *)
(* stage or consumer build holds the shared lock, the local store, its     *)
(* index, the stable tags and the coverage records stay as they are.       *)
ReadersSeeOneStore ==
    [][sh # {} => /\ store'["local"] = store["local"]
                  /\ UNCHANGED <<index, stable, coverage>>]_vars

(* A healthy claim always has its coverage record, whatever step of        *)
(* publish_success_state a crash or a failure interrupts.                  *)
HealthyHasCoverage ==
    health.state = "healthy" => /\ health.cov \in Lock
                                /\ coverage[health.cov].img # NoProc

(* A coverage record names an image all of whose lock is available from    *)
(* the backend of the record's kind, whoever published what since.         *)
CoverageIsAvailable ==
    \A l \in Lock : coverage[l].img # NoProc =>
        SpecsOf[image[coverage[l].img].lock] \subseteq Available(coverage[l].kind)

(* A coverage record is keyed by the lock of the image it names, even when *)
(* the stage build read a Dockerfile rendered for another environment.     *)
CoverageExactLock ==
    \A l \in Lock : coverage[l].img # NoProc => image[coverage[l].img].lock = l

(* A stable producer image is one whose push, index and check succeeded.   *)
StableIsPublished ==
    \A e \in Env : stable[e] # NoProc =>
        \E m \in Mode : SpecsOf[image[stable[e]].lock] \subseteq Available(m)

(* The image health.json tells `resume` to pick up is still there: no run, *)
(* not even one that finished with the same image, removes it first.       *)
RecoveryImageExists == health.img # NoProc => health.img \in temp

(* While a local `only` build runs, the record that admitted it stands,    *)
(* still names the stable image, and the whole lock is in the store.       *)
OnlyConsumerServed ==
    \A p \in Proc : pc[p] = "consume" /\ policy[p] = "only" =>
        /\ coverage[lock[p]].img # NoProc
        /\ ModeOf(p) = "local" => coverage[lock[p]].img = stable[EnvOf(p)]
        /\ SpecsOf[lock[p]] \subseteq Available(ModeOf(p))

(* A local `only` build is admitted only while its whole lock is in the    *)
(* store, even if the store was damaged after its coverage was recorded.   *)
AdmissionIsLive ==
    [][\A p \in Proc :
         pc[p] = "admit" /\ pc'[p] = "consume" /\ ModeOf(p) = "local"
           => SpecsOf[lock'[p]] \subseteq index]_vars

(* Two backends under one lock SHA do not mix: a running `only` build was   *)
(* admitted by a record of its own backend's kind, and an oci build finds   *)
(* its whole lock in the registry.                                          *)
BackendsDoNotMix ==
    \A p \in Proc : pc[p] = "consume" /\ policy[p] = "only" =>
        /\ coverage[lock[p]].kind = ModeOf(p)
        /\ ModeOf(p) = "oci" => SpecsOf[lock[p]] \subseteq store["oci"]

(* Every started invocation ends: the shared and exclusive sections never  *)
(* wait for each other in a circle, and every exit releases the flock.     *)
EveryRunEnds == \A p \in Proc : pc[p] # "idle" ~> pc[p] \in Terminal

(* Claims of the documentation and the tests that the code breaks. *)

(* docs/buildcache.md: "A failed producer therefore cannot replace the     *)
(* last accepted stable image."                                            *)
FailedProducerNotStable ==
    \A p \in Proc : pc[p] = "failed" /\ job[p].cmd = "build"
                        => stable[EnvOf(p)] # p

-------------------------------------------------------------------------------
(* What the store, the coverage records and health.json together promise,  *)
(* as an abstract machine.                                                 *)

Promise == INSTANCE Admission WITH
    Backend <- Mode, NoClaim <- NoLock,
    avail <- [m \in Mode |-> Available(m)],
    record <- [l \in Lock |->
                 IF coverage[l].img = NoProc THEN {}
                 ELSE {[kind |-> coverage[l].kind,
                        needs |-> SpecsOf[image[coverage[l].img].lock]]}],
    claim <- IF health.state = "healthy" THEN health.cov ELSE NoLock

(* Publishing keeps the promise under every interleaving. *)
KeepsPromise == Promise!AdmissionSpec

===============================================================================
