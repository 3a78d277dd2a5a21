-------------------------------- MODULE Mirror --------------------------------
(***************************************************************************)
(* The shared source mirror: who fills it, verifies it, prunes it and      *)
(* builds from it.                                                         *)
(*                                                                         *)
(* Each process is one invocation: `assets` with some of its stages        *)
(* (mirror, verify, prune), `assets prune`, `buildcache build`, or an      *)
(* image build.  They share mirror.lock, the mirror tree, the run          *)
(* directories with their manifests, the exported fetch specs, and one     *)
(* worker container, which holds the Spack environment that the last       *)
(* stage prepared.                                                         *)
(*                                                                         *)
(* A lock stands for its SHA-256; the Spack version is a function of the   *)
(* environment.  A source is one file of the cache that a lock pins by its *)
(* commit or checksum.                                                     *)
(***************************************************************************)
EXTENDS Naturals, Sequences, FiniteSets

CONSTANTS
    Proc, Env, Lock,
    Source,     \* files of the source cache
    Needs,      \* the sources each lock demands
    EnvName,    \* spack.env_name of each environment; need not be unique
    HostLock0,  \* the lock of each environment, or NoLock
    Plans,      \* what invocations may be asked to do
    Keep,       \* run directories kept: DEFAULT_MIRROR_RUN_KEEP
    MaxRuns,    \* bound on the runs ever begun
    Faults,
    NoProc, NoEnv, NoLock, NoName

(* The stages of `assets`; "reuse" is `assets prune`, with the fetch specs *)
(* that an earlier run exported.                                           *)
Stage == {"mirror", "verify", "prune", "reuse"}
Building == {<<"build">>, <<"image">>}
Fault == {"crash", "edit"}

ASSUME ConstantsAssumption ==
    /\ Needs \in [Lock -> SUBSET Source]
    /\ HostLock0 \in [Env -> Lock \cup {NoLock}]
    /\ Plans \subseteq Seq(Stage) \cup Building
    /\ Keep \in Nat \ {0, 1} /\ MaxRuns \in Nat
    /\ Faults \subseteq Fault
    /\ NoProc \notin Proc /\ NoEnv \notin Env /\ NoLock \notin Lock
    /\ \A e \in Env : NoName # EnvName[e]

VARIABLES
    hostLock,  \* spack.lock of each environment directory
    ex, sh,    \* holders of mirror.lock
    session,   \* the Spack environment in the worker container
    tree,      \* sources in the mirror
    sidecar,   \* the lock whose fetch specs fetch-specs.json holds
    runs,      \* the run directories and their manifests
    begun,     \* how many runs have begun
    pc, plan,  \* where each process is, and its remaining stages
    env,       \* the environment each process works for
    hasLock,   \* what each mirror stage found before it took the lock
    run        \* the run each process has begun last

lockVars == <<ex, sh>>
runVars == <<runs, begun>>
localVars == <<env, hasLock, run>>
vars == <<hostLock, lockVars, session, tree, sidecar, runVars, pc, plan, localVars>>

Run == 1 .. MaxRuns
NoRun == [env |-> NoEnv, lock |-> NoLock, status |-> "absent",
          log |-> FALSE, kept |-> FALSE, at |-> 0]
NoSession == [name |-> NoName, lock |-> NoLock]

Init ==
    /\ hostLock = HostLock0
    /\ ex = NoProc /\ sh = {}
    /\ session = NoSession
    /\ tree = {}
    /\ sidecar = NoLock
    /\ runs = [r \in Run |-> NoRun]
    /\ begun = 0
    /\ pc = [p \in Proc |-> "idle"]
    /\ plan = [p \in Proc |-> <<>>]
    /\ env = [p \in Proc |-> NoEnv]
    /\ hasLock = [p \in Proc |-> FALSE]
    /\ run = [p \in Proc |-> 0]

Goto(p, s) == pc' = [pc EXCEPT ![p] = s]
Terminal == {"done", "failed", "crashed"}
StageOf(p) == Head(plan[p])
HostLockOf(p) == hostLock[env[p]]

(* `spack -e env_name` finds the environment in the container. *)
HasSession(p) == session.name = EnvName[env[p]]

-------------------------------------------------------------------------------
(* Entry.                                                                  *)

(* Whoever fills the mirror first makes sure that the worker exists. *)
Start(p) ==
    /\ pc[p] = "idle"
    /\ \E e \in Env, w \in Plans :
        /\ env' = [env EXCEPT ![p] = e]
        /\ plan' = [plan EXCEPT ![p] = w]
        /\ Goto(p, CASE w = <<"build">> -> "gate"
                     [] w = <<"image">> -> "waitShared"
                     [] Head(w) = "mirror" -> "worker"
                     [] OTHER -> "next")
    /\ UNCHANGED <<hostLock, lockVars, session, tree, sidecar, runVars,
                   hasLock, run>>

(* A worker whose image or mounts no longer match is replaced, whoever     *)
(* uses it; no lock is held.                                               *)
CreateWorker(p) ==
    /\ pc[p] = "worker"
    /\ session' \in {session, NoSession}
    /\ Goto(p, "next")
    /\ UNCHANGED <<hostLock, lockVars, tree, sidecar, runVars, plan, localVars>>

(* What a stage looks at before it takes the lock. *)
EnterStage(p) ==
    /\ pc[p] = "next" /\ plan[p] # <<>>
    /\ hasLock' = [hasLock EXCEPT ![p] = HostLockOf(p) # NoLock]
    /\ Goto(p, IF StageOf(p) = "verify" /\ HostLockOf(p) = NoLock
               THEN "failed" ELSE "waitExclusive")
    /\ UNCHANGED <<hostLock, lockVars, session, tree, sidecar, runVars,
                   plan, env, run>>

Finish(p) ==
    /\ pc[p] = "next" /\ plan[p] = <<>>
    /\ Goto(p, "done")
    /\ UNCHANGED <<hostLock, lockVars, session, tree, sidecar, runVars, plan, localVars>>

-------------------------------------------------------------------------------
(* The exclusive section of a stage.                                       *)

(* Mutant: readers do not hold off a writer. *)
NoWriter == ex = NoProc

NobodyHolds == ex = NoProc /\ sh = {}

(* begin_run: names carry a stamp of one second, so a run begun in the     *)
(* second in which another one failed may sort before it (one such pair at *)
(* a time).  "at" is the place of a run in the order of all names.         *)
Places == {k \in {begun, begun + 1} :
             k > 0 /\ \A x \in 1 .. begun : runs[x].at >= k => runs[x].status # "success"}

Named(p, k) ==
    [x \in Run |->
        IF x = begun + 1
        THEN [env |-> env[p], lock |-> NoLock, status |-> "open",
              log |-> FALSE, kept |-> TRUE, at |-> k]
        ELSE IF runs[x].at >= k THEN [runs[x] EXCEPT !.at = @ + 1] ELSE runs[x]]

(* cleanup_runs: the directories beyond the last Keep names. *)
Excess(rs) ==
    {x \in Run : rs[x].kept /\
       Cardinality({y \in Run : rs[y].kept /\ rs[y].at > rs[x].at}) >= Keep}

BeginRun(p) ==
    /\ begun < MaxRuns
    /\ begun' = begun + 1
    /\ run' = [run EXCEPT ![p] = begun + 1]
    /\ \E k \in Places :
          LET named == Named(p, k)
          IN runs' = [x \in Run |-> IF x \in Excess(named) THEN [named[x] EXCEPT !.kept = FALSE]
                                   ELSE named[x]]

AcquireExclusive(p) ==
    /\ pc[p] = "waitExclusive"
    /\ NobodyHolds
    /\ ex' = p
    /\ IF StageOf(p) \in {"mirror", "verify"}
       THEN BeginRun(p) /\ Goto(p, "prepare")
       ELSE /\ UNCHANGED <<runVars, run>>
            /\ Goto(p, IF StageOf(p) = "prune" THEN "export" ELSE "apply")
    /\ UNCHANGED <<hostLock, sh, session, tree, sidecar, plan, env, hasLock>>

(* clean_stale_state, prepare_environment(import_lock=True).  A mirror     *)
(* stage that found no lock before does not look again.                    *)
ImportLock(p) ==
    /\ pc[p] = "prepare"
    /\ StageOf(p) = "mirror" => hasLock[p]
    /\ HostLockOf(p) # NoLock
    /\ session' = [name |-> EnvName[env[p]], lock |-> HostLockOf(p)]
    /\ Goto(p, "create")
    /\ UNCHANGED <<hostLock, lockVars, tree, sidecar, runVars, plan, localVars>>

(* Mutant: the environment has the name of its directory. *)
ConcretizeNameless(p) ==
    /\ pc[p] = "prepare" /\ StageOf(p) = "mirror" /\ ~hasLock[p]
    /\ \E l \in Lock : session' = [name |-> env[p], lock |-> l]
    /\ Goto(p, "writeBack")
    /\ UNCHANGED <<hostLock, lockVars, tree, sidecar, runVars, plan, localVars>>

(* --allow-concretize: a new lock, in the container and then on the host. *)
Concretize(p) ==
    /\ pc[p] = "prepare" /\ StageOf(p) = "mirror" /\ ~hasLock[p]
    /\ \E l \in Lock : session' = [name |-> EnvName[env[p]], lock |-> l]
    /\ Goto(p, "writeBack")
    /\ UNCHANGED <<hostLock, lockVars, tree, sidecar, runVars, plan, localVars>>

WriteBack(p) ==
    /\ pc[p] = "writeBack"
    /\ HasSession(p)
    /\ hostLock' = [hostLock EXCEPT ![env[p]] = session.lock]
    /\ Goto(p, "create")
    /\ UNCHANGED <<lockVars, session, tree, sidecar, runVars, plan, localVars>>

(* Mutant: a summary that misses some sources will do. *)
MirrorCreatePartly(p) ==
    /\ pc[p] = "create"
    /\ HasSession(p)
    /\ \E some \in SUBSET Needs[session.lock] : tree' = tree \cup some
    /\ Goto(p, "record")
    /\ UNCHANGED <<hostLock, lockVars, session, sidecar, runVars, plan, localVars>>

(* `spack mirror create` with no failures; `verify` is the same once more. *)
MirrorCreate(p) ==
    /\ pc[p] = "create"
    /\ HasSession(p)
    /\ tree' = tree \cup Needs[session.lock]
    /\ Goto(p, "record")
    /\ UNCHANGED <<hostLock, lockVars, session, sidecar, runVars, plan, localVars>>

(* write_manifest: the hash is that of the host's lock now. *)
Manifest(p, status, l) ==
    runs' = [runs EXCEPT ![run[p]] =
               [@ EXCEPT !.lock = l, !.status = status, !.log = StageOf(p) = "verify"]]

LeaveStage(p) ==
    /\ ex' = NoProc
    /\ plan' = [plan EXCEPT ![p] = Tail(@)]
    /\ Goto(p, "next")

RecordSuccess(p) ==
    /\ pc[p] = "record"
    /\ Manifest(p, "success", HostLockOf(p))
    /\ LeaveStage(p)
    /\ UNCHANGED <<hostLock, sh, session, tree, sidecar, begun, localVars>>

(* An environment without a lock has no specs: the file is an empty list. *)
ExportFetchSpecs(p) ==
    /\ pc[p] = "export"
    /\ HasSession(p)
    /\ sidecar' = session.lock
    /\ Goto(p, "apply")
    /\ UNCHANGED <<hostLock, lockVars, session, tree, runVars, plan, localVars>>

(* The plan, and unless this is a dry run its application. *)
Prune(p) ==
    /\ pc[p] = "apply"
    /\ sidecar # NoLock
    /\ tree' \in {tree, tree \cap Needs[sidecar]}
    /\ LeaveStage(p)
    /\ UNCHANGED <<hostLock, sh, session, sidecar, runVars, localVars>>

(* What a step that does not end well leaves of its work. *)
Part(p) ==
    /\ \/ UNCHANGED tree
       \/ pc[p] = "create" /\ HasSession(p)
            /\ \E some \in SUBSET Needs[session.lock] : tree' = tree \cup some
       \/ pc[p] = "apply" /\ sidecar # NoLock
            /\ \E some \in SUBSET (tree \ Needs[sidecar]) : tree' = tree \ some
    /\ \/ UNCHANGED session
       \/ pc[p] = "prepare"
            /\ session' \in {NoSession, [name |-> EnvName[env[p]], lock |-> NoLock]}

(* Mutant: a failure leaves the lock held. *)
StageFailsKeepsLock(p) ==
    /\ pc[p] \in {"prepare", "writeBack", "create", "record", "export", "apply"}
    /\ Part(p)
    /\ UNCHANGED runs
    /\ Goto(p, "failed")
    /\ UNCHANGED <<hostLock, lockVars, sidecar, begun, plan, localVars>>

(* Any step may fail, and the failure manifest may not get written either. *)
StageFails(p) ==
    /\ pc[p] \in {"prepare", "writeBack", "create", "record", "export", "apply"}
    /\ Part(p)
    /\ \/ UNCHANGED runs
       \/ /\ StageOf(p) \in {"mirror", "verify"}
          /\ Manifest(p, "failed",
                      IF StageOf(p) = "mirror" /\ ~hasLock[p] THEN NoLock ELSE HostLockOf(p))
    /\ ex' = NoProc
    /\ Goto(p, "failed")
    /\ UNCHANGED <<hostLock, sh, sidecar, begun, plan, localVars>>

-------------------------------------------------------------------------------
(* Readers.                                                                *)

Matching(e, l) == {r \in Run : /\ runs[r].kept
                              /\ runs[r].status \in {"success", "failed"}
                              /\ runs[r].env = e /\ runs[r].lock = l}

Verified(r) == runs[r].status = "success" /\ runs[r].log

(* Mutant: an older success will do. *)
AnyVerified(e, l) == \E r \in Matching(e, l) : Verified(r)

(* The matching manifest of the last name is of a successful verification. *)
Vouched(e, l) ==
    \E r \in Matching(e, l) :
        /\ \A s \in Matching(e, l) : runs[s].at <= runs[r].at
        /\ Verified(r)

(* require_verified_source_mirror *)
Admits(e, l) == tree # {} /\ Vouched(e, l)

(* No lock is held. *)
Gate(p) ==
    /\ pc[p] = "gate"
    /\ Goto(p, IF HostLockOf(p) # NoLock /\ Admits(env[p], HostLockOf(p)) THEN "waitShared" ELSE "failed")
    /\ UNCHANGED <<hostLock, lockVars, session, tree, sidecar, runVars, plan, localVars>>

AcquireShared(p) ==
    /\ pc[p] = "waitShared"
    /\ ex = NoProc
    /\ sh' = sh \cup {p}
    /\ Goto(p, "read")
    /\ UNCHANGED <<hostLock, ex, session, tree, sidecar, runVars, plan, localVars>>

(* The image build, which succeeds or fails. *)
Read(p) ==
    /\ pc[p] = "read"
    /\ sh' = sh \ {p}
    /\ \E outcome \in {"done", "failed"} : Goto(p, outcome)
    /\ UNCHANGED <<hostLock, ex, session, tree, sidecar, runVars, plan, localVars>>

-------------------------------------------------------------------------------
(* The environment.                                                        *)

Crash(p) ==
    /\ "crash" \in Faults
    /\ pc[p] \notin Terminal \cup {"idle"}
    /\ Part(p)
    /\ ex' = IF ex = p THEN NoProc ELSE ex
    /\ sh' = sh \ {p}
    /\ Goto(p, "crashed")
    /\ UNCHANGED <<hostLock, sidecar, runVars, plan, localVars>>

(* A checkout or a version change replaces or removes a lock, between the  *)
(* invocations that work for its environment.                              *)
EditLock(e) ==
    /\ "edit" \in Faults
    /\ \A p \in Proc : env[p] = e => pc[p] \in Terminal
    /\ \E l \in (Lock \cup {NoLock}) \ {hostLock[e]} :
          hostLock' = [hostLock EXCEPT ![e] = l]
    /\ UNCHANGED <<lockVars, session, tree, sidecar, runVars, pc, plan, localVars>>

Step(p) ==
    \/ CreateWorker(p) \/ EnterStage(p) \/ Finish(p)
    \/ AcquireExclusive(p) \/ ImportLock(p) \/ Concretize(p) \/ WriteBack(p) \/ MirrorCreate(p)
    \/ RecordSuccess(p) \/ ExportFetchSpecs(p) \/ Prune(p) \/ StageFails(p)
    \/ Gate(p) \/ AcquireShared(p) \/ Read(p)

Finished == (\A p \in Proc : pc[p] \in Terminal) /\ UNCHANGED vars

Next ==
    \/ \E p \in Proc : Start(p) \/ Step(p) \/ Crash(p)
    \/ \E e \in Env : EditLock(e)
    \/ Finished

MirrorSpec == Init /\ [][Next]_vars
FairSpec == MirrorSpec /\ \A p \in Proc : WF_vars(Step(p))

-------------------------------------------------------------------------------
(* Properties.                                                             *)

PC == Terminal \cup {"idle", "gate", "waitShared", "worker", "next", "waitExclusive",
                     "prepare", "writeBack", "create", "record", "export", "apply", "read"}

(* Every variable keeps its type. *)
TypeOK ==
    /\ hostLock \in [Env -> Lock \cup {NoLock}]
    /\ ex \in Proc \cup {NoProc} /\ sh \subseteq Proc
    /\ session \in [name : {EnvName[e] : e \in Env} \cup {NoName}, lock : Lock \cup {NoLock}]
    /\ tree \subseteq Source
    /\ sidecar \in Lock \cup {NoLock}
    /\ runs \in [Run -> [env : Env \cup {NoEnv}, lock : Lock \cup {NoLock},
                         status : {"absent", "open", "success", "failed"},
                         log : BOOLEAN, kept : BOOLEAN, at : 0 .. MaxRuns]]
    /\ begun \in 0 .. MaxRuns
    /\ pc \in [Proc -> PC]
    /\ plan \in [Proc -> Seq(Stage) \cup Building]
    /\ env \in [Proc -> Env \cup {NoEnv}]
    /\ hasLock \in [Proc -> BOOLEAN]
    /\ run \in [Proc -> 0 .. MaxRuns]

(* While anybody builds from the mirror, no source appears or disappears. *)
ReadersSeeOneMirror == [][sh # {} => tree' = tree]_vars

(* The manifests begin to vouch for a lock only when all its sources are   *)
(* in the mirror, whichever runs failed, crashed, concretized, were        *)
(* removed or changed the worker's session in the meantime.                *)
AdmissionSound ==
    [][\A e \in Env, l \in Lock :
         ~Vouched(e, l) /\ Vouched(e, l)' => Needs[l] \subseteq tree']_vars

(* The gate never goes by an older success: of all the runs of this lock   *)
(* that ended, also those whose directory has been removed, the last one   *)
(* was a verification that succeeded.                                      *)
GateLatest ==
    \A e \in Env, l \in Lock : Vouched(e, l) =>
        \E r \in Run :
            /\ runs[r].env = e /\ runs[r].lock = l /\ Verified(r)
            /\ \A s \in r + 1 .. MaxRuns :
                 runs[s].env = e /\ runs[s].lock = l
                   => runs[s].status \notin {"success", "failed"} \/ Verified(s)

(* Every started invocation ends. *)
EveryRunEnds == \A p \in Proc : pc[p] # "idle" ~> pc[p] \in Terminal

(* spack_ops.py: the export "must run in the same container session as     *)
(* mirror create so the recipes and the concretized environment are        *)
(* exactly what produced the tree": what a prune removes is decided by the *)
(* lock that its own run mirrored.                                         *)
ExportIsOwn ==
    [][\A p \in Proc : pc[p] = "apply" /\ StageOf(p) = "prune" /\ tree' # tree
         => sidecar = runs[run[p]].lock]_vars

===============================================================================
