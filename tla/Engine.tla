------------------------------- MODULE Engine -------------------------------
(* Several invocations of hpc_cf share one container engine and one artifacts *)
(* directory without a lock: images are built in stages and exported through  *)
(* an OCI archive into a SIF (sif.py), storage GC removes what builds have    *)
(* left (storage_gc.py), and `assets` runs Spack in one worker container      *)
(* (container.py).  Containers, references and archives have fixed names, so  *)
(* each invocation looks at things that another may change before it acts.    *)
EXTENDS Integers, FiniteSets

CONSTANTS
    Proc,       \* invocations
    Ref,        \* references to application images with one last segment and
                \* tag: they are all archived in the same file
    Root,       \* checkouts, with the options that the worker is created with
    MaxImage,   \* bound on the number of images that are built
    Commands,   \* which commands an instance runs
    Faults,     \* what else an instance lets happen
    NoRef, NoRoot, NoProc

ASSUME EngineAssumption ==
    /\ MaxImage \in Nat \ {0}
    /\ Commands \subseteq {"build", "sif", "gc", "assets"}
    /\ Faults \subseteq {"kill", "tag", "rm", "rebuild"}
    /\ NoRef \notin Ref /\ NoRoot \notin Root /\ NoProc \notin Proc

VARIABLES
    proc,       \* proc[p]: where an invocation is, and its local variables
    made,       \* how many images were built: images are numbered, their Ids
    image,      \* image[r]: the Id of the image that r names, 0 for none
    mirror,     \* the Id of the mirror-builder image, 0 for none
    working,    \* working containers of builds, running or left behind
    tar,        \* the OCI archive and who writes it
    sidecar,    \* the Id in the archive's sidecar file, 0 for no file
    worker,     \* the worker container
    disturbed   \* history: whether the archive is one of several hands

vars == <<proc, made, image, mirror, working, tar, sidecar, worker, disturbed>>
images == <<made, image, mirror>>
archive == <<tar, sidecar, disturbed>>

-----------------------------------------------------------------------------
Looking == {"inspected", "unlinkTar", "unlinkId", "save"}
Exporting == Looking \cup {"saving", "writeId", "convert"}
Session == {"ensure", "resolve", "look", "compare", "status", "destroy", "create", "start",
            "exec"}

Image == 0 .. MaxImage

(* What killed builds leave behind counts as one container: only a         *)
(* collection reads it, to remove it.                                      *)
Container == (Proc \X {"running"}) \cup {<<NoProc, "left">>}

Record ==
    [at : {"idle", "between", "stage", "list", "remove"} \cup Exporting \cup Session,
     stage : 1 .. 3, ref : Ref \cup {NoRef}, root : Root \cup {NoRoot}, id : Image,
     copy : Image,                          \* what `save` is writing
     force : BOOLEAN, seen : SUBSET Container,
     late : SUBSET Proc,                    \* history: builds begun since the scan
     clean : BOOLEAN,                       \* history: alone, and its reference unmoved
     company : {"none", "same", "other"}]   \* history: who else used the worker

NoTar == [by |-> NoProc, holds |-> 0]       \* 0: the archive is incomplete
NoWorker == [root |-> NoRoot, label |-> 0, running |-> FALSE]
Idle == [at |-> "idle", stage |-> 1, ref |-> NoRef, root |-> NoRoot, id |-> 0, copy |-> 0,
         force |-> FALSE, seen |-> {}, late |-> {}, clean |-> TRUE, company |-> "none"]

Init ==
    /\ proc = [p \in Proc |-> Idle]
    /\ made = 0 /\ image = [r \in Ref |-> 0] /\ mirror = 0
    /\ working = {}
    /\ tar = NoTar /\ sidecar = 0 /\ disturbed = FALSE
    /\ worker = NoWorker

At(p, at) == proc[p].at = at
Set(p, rec) == proc' = [proc EXCEPT ![p] = rec]
To(p, at) == Set(p, [proc[p] EXCEPT !.at = at])

(* The command returns, or an error ends it: nothing is cleaned up. *)
Leave(p) == Set(p, Idle)

-----------------------------------------------------------------------------
(* Builds: three stages, each of them a process of the engine's. *)

(* A Dockerfile without builder-installed is built without the first stage. *)
Build(p, r) ==
    /\ At(p, "idle") /\ "build" \in Commands
    /\ \E first \in {1, 2} :
            Set(p, [Idle EXCEPT !.at = "between", !.stage = first, !.ref = r])
    /\ UNCHANGED <<images, working, archive, worker>>

BeginStage(p) ==
    /\ At(p, "between")
    /\ proc' = [q \in Proc |->
            IF q = p THEN [proc[p] EXCEPT !.at = "stage"]
            ELSE [proc[q] EXCEPT !.late = IF At(q, "list") THEN @ \cup {p} ELSE @]]
    /\ working' = working \cup {<<p, "running">>}
    /\ UNCHANGED <<images, archive, worker>>

(* The reference r names another image from now on, container c is no more. *)
Elsewhere(q, r, c) ==
    [proc[q] EXCEPT !.clean = @ /\ ~(proc[q].ref = r /\ proc[q].at \in Looking),
                    !.seen = @ \ {c}]

(* The layers may all come from the cache, those of an older image too. *)
EndStage(p, id) ==
    LET last == proc[p].stage = 3
        r == IF last THEN proc[p].ref ELSE NoRef
    IN
    /\ At(p, "stage") /\ <<p, "running">> \in working
    /\ IF last THEN id \in 1 .. made + 1 /\ id <= MaxImage ELSE id = 0
    /\ proc' = [q \in Proc |->
            IF q # p THEN Elsewhere(q, r, <<p, "running">>)
            ELSE IF last THEN Idle
            ELSE [proc[p] EXCEPT !.at = "between", !.stage = @ + 1]]
    /\ working' = working \ {<<p, "running">>}
    /\ made' = IF id > made THEN id ELSE made
    /\ image' = IF last THEN [image EXCEPT ![r] = id] ELSE image
    /\ UNCHANGED <<mirror, archive, worker>>

(* A command of the stage fails, as it does when its container is gone. *)
FailStage(p) ==
    /\ At(p, "stage")
    /\ proc' = [q \in Proc |-> IF q = p THEN Idle ELSE Elsewhere(q, NoRef, <<p, "running">>)]
    /\ working' = working \ {<<p, "running">>}
    /\ UNCHANGED <<images, archive, worker>>

-----------------------------------------------------------------------------
(* build_sif *)

(* select_engine_with_image: the Id behind the reference, now. *)
Inspect(p, r) ==
    LET others == {q \in Proc \ {p} : proc[q].at \in Exporting} IN
    /\ At(p, "idle") /\ "sif" \in Commands
    /\ image[r] # 0
    /\ proc' = [q \in Proc |->
            IF q = p THEN [Idle EXCEPT !.at = "inspected", !.ref = r, !.id = image[r],
                                       !.clean = others = {}]
            ELSE [proc[q] EXCEPT !.clean = @ /\ q \notin others]]
    /\ disturbed' = (disturbed \/ others # {})
    /\ UNCHANGED <<images, working, tar, sidecar, worker>>

Decide(p) ==
    /\ At(p, "inspected")
    /\ To(p, IF tar = NoTar THEN "save"
             ELSE IF sidecar = proc[p].id THEN "convert" ELSE "unlinkTar")
    /\ UNCHANGED <<images, working, archive, worker>>

UnlinkTar(p) ==
    /\ At(p, "unlinkTar")
    /\ tar' = NoTar
    /\ To(p, "unlinkId")
    /\ UNCHANGED <<images, working, sidecar, disturbed, worker>>

(* Mutant: the sidecar stays until it is overwritten. *)
KeepId(p) ==
    /\ At(p, "unlinkId")
    /\ To(p, "save")
    /\ UNCHANGED <<images, working, archive, worker>>
UnlinkId(p) ==
    /\ At(p, "unlinkId")
    /\ sidecar' = 0
    /\ To(p, "save")
    /\ UNCHANGED <<images, working, tar, disturbed, worker>>

(* `engine save` goes by the reference; a file in the way is refused or       *)
(* overwritten, depending on the engine.                                      *)
BeginSave(p) ==
    /\ At(p, "save")
    /\ \/ /\ image[proc[p].ref] # 0
          /\ tar' = [by |-> p, holds |-> 0]
          /\ Set(p, [proc[p] EXCEPT !.at = "saving", !.copy = image[proc[p].ref]])
       \/ /\ tar # NoTar
          /\ Leave(p)
          /\ UNCHANGED tar
    /\ UNCHANGED <<images, working, sidecar, disturbed, worker>>

EndSave(p) ==
    /\ At(p, "saving")
    /\ tar' = IF tar.by = p THEN [by |-> NoProc, holds |-> proc[p].copy] ELSE tar
    /\ Set(p, [proc[p] EXCEPT !.at = "writeId", !.copy = 0])
    /\ UNCHANGED <<images, working, sidecar, disturbed, worker>>

(* The Id is the one from the beginning. *)
WriteId(p) ==
    /\ At(p, "writeId")
    /\ sidecar' = proc[p].id
    /\ disturbed' = ~proc[p].clean
    /\ To(p, "convert")
    /\ UNCHANGED <<images, working, tar, worker>>

(* apptainer reads the archive; an incomplete one is an error. *)
Convert(p) ==
    /\ At(p, "convert")
    /\ Leave(p)
    /\ UNCHANGED <<images, working, archive, worker>>

-----------------------------------------------------------------------------
(* run_storage_gc *)

(* Mutant: builds of an intermediate stage are not recognized. *)
FinalBuilds == {p \in Proc : At(p, "stage") /\ proc[p].stage = 3}
ActiveBuilds == {p \in Proc : At(p, "stage")}

(* Refuses while a build is active, unless forced. *)
Scan(p, force) ==
    /\ At(p, "idle") /\ "gc" \in Commands
    /\ ActiveBuilds = {} \/ force
    /\ Set(p, [Idle EXCEPT !.at = "list", !.force = force])
    /\ UNCHANGED <<images, working, archive, worker>>

List(p) ==
    /\ At(p, "list")
    /\ Set(p, [proc[p] EXCEPT !.at = "remove", !.seen = working])
    /\ UNCHANGED <<images, working, archive, worker>>

Remove(p) ==
    /\ At(p, "remove")
    /\ working' = working \ proc[p].seen
    /\ Leave(p)
    /\ UNCHANGED <<images, archive, worker>>

-----------------------------------------------------------------------------
(* Container.create, exec *)

(* An invocation of `assets` begins. *)
Begin(p, root) ==
    LET others == {q \in Proc \ {p} : proc[q].at \in Session} IN
    /\ At(p, "idle") /\ "assets" \in Commands
    /\ proc' = [q \in Proc |->
            IF q = p
            THEN [Idle EXCEPT !.at = "ensure", !.root = root, !.company =
                    IF others = {} THEN "none"
                    ELSE IF \A o \in others : proc[o].root = root THEN "same" ELSE "other"]
            ELSE [proc[q] EXCEPT !.company =
                    IF q \notin others THEN @
                    ELSE IF @ = "other" \/ proc[q].root # root THEN "other" ELSE "same"]]
    /\ UNCHANGED <<images, working, archive, worker>>

(* ensure_image: the mirror-builder image is built if there is none. *)
Ensure(p) ==
    /\ At(p, "ensure")
    /\ IF mirror # 0 THEN UNCHANGED <<made, mirror>>
       ELSE /\ made < MaxImage
            /\ made' = made + 1 /\ mirror' = made + 1
    /\ To(p, "resolve")
    /\ UNCHANGED <<image, working, archive, worker>>

Resolve(p) ==
    /\ At(p, "resolve")
    /\ Set(p, [proc[p] EXCEPT !.at = "look", !.id = mirror])
    /\ UNCHANGED <<images, working, archive, worker>>

(* Mutant: the mounts do not matter. *)
SameImage(p) == worker.label = proc[p].id
Matches(p) == worker.label = proc[p].id /\ worker.root = proc[p].root

(* Three calls of the engine: a worker removed since the first has no labels,  *)
(* and is not running.                                                        *)
Look(p) ==
    /\ At(p, "look")
    /\ To(p, IF worker = NoWorker THEN "create" ELSE "compare")
    /\ UNCHANGED <<images, working, archive, worker>>

Compare(p) ==
    /\ At(p, "compare")
    /\ To(p, IF Matches(p) THEN "status" ELSE "destroy")
    /\ UNCHANGED <<images, working, archive, worker>>

IsRunning(p) ==
    /\ At(p, "status")
    /\ To(p, IF worker.running THEN "exec" ELSE "start")
    /\ UNCHANGED <<images, working, archive, worker>>

Destroy(p) ==
    /\ At(p, "destroy")
    /\ worker' = NoWorker
    /\ To(p, "create")
    /\ UNCHANGED <<images, working, archive>>

(* Mutant: the labels are swapped. *)
Mislabelled(p) == [root |-> proc[p].id, label |-> proc[p].root, running |-> FALSE]
Labelled(p) == [root |-> proc[p].root, label |-> proc[p].id, running |-> FALSE]

(* The name may be taken by now. *)
Create(p) ==
    /\ At(p, "create")
    /\ IF worker = NoWorker THEN worker' = Labelled(p) /\ To(p, "start")
                            ELSE Leave(p) /\ UNCHANGED worker
    /\ UNCHANGED <<images, working, archive>>

Start(p) ==
    /\ At(p, "start")
    /\ IF worker # NoWorker THEN worker' = [worker EXCEPT !.running = TRUE] /\ To(p, "exec")
                            ELSE Leave(p) /\ UNCHANGED worker
    /\ UNCHANGED <<images, working, archive>>

(* Scripts are executed by the container's name until the command ends. *)
Finish(p) ==
    /\ At(p, "exec")
    /\ Leave(p)
    /\ UNCHANGED <<images, working, archive, worker>>

-----------------------------------------------------------------------------
(* Errors, and what operators do. *)

(* An invocation fails or is killed; a killed build leaves its container. *)
Stop(p) ==
    /\ "kill" \in Faults /\ ~At(p, "idle")
    /\ LET c == <<p, "running">>  left == <<NoProc, "left">> IN
        /\ working' = IF c \in working THEN (working \ {c}) \cup {left} ELSE working
        /\ proc' = [q \in Proc |->
                IF q = p THEN Idle
                ELSE [proc[q] EXCEPT !.seen = IF c \in @ THEN (@ \ {c}) \cup {left} ELSE @]]
    /\ disturbed' = (disturbed \/ At(p, "unlinkId"))
    /\ UNCHANGED <<images, tar, sidecar, worker>>

(* `podman tag`, `podman pull` *)
Tag(r, id) ==
    /\ "tag" \in Faults
    /\ id \in 1 .. made /\ id # image[r]
    /\ image' = [image EXCEPT ![r] = id]
    /\ proc' = [q \in Proc |-> Elsewhere(q, r, <<>>)]
    /\ UNCHANGED <<made, mirror, working, archive, worker>>

(* `rm artifacts/*.tar` *)
RemoveTar ==
    /\ "rm" \in Faults /\ tar # NoTar
    /\ tar' = NoTar
    /\ disturbed' = TRUE
    /\ proc' = [q \in Proc |-> [proc[q] EXCEPT !.clean = @ /\ ~(proc[q].at \in Exporting)]]
    /\ UNCHANGED <<images, working, sidecar, worker>>

(* The mirror-builder image is built anew by hand. *)
Rebuild ==
    /\ "rebuild" \in Faults /\ mirror # 0
    /\ made < MaxImage
    /\ made' = made + 1 /\ mirror' = made + 1
    /\ UNCHANGED <<proc, image, working, archive, worker>>

Next ==
    \/ \E p \in Proc :
        \/ \E r \in Ref : Build(p, r) \/ Inspect(p, r)
        \/ BeginStage(p) \/ (\E id \in Image : EndStage(p, id)) \/ FailStage(p)
        \/ Decide(p) \/ UnlinkTar(p) \/ UnlinkId(p) \/ BeginSave(p) \/ EndSave(p)
        \/ WriteId(p) \/ Convert(p)
        \/ (\E force \in BOOLEAN : Scan(p, force)) \/ List(p) \/ Remove(p)
        \/ \E root \in Root : Begin(p, root)
        \/ Ensure(p) \/ Resolve(p) \/ Look(p) \/ Compare(p) \/ IsRunning(p)
        \/ Destroy(p) \/ Create(p) \/ Start(p) \/ Finish(p) \/ Stop(p)
    \/ \E r \in Ref, id \in Image : Tag(r, id)
    \/ RemoveTar \/ Rebuild

EngineSpec == Init /\ [][Next]_vars

-----------------------------------------------------------------------------
(* Properties. *)

TypeOK ==
    /\ proc \in [Proc -> Record]
    /\ made \in Image /\ image \in [Ref -> Image] /\ mirror \in Image
    /\ working \subseteq Container
    /\ tar \in [by : Proc \cup {NoProc}, holds : Image] /\ sidecar \in Image
    /\ worker \in [root : Root \cup {NoRoot}, label : Image, running : BOOLEAN]
    /\ disturbed \in BOOLEAN

(* What apptainer converts is the image that the reference named when the     *)
(* export began, whether the archive is new or reused, whatever exports were  *)
(* killed and whatever other images were archived under the same name before. *)
(* Excepted is an archive that two exports had at once, whose reference moved *)
(* during the save, or that a kill or an operator parted from its sidecar.    *)
ExportIsImage ==
    \A p \in Proc :
        At(p, "convert") /\ ~disturbed => tar.holds = proc[p].id

(* GC does not take the container of a running build, unless it is forced or  *)
(* the build's process appeared only after GC had looked for builds.          *)
RunningBuildKept ==
    [][\A p \in Proc :
        <<p, "running">> \in working /\ <<p, "running">> \notin working'
        => \/ proc'[p] # proc[p]
           \/ \E g \in Proc : At(g, "remove") /\ (proc[g].force \/ p \in proc[g].late)]_vars

(* Scripts run in a worker that mounts the invocation's own checkout, if all  *)
(* invocations meanwhile are of that checkout; and as long as there is no     *)
(* other one, the worker is there, runs and carries the Id it was asked for.  *)
ExecInOwn ==
    \A p \in Proc :
        At(p, "exec") =>
            /\ proc[p].company # "other" /\ worker # NoWorker => worker.root = proc[p].root
            /\ proc[p].company = "none" => worker.running /\ Matches(p)
=============================================================================
