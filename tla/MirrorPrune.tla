------------------------------ MODULE MirrorPrune ------------------------------
(***************************************************************************)
(* Which files of the source mirror a prune removes, over histories of     *)
(* runs: each run fills the mirror for its environment, exports its fetch  *)
(* specs, plans and unlinks; branches move upstream between the fills,     *)
(* other invocations fill the mirror while the lock is free, CI restores   *)
(* it with all modification times at the epoch, and an invocation may end  *)
(* anywhere.                                                               *)
(*                                                                         *)
(* A blob is one file below _source-cache: its directory and its stem, a   *)
(* commit or a checksum.  A dag is what a set of fetch specs says: the     *)
(* blobs it pins and the branches it follows without a commit.             *)
(***************************************************************************)
EXTENDS Naturals, FiniteSets

CONSTANTS
    Blob, Dir, Branch, Link, Package,
    Archive,     \* the directory of the archives; the others are repositories
    DirOf,       \* the directory of each blob
    RepoOf,      \* the repository of each branch
    NameBefore,  \* pairs of blobs: the name of the first sorts before
    Target,      \* the blob each package link points to
    PackageOf,   \* the package directory each link is in
    Stray,       \* package directories that hold other files
    Dags,        \* the fetch specs of the environments
    MaxClock,    \* bound on the mirror creations
    Faults

Git == Dir \ {Archive}
Fault == {"crash", "restore", "others"}
NoDag == [pins |-> {}, floats |-> {}]

ASSUME ConstantsAssumption ==
    /\ Archive \in Dir
    /\ DirOf \in [Blob -> Dir]
    /\ RepoOf \in [Branch -> Git]
    /\ Target \in [Link -> Blob]
    /\ PackageOf \in [Link -> Package]
    /\ Stray \subseteq Package
    /\ Dags \subseteq [pins : SUBSET Blob, floats : SUBSET Branch] \ {NoDag}
    /\ MaxClock \in Nat
    /\ Faults \subseteq Fault

(* The files of a directory have different names, which sort in one order. *)
ASSUME NameBeforeAssumption ==
    /\ NameBefore \subseteq Blob \X Blob
    /\ \A b, c \in Blob :
          b # c /\ DirOf[b] = DirOf[c] => <<b, c>> \in NameBefore \/ <<c, b>> \in NameBefore
    /\ \A b \in Blob : <<b, b>> \notin NameBefore
    /\ \A b, c, d \in Blob :
          <<b, c>> \in NameBefore /\ <<c, d>> \in NameBefore => <<b, d>> \in NameBefore

(* What fetch specs list is finite. *)
ASSUME DagsAssumption == \A d \in Dags : IsFiniteSet(d.pins) /\ IsFiniteSet(d.floats)

VARIABLES
    tree,     \* the blobs in the mirror
    mtime,    \* modification times
    links,    \* the package links
    folders,  \* the package directories
    clock,    \* how many mirror creations there have been
    sidecar,  \* the fetch specs in fetch-specs.json
    pc,       \* where the invocation is
    dag,      \* the fetch specs it goes by
    fresh,    \* fresh_after
    got,      \* what it has downloaded
    plan,     \* what it still has to remove
    broken    \* whether an application of a plan has ever been cut short

mirrorVars == <<tree, mtime, links, folders>>
worldVars == <<clock, sidecar>>
localVars == <<dag, fresh, got>>
vars == <<mirrorVars, worldVars, pc, localVars, plan, broken>>

NoPlan == [blobs |-> {}, links |-> {}, folders |-> {}]

(* Mutant: everything counts as fetched by this run. *)
Zero == 0

(* float("inf"): nothing counts as fetched by this run. *)
Never == MaxClock + 1

(* An invocation has ended: its local variables are gone. *)
Ended == pc' = "idle" /\ dag' = NoDag /\ fresh' = Never /\ got' = {}

In(d) == {b \in tree : DirOf[b] = d}

Init ==
    /\ tree = {} /\ mtime = [b \in Blob |-> 0]
    /\ links = {} /\ folders = Stray
    /\ clock = 0
    /\ sidecar = NoDag
    /\ pc = "idle"
    /\ dag = NoDag /\ fresh = Never /\ got = {}
    /\ plan = NoPlan /\ broken = FALSE

-------------------------------------------------------------------------------
(* Filling.                                                                *)

(* The commits that the branches may point to upstream, at any time. *)
Tips == {t \in [Branch -> Blob] : \A r \in Branch : DirOf[t[r]] = RepoOf[r]}

(* What a creation for d may have to fetch: its pins and a tip per branch. *)
Wanted(d) == {d.pins \cup {t[r] : r \in d.floats} : t \in Tips}

(* `spack mirror create` downloads the missing ones of bs and links them all. *)
MirrorCreate(bs) ==
    LET linked == {k \in Link : Target[k] \in bs}
    IN /\ clock < MaxClock
       /\ clock' = clock + 1
       /\ tree' = tree \cup bs
       /\ mtime' = [b \in Blob |-> IF b \in bs \ tree THEN clock + 1 ELSE mtime[b]]
       /\ links' = links \cup linked
       /\ folders' = folders \cup {PackageOf[k] : k \in linked}

(* The start is noted before the invocation waits for the mirror lock. *)
Start ==
    /\ pc = "idle" /\ clock < MaxClock
    /\ \E d \in Dags : dag' = d
    /\ fresh' = clock + 1
    /\ got' = {}
    /\ pc' = "started"
    /\ UNCHANGED <<mirrorVars, worldVars, plan, broken>>

Fill ==
    /\ pc = "started"
    /\ \E bs \in Wanted(dag) : MirrorCreate(bs) /\ got' = bs \ tree
    /\ pc' = "filled"
    /\ UNCHANGED <<sidecar, dag, fresh, plan, broken>>

(* Some downloads fail, or the invocation is killed: the rest stays.       *)
FillPartly ==
    /\ pc = "started" /\ "crash" \in Faults
    /\ \E bs \in Wanted(dag) : \E part \in SUBSET bs : MirrorCreate(part)
    /\ Ended
    /\ UNCHANGED <<sidecar, plan, broken>>

-------------------------------------------------------------------------------
(* Planning.                                                               *)

(* _classify: repositories with a pinned commit, and those that float. *)
Allowed == {DirOf[b] : b \in dag.pins} \cap Git
Floating == {RepoOf[r] : r \in dag.floats}

(* Mutant: the second in which the run started does not count. *)
FreshAfter(bs) == {b \in bs : mtime[b] > fresh}

Fresh(bs) == {b \in bs : mtime[b] >= fresh}

(* Mutant: a branch that has not moved keeps nothing. *)
NoSurvivor(bs) == {b \in bs : FALSE}

(* The newest by modification time, then by name. *)
Survivor(bs) ==
    {b \in bs : \A c \in bs \ {b} :
        mtime[b] > mtime[c] \/ (mtime[b] = mtime[c] /\ <<c, b>> \in NameBefore)}

KeepFloating(bs) == IF Fresh(bs) # {} THEN Fresh(bs) ELSE Survivor(bs)

(* Mutant: a repository that floats is not asked for its pins. *)
KeepEither(d) == IF d \in Floating THEN KeepFloating(In(d)) ELSE In(d) \cap dag.pins

(* A repository may have both pinned commits (class A) and floating        *)
(* branches (class B).                                                     *)
Keep(d) ==
    {b \in In(d) : \/ d \in Allowed /\ b \in dag.pins
                   \/ d \in Floating /\ b \in KeepFloating(In(d))}

(* Without any checksum the archives are kept. *)
DoomedArchives ==
    {b \in In(Archive) \ dag.pins : \E c \in dag.pins : DirOf[c] = Archive}

(* A repository that no spec names (class C) is kept whole. *)
Doomed == DoomedArchives \cup UNION {In(d) \ Keep(d) : d \in Allowed \cup Floating}

(* Mutant: only the links into the git cache are repaired. *)
GitOrphans(bs) == {k \in links : Target[k] \in bs /\ DirOf[Target[k]] # Archive}

Orphans(bs) == {k \in links : Target[k] \in bs}

(* Mutant: a folder goes although it keeps a link. *)
Touched(gone) == {PackageOf[k] : k \in gone} \ Stray

(* Folders that lose their last link and hold nothing else. *)
Emptied(gone) == {PackageOf[k] : k \in gone} \ (Stray \cup {PackageOf[k] : k \in links \ gone})

(* Unless told to apply the plan the invocation only reports it. *)
MakePlan ==
    \/ /\ plan' = [blobs |-> Doomed, links |-> Orphans(Doomed),
                    folders |-> Emptied(Orphans(Doomed))]
       /\ pc' = "apply"
       /\ UNCHANGED localVars
    \/ plan' = NoPlan /\ Ended

(* run_mirror_prune at the end of a run that has filled the mirror. *)
PruneRun ==
    /\ pc = "filled"
    /\ sidecar' = dag
    /\ MakePlan
    /\ UNCHANGED <<mirrorVars, clock, broken>>

(* `assets prune`: reads what an earlier run exported. *)
Reuse ==
    /\ pc = "idle" /\ sidecar # NoDag
    /\ dag' = sidecar /\ fresh' = Never /\ got' = {}
    /\ pc' = "reuse"
    /\ UNCHANGED <<mirrorVars, worldVars, plan, broken>>

PruneAgain ==
    /\ pc = "reuse"
    /\ MakePlan
    /\ UNCHANGED <<mirrorVars, worldVars, broken>>

-------------------------------------------------------------------------------
(* Applying the plan: blobs, then links, then folders.                     *)

UnlinkBlob ==
    /\ pc = "apply"
    /\ \E b \in plan.blobs :
          /\ tree' = tree \ {b}
          /\ mtime' = [mtime EXCEPT ![b] = 0]
          /\ plan' = [plan EXCEPT !.blobs = @ \ {b}]
    /\ UNCHANGED <<links, folders, worldVars, pc, localVars, broken>>

UnlinkLink ==
    /\ pc = "apply" /\ plan.blobs = {}
    /\ \E k \in plan.links :
          /\ links' = links \ {k}
          /\ plan' = [plan EXCEPT !.links = @ \ {k}]
    /\ UNCHANGED <<tree, mtime, folders, worldVars, pc, localVars, broken>>

(* rmdir, which refuses a folder that is not empty. *)
RemoveFolder ==
    /\ pc = "apply" /\ plan.blobs = {} /\ plan.links = {}
    /\ \E p \in plan.folders :
          /\ folders' = folders \ {p}
          /\ plan' = [plan EXCEPT !.folders = @ \ {p}]
    /\ UNCHANGED <<tree, mtime, links, worldVars, pc, localVars, broken>>

Applied ==
    /\ pc = "apply" /\ plan = NoPlan
    /\ pc' = "pruned"
    /\ UNCHANGED <<mirrorVars, worldVars, localVars, plan, broken>>

Return ==
    /\ pc \in {"filled", "pruned"}
    /\ Ended
    /\ UNCHANGED <<mirrorVars, worldVars, plan, broken>>

-------------------------------------------------------------------------------
(* The environment.                                                        *)

(* A kill, or an error of a system call. *)
Crash ==
    /\ "crash" \in Faults
    /\ pc # "idle"
    /\ Ended
    /\ plan' = NoPlan
    /\ broken' = (broken \/ (pc = "apply" /\ plan # NoPlan))
    /\ UNCHANGED <<mirrorVars, worldVars>>

(* Another invocation fills the mirror, or a part of it, while this one    *)
(* waits for the lock or has given it up between its run and its prune.    *)
OthersFill ==
    /\ "others" \in Faults
    /\ pc \in {"started", "filled"}
    /\ \E d \in Dags : \E bs \in Wanted(d) : \E part \in SUBSET bs : MirrorCreate(part)
    /\ UNCHANGED <<sidecar, pc, localVars, plan, broken>>

(* CI publishes the mirror and restores it with all times at the epoch. *)
Restore ==
    /\ "restore" \in Faults
    /\ pc = "idle"
    /\ mtime' = [b \in Blob |-> 0]
    /\ UNCHANGED <<tree, links, folders, worldVars, pc, localVars, plan, broken>>

Next ==
    \/ Start \/ Fill \/ FillPartly \/ PruneRun \/ Reuse \/ PruneAgain
    \/ UnlinkBlob \/ UnlinkLink \/ RemoveFolder \/ Applied \/ Return
    \/ Crash \/ OthersFill \/ Restore

PruneSpec == Init /\ [][Next]_vars

-------------------------------------------------------------------------------
(* Properties.                                                             *)

Dag == [pins : SUBSET Blob, floats : SUBSET Branch]

(* Every variable keeps its type. *)
TypeOK ==
    /\ tree \subseteq Blob /\ mtime \in [Blob -> Nat]
    /\ links \subseteq Link /\ folders \subseteq Package
    /\ clock \in 0 .. MaxClock
    /\ sidecar \in Dag /\ dag \in Dag
    /\ pc \in {"idle", "started", "filled", "reuse", "apply", "pruned"}
    /\ fresh \in 1 .. MaxClock + 1
    /\ got \subseteq Blob
    /\ plan \in [blobs : SUBSET Blob, links : SUBSET Link, folders : SUBSET Package]
    /\ broken \in BOOLEAN

(* Identity decides what goes: nothing that the specs pin, and nothing of  *)
(* a repository that they do not name or of archives that they give no     *)
(* checksum for.                                                           *)
IdentityDecides ==
    [][\A b \in tree \ tree' :
         /\ b \notin dag.pins
         /\ \/ \E c \in dag.pins : DirOf[c] = DirOf[b]
            \/ DirOf[b] \in {RepoOf[r] : r \in dag.floats}]_vars

(* Whatever a run has downloaded itself is there when it ends. *)
FetchedKept == got \subseteq tree

(* A repository of a floating branch is never emptied, also when an        *)
(* application of a plan is cut short and planned again.                   *)
FloatingSurvives ==
    [][\A r \in dag.floats : In(RepoOf[r]) # {} => In(RepoOf[r])' # {}]_vars

(* As long as no application has been cut short, every package link has    *)
(* its blob, whenever nobody is unlinking.                                 *)
LinksFollow == ~broken /\ pc # "apply" => \A k \in links : Target[k] \in tree

(* rmdir never finds a folder that holds a link or another file. *)
FoldersRemovable ==
    \A p \in plan.folders : p \notin Stray /\ {k \in links : PackageOf[k] = p} \subseteq plan.links

===============================================================================
