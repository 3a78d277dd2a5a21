----------------------------- MODULE LockProvenance -----------------------------
(***************************************************************************)
(* What spack.lock was concretized against, and how the commands that      *)
(* build with it find out: one environment, one run of `assets` at a time, *)
(* and an operator who edits by hand, with `pin set` and with `env         *)
(* set-version`.  Nothing keeps the run and the operator apart.            *)
(*                                                                         *)
(* Of env.yaml the model keeps its version and the places where a commit   *)
(* is written: a custom repository, a template variable or a comment.  A   *)
(* lock is what it was concretized against, which spack.lock does not say. *)
(***************************************************************************)
EXTENDS Naturals, FiniteSets

CONSTANTS
    Repo,       \* the git repositories among custom_repos
    Copy,       \* template variables named <repository>_repo_commit
    Remark,     \* comments that mention a commit
    Odd,        \* places that spell their commit in upper case
    UrlOf,      \* the URL of each repository
    CopyOf,     \* the repository each template variable is named after
    Commit, Version,
    None,       \* no commit, no file
    MaxChanges, \* bound on what the operator and upstream change
    Faults      \* a run or a command stops, tips are not read back, files
                \* are written under a run

Site == Repo \cup Copy \cup Remark
\* The files that carry a version; the templates and the README are as spack.yaml.
File == {"env.yaml", "spack.yaml"}
Fault == {"stop", "readback", "edit"}

ASSUME ConstantsAssumption ==
    /\ Odd \subseteq Site
    /\ UrlOf \in [Repo -> {UrlOf[r] : r \in Repo}]
    /\ CopyOf \in [Copy -> Repo]
    /\ None \notin Commit
    /\ None \notin [yaml : Version, pins : [Repo -> Commit \cup {None}]]
    /\ MaxChanges \in Nat
    /\ Faults \subseteq Fault

VARIABLES
    text,      \* the commit written at each place of env.yaml
    version,   \* the version written in each file
    lock,      \* what spack.lock was concretized against
    manifest,  \* lock-manifest.json
    resolved,  \* resolved-repos.yaml
    tip,       \* the commit each repository's branch points to upstream
    pc,        \* where the run is
    run,       \* its locals: has_lock, the commits of the environment it has
               \* loaded, resolved_repo_pins, and the worker's session
    cmd,       \* where the operator's command is
    todo,      \* the files it has still to write
    edit,      \* its locals: what it writes, what it has read, and for `pin
               \* set` the repositories it matched and the new commit
    changes,   \* how many changes there have been
    disturbed, \* whether the run's inputs have changed under it
    sealed,    \* whether the run that wrote the lock recorded it undisturbed
    cut        \* whether a command of the operator has ever been cut short

files == <<text, version>>
records == <<lock, manifest, resolved>>
runVars == <<pc, run>>
cmdVars == <<cmd, todo, edit, cut>>
ghosts == <<disturbed, sealed>>
vars == <<files, records, tip, runVars, cmdVars, changes, ghosts>>

NoPins == [r \in Repo |-> None]
NoRun == [hasLock |-> FALSE, pins |-> NoPins, markers |-> NoPins, session |-> None]

-------------------------------------------------------------------------------
(* What the environment's files say.                                       *)

(* load_environment_spec: the commits in custom_repos. *)
PinsIn(t) == [r \in Repo |-> t[r]]

(* load_resolved_environment_spec: floating repositories at what the last  *)
(* run resolved.                                                           *)
BuildView == [r \in Repo |-> IF text[r] # None THEN text[r] ELSE resolved[r]]

(* What a build compares with the manifest. *)
Inputs == [yaml |-> version["spack.yaml"], pins |-> BuildView]

(* Mutant: the writer looks at env.yaml only. *)
RawManifest == [yaml |-> version["spack.yaml"], pins |-> PinsIn(text)]

BuildManifest == [yaml |-> version["spack.yaml"], pins |-> BuildView]

(* The gate of builds finds a lock, a manifest and no drift. *)
Vouched == lock # None /\ manifest # None /\ manifest = Inputs

(* check_env_repo_pins: one commit, or none, for each URL; a template      *)
(* variable is the commit of a repository unless its own one floats.       *)
Guard(t) ==
    /\ \A r, q \in Repo : UrlOf[r] = UrlOf[q] => t[r] = t[q]
    /\ \A c \in Copy : t[CopyOf[c]] = None \/ \E r \in Repo : t[r] = t[c]

Texts == {t \in [Site -> Commit \cup {None}] : \A s \in Site \ Repo : t[s] # None}
Consistent == {t \in Texts : Guard(t)}

Init ==
    /\ text \in Consistent
    /\ \E v \in Version : version = [f \in File |-> v]
    /\ lock = None /\ manifest = None /\ resolved = [r \in Repo |-> None]
    /\ tip \in [Repo -> Commit]
    /\ pc = "idle" /\ run = NoRun
    /\ cmd = "idle" /\ todo = {} /\ edit = None
    /\ changes = 0
    /\ disturbed = FALSE /\ sealed = FALSE /\ cut = FALSE

-------------------------------------------------------------------------------
(* run_mirror.                                                             *)

Begin ==
    /\ pc = "idle"
    /\ pc' = "repos"
    /\ run' = [NoRun EXCEPT !.hasLock = (lock # None), !.pins = PinsIn(text)]
    /\ disturbed' = FALSE
    /\ UNCHANGED <<files, records, tip, cmdVars, changes, sealed>>

(* Mutant: the recipes of a floating repository are not fetched. *)
Unfetched == run.pins

(* A clean clone of each repository: at its pin or at the branch's tip. *)
Recipes == [r \in Repo |-> IF run.pins[r] # None THEN run.pins[r] ELSE tip[r]]

Tips == [r \in Repo |-> IF run.pins[r] = None THEN tip[r] ELSE None]

(* The tips are read back from the worker, which may fail silently. *)
PrepareRepos ==
    /\ pc = "repos"
    /\ pc' = "environment"
    /\ \/ /\ run' = [run EXCEPT !.session = [yaml |-> None, pins |-> Recipes], !.markers = Tips]
          /\ UNCHANGED disturbed
       \/ /\ "readback" \in Faults /\ Tips # NoPins
          /\ run' = [run EXCEPT !.session = [yaml |-> None, pins |-> Recipes]]
          /\ disturbed' = TRUE
    /\ UNCHANGED <<files, records, tip, cmdVars, changes, sealed>>

(* A copy of spack.yaml; an existing lock is imported. *)
PrepareEnvironment ==
    /\ pc = "environment"
    /\ run.hasLock => lock # None
    /\ pc' = IF run.hasLock THEN "sidecar" ELSE "concretize"
    /\ run' = [run EXCEPT !.session.yaml = version["spack.yaml"]]
    /\ UNCHANGED <<files, records, tip, cmdVars, changes, ghosts>>

(* Concretize and write the lock back to the host.  What follows is the    *)
(* mirror creation, which changes none of this and often fails.            *)
Concretize ==
    /\ pc = "concretize"
    /\ pc' = "sidecar"
    /\ lock' = run.session
    /\ sealed' = FALSE
    /\ UNCHANGED <<files, manifest, resolved, tip, run, cmdVars, changes, disturbed>>

(* Nothing is written when no tip was resolved. *)
WriteSidecar ==
    /\ pc = "sidecar"
    /\ pc' = "manifest"
    /\ resolved' = IF run.markers = NoPins THEN resolved ELSE run.markers
    /\ UNCHANGED <<files, lock, manifest, tip, run, cmdVars, changes, ghosts>>

(* Mutant: a lock that was there before is vouched for as well. *)
AnyLock == TRUE

(* Only a lock of its own does the run vouch for. *)
Concretized == ~run.hasLock

(* From the files as they are now. *)
WriteManifest ==
    /\ pc = "manifest"
    /\ pc' = "done"
    /\ manifest' = IF Concretized THEN BuildManifest ELSE manifest
    /\ sealed' = IF run.hasLock THEN sealed ELSE ~disturbed
    /\ UNCHANGED <<files, lock, resolved, tip, run, cmdVars, changes, disturbed>>

Stop ==
    /\ pc' = "idle"
    /\ run' = NoRun
    /\ disturbed' = FALSE
    /\ UNCHANGED <<files, records, tip, cmdVars, changes, sealed>>

End == pc = "done" /\ Stop

(* A failure or a kill; a lock to import that is gone. *)
RunStops ==
    /\ \/ pc \notin {"idle", "done"} /\ "stop" \in Faults
       \/ pc = "environment" /\ run.hasLock /\ lock = None
    /\ Stop

-------------------------------------------------------------------------------
(* The operator's commands: what both do with files.                       *)

Change ==
    /\ changes < MaxChanges
    /\ changes' = changes + 1

Contents == [text |-> text, version |-> version]

(* The files are written in place, one after the other. *)
WriteFile ==
    /\ \E f \in todo :
          /\ f = "env.yaml" \/ "env.yaml" \notin todo
          /\ text' = IF f = "env.yaml" THEN edit.goal.text ELSE text
          /\ version' = [version EXCEPT ![f] = edit.goal.version[f]]
          /\ todo' = todo \ {f}
    /\ pc = "idle" \/ "edit" \in Faults
    /\ disturbed' = (pc # "idle")
    /\ UNCHANGED <<records, tip, runVars, cmd, edit, cut, changes, sealed>>

Return ==
    /\ cmd' = "idle" /\ edit' = None
    /\ UNCHANGED <<files, manifest, resolved, tip, runVars, todo, cut, changes, ghosts>>

(* What was written did not pass: write back what was read. *)
Revert(written) ==
    /\ cmd' = "revert"
    /\ edit' = [edit EXCEPT !.goal = edit.backup]
    /\ todo' = written
    /\ UNCHANGED <<files, records, tip, runVars, cut, changes, ghosts>>

Reverted == cmd = "revert" /\ todo = {} /\ Return /\ UNCHANGED lock

(* A kill; or an error while writing, which is outside the `try`. *)
CommandStops ==
    /\ "stop" \in Faults
    /\ cmd # "idle"
    /\ cmd' = "idle" /\ todo' = {} /\ edit' = None
    /\ cut' = TRUE
    /\ UNCHANGED <<files, records, tip, runVars, changes, ghosts>>

-------------------------------------------------------------------------------
(* pin set.                                                                *)

(* A selector is a namespace or part of a URL. *)
Selections == {{r} : r \in Repo} \cup {{q \in Repo : UrlOf[q] = UrlOf[r]} : r \in Repo}

(* Where text.replace finds the old commit, in the case it was parsed to. *)
Occurrences(old) == {s \in Site \ Odd : text[s] = old}

(* The places that have to change: the matched repositories and the        *)
(* template variables of the same commit.                                  *)
PinSites(m, old) == m \cup {c \in Copy : text[c] = old}

(* The new commit is as typed: in upper case, here None, it is no commit that *)
(* parsing yields.                                                         *)
PinSet ==
    /\ cmd = "idle"
    /\ \E m \in Selections, old, new \in Commit : \E typed \in {new, None} :
          /\ \A r \in m : text[r] = old
          /\ old # new
          /\ Cardinality(Occurrences(old)) >= Cardinality(PinSites(m, old))
          /\ edit' = [goal |-> [Contents EXCEPT !.text =
                                   [s \in Site |-> IF s \in Occurrences(old) THEN new ELSE text[s]]],
                      backup |-> Contents, repos |-> m, commit |-> typed]
    /\ cmd' = "pin" /\ todo' = {"env.yaml"}
    /\ Change
    /\ UNCHANGED <<files, records, tip, runVars, cut, ghosts>>

(* The repositories at the new commit are as many as were matched. *)
Moved ==
    /\ edit.commit # None
    /\ Cardinality({r \in Repo : text[r] = edit.commit}) = Cardinality(edit.repos)

PinVerified == Moved /\ Guard(text)

VerifyPin ==
    /\ cmd = "pin" /\ todo = {}
    /\ IF PinVerified THEN Return /\ UNCHANGED lock ELSE Revert({"env.yaml"})

-------------------------------------------------------------------------------
(* env set-version.                                                        *)

SetVersion ==
    /\ cmd = "idle"
    /\ \E old, new \in Version, delete \in BOOLEAN :
          /\ old # new
          /\ lock = None \/ delete
          /\ todo' = {f \in File : version[f] = old}
          /\ edit' = [goal |-> [Contents EXCEPT !.version =
                                   [f \in File |-> IF version[f] = old THEN new ELSE version[f]]],
                      backup |-> Contents, repos |-> {}, commit |-> None]
    /\ todo' # {}
    /\ cmd' = "bump"
    /\ Change
    /\ UNCHANGED <<files, records, tip, runVars, cut, ghosts>>

(* The checks of what was written may fail for other reasons too. *)
VerifyVersion ==
    /\ cmd = "bump" /\ todo = {}
    /\ \/ /\ Guard(text)
          /\ cmd' = "unlink"
          /\ UNCHANGED <<files, records, tip, runVars, todo, edit, cut, changes, ghosts>>
       \/ Revert({f \in File : edit.backup.version[f] # edit.goal.version[f]})

UnlinkLock ==
    /\ cmd = "unlink"
    /\ lock' = None
    /\ Return

-------------------------------------------------------------------------------
(* What nobody verifies.                                                   *)

(* The operator edits the commits, or the version, consistently; comments  *)
(* stay what they were.                                                    *)
EditByHand ==
    /\ cmd = "idle"
    /\ \/ /\ text' \in Consistent \ {text}
          /\ \A s \in Remark : text'[s] = text[s]
          /\ UNCHANGED version
       \/ /\ \E v \in Version : version' = [f \in File |-> v]
          /\ version' # version
          /\ UNCHANGED text
    /\ Change
    /\ pc = "idle" \/ "edit" \in Faults
    /\ disturbed' = (pc # "idle")
    /\ UNCHANGED <<records, tip, runVars, cmdVars, sealed>>

(* What the messages advise before a lock is to be concretized anew. *)
DeleteLock ==
    /\ cmd = "idle" /\ lock # None
    /\ lock' = None
    /\ Change
    /\ UNCHANGED <<files, manifest, resolved, tip, runVars, cmdVars, ghosts>>

(* A branch moves upstream. *)
Move ==
    /\ \E r \in Repo, c \in Commit :
          /\ tip[r] # c
          /\ tip' = [tip EXCEPT ![r] = c]
    /\ Change
    /\ UNCHANGED <<files, records, runVars, cmdVars, ghosts>>

Next ==
    \/ Begin \/ PrepareRepos \/ PrepareEnvironment \/ Concretize
    \/ WriteSidecar \/ WriteManifest \/ End \/ RunStops
    \/ WriteFile \/ Reverted \/ CommandStops
    \/ PinSet \/ VerifyPin \/ SetVersion \/ VerifyVersion \/ UnlinkLock
    \/ EditByHand \/ DeleteLock \/ Move

LockSpec == Init /\ [][Next]_vars

-------------------------------------------------------------------------------
(* Properties.                                                             *)

Pins == [Repo -> Commit \cup {None}]
Locks == [yaml : Version, pins : [Repo -> Commit]]
Sessions == [yaml : Version \cup {None}, pins : [Repo -> Commit]]
Files == [text : Texts, version : [File -> Version]]

(* Every variable keeps its type; a lock has a commit for every repository. *)
TypeOK ==
    /\ text \in Texts /\ version \in [File -> Version]
    /\ lock \in Locks \cup {None}
    /\ manifest \in [yaml : Version, pins : Pins] \cup {None}
    /\ resolved \in Pins
    /\ tip \in [Repo -> Commit]
    /\ pc \in {"idle", "repos", "environment", "concretize", "sidecar", "manifest", "done"}
    /\ run \in [hasLock : BOOLEAN, pins : Pins, markers : Pins, session : {None} \cup Sessions]
    /\ pc = "environment" => run.session \in Sessions
    /\ pc \in {"concretize", "sidecar", "manifest", "done"} => run.session \in Locks
    /\ cmd \in {"idle", "pin", "bump", "unlink", "revert"}
    /\ todo \subseteq File
    /\ cmd # "idle" => edit \in [goal : Files, backup : Files, repos : SUBSET Repo,
                                 commit : Commit \cup {None}]
    /\ changes \in 0 .. MaxChanges
    /\ disturbed \in BOOLEAN /\ sealed \in BOOLEAN /\ cut \in BOOLEAN

(* When a lock's run has recorded it undisturbed, a build that finds no    *)
(* drift builds with a lock concretized against what it sees: the          *)
(* spack.yaml and, for each repository, the commit its image will clone.   *)
LockIsCurrent == sealed /\ Vouched => lock = Inputs

(* A run that has concretized undisturbed ends with a lock that builds     *)
(* accept, also for repositories that float.                               *)
FreshLockVouched == pc = "done" /\ ~run.hasLock /\ ~disturbed /\ lock # None => Vouched

(* Commands keep env.yaml consistent and all files at one version, whether *)
(* they succeed or fail, unless they are cut short.                        *)
EnvAgrees ==
    cmd = "idle" /\ ~cut => Guard(text) /\ \A f, g \in File : version[f] = version[g]

(* lock_manifest.py: "Empty list means the lock was concretized against    *)
(* exactly what is on disk now".  No run is at work.                       *)
NoDriftIsCurrent == pc = "idle" /\ Vouched => lock = Inputs

===============================================================================
