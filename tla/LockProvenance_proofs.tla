------------------------- MODULE LockProvenance_proofs -------------------------
(***************************************************************************)
(* Proofs about LockProvenance, for every set of repositories, template    *)
(* variables, comments, commits and versions, any number of changes and    *)
(* any faults.                                                             *)
(*                                                                         *)
(* LockIsCurrent is not inductive: that the manifest describes the lock    *)
(* rests on what the run that wrote both knows of its inputs from its      *)
(* first step on.  ProvenanceInv is: types; Working, that knowledge, which *)
(* holds as long as nothing is changed under the run; and Recorded, that   *)
(* a sealed lock is the one the manifest describes.  EnvAgrees needs Kept, *)
(* what a command still knows of the files it may have to write back.      *)
(***************************************************************************)
EXTENDS LockProvenance, TLAPS

(* What is still to be written belongs to a command at work.               *)
NothingLeft == cmd \in {"idle", "unlink"} => todo = {}

TypeInv == TypeOK /\ NothingLeft

Prepared == {"environment", "concretize", "sidecar", "manifest"}

(* What an undisturbed run knows of its inputs, and of the lock it wrote.  *)
Working ==
    /\ ~disturbed /\ pc \in Prepared \cup {"repos"} => run.pins = PinsIn(text)
    /\ ~disturbed /\ pc \in Prepared =>
          \A r \in Repo :
             IF run.pins[r] # None THEN run.session.pins[r] = run.pins[r]
                                   ELSE run.markers[r] = run.session.pins[r]
    /\ ~disturbed /\ pc \in Prepared \ {"environment"} =>
          run.session.yaml = version["spack.yaml"]
    /\ ~disturbed /\ pc = "manifest" => run.session.pins = BuildView
    /\ pc \in {"sidecar", "manifest"} /\ ~run.hasLock => lock \in {None, run.session}
    /\ pc = "done" /\ ~run.hasLock /\ ~disturbed => manifest = Inputs

(* The manifest describes a sealed lock.                                   *)
Recorded == sealed /\ lock # None => manifest = lock

ProvenanceInv == TypeInv /\ Working /\ Recorded

-------------------------------------------------------------------------------
(* Types.                                                                  *)

(* Clones are at a commit, and what is read back of them is one or none.   *)
LEMMA CloneTypes ==
  ASSUME TypeOK
  PROVE  /\ Recipes \in [Repo -> Commit]
         /\ Tips \in Pins
         /\ PinsIn(text) \in Pins
         /\ BuildView \in Pins
         /\ BuildManifest \in [yaml : Version, pins : Pins]
  <1>1. /\ run.pins \in Pins /\ tip \in [Repo -> Commit] /\ resolved \in Pins
        /\ text \in [Site -> Commit \cup {None}] /\ version["spack.yaml"] \in Version
    BY DEF TypeOK, Texts, File
  <1>2. Repo \subseteq Site
    BY DEF Site
  <1>3. Recipes \in [Repo -> Commit] /\ Tips \in Pins
    BY <1>1 DEF Recipes, Tips, Pins
  <1>4. PinsIn(text) \in Pins /\ BuildView \in Pins
    BY <1>1, <1>2 DEF PinsIn, BuildView, Pins
  <1>5. QED
    BY <1>1, <1>3, <1>4 DEF BuildManifest

(* Replacing one commit by another leaves an env.yaml that has one at each *)
(* place that needs one.                                                   *)
LEMMA ReplacedType ==
  ASSUME TypeOK, NEW old \in Commit, NEW new \in Commit
  PROVE  [s \in Site |-> IF s \in Occurrences(old) THEN new ELSE text[s]] \in Texts
  BY ConstantsAssumption DEF TypeOK, Texts

LEMMA InitType == Init => TypeInv
  <1> SUFFICES ASSUME Init PROVE TypeInv
    OBVIOUS
  <1>1. run \in [hasLock : BOOLEAN, pins : Pins, markers : Pins, session : {None} \cup Sessions]
    BY DEF Init, NoRun, NoPins, Pins
  <1>2. text \in Texts /\ version \in [File -> Version] /\ resolved \in Pins
    BY DEF Init, Consistent, Pins
  <1>3. changes \in 0 .. MaxChanges
    BY ConstantsAssumption DEF Init
  <1>4. QED
    BY <1>1, <1>2, <1>3 DEF Init, TypeInv, TypeOK, NothingLeft

(* Every step keeps the types. *)
LEMMA StepType ==
  ASSUME TypeInv, [Next]_vars
  PROVE  TypeInv'
  <1> USE DEF TypeInv, NothingLeft
  <1>a. TypeOK
    OBVIOUS
  <1>1. CASE Begin
    BY <1>1, CloneTypes DEF Begin, NoRun, NoPins, TypeOK, Pins, files, records, cmdVars
  <1>2. CASE PrepareRepos
    <2>1. [yaml |-> None, pins |-> Recipes] \in Sessions /\ Tips \in Pins
      BY CloneTypes DEF Sessions
    <2>2. \/ run' = [run EXCEPT !.session = [yaml |-> None, pins |-> Recipes], !.markers = Tips]
          \/ run' = [run EXCEPT !.session = [yaml |-> None, pins |-> Recipes]]
      BY <1>2 DEF PrepareRepos
    <2>3. /\ run' \in [hasLock : BOOLEAN, pins : Pins, markers : Pins,
                       session : {None} \cup Sessions]
          /\ run'.session \in Sessions
      BY <2>1, <2>2 DEF TypeOK
    <2>4. QED
      BY <1>2, <2>3 DEF PrepareRepos, TypeOK, files, records, cmdVars
  <1>3. CASE PrepareEnvironment
    <2>1. run.session \in Sessions /\ version["spack.yaml"] \in Version
      BY <1>3 DEF PrepareEnvironment, TypeOK, File
    <2>2. [run.session EXCEPT !.yaml = version["spack.yaml"]] \in Sessions \cap Locks
      BY <2>1 DEF Sessions, Locks
    <2>3. run' = [run EXCEPT !.session = [run.session EXCEPT !.yaml = version["spack.yaml"]]]
      BY <1>3 DEF PrepareEnvironment, TypeOK
    <2>4. /\ run' \in [hasLock : BOOLEAN, pins : Pins, markers : Pins,
                       session : {None} \cup Sessions]
          /\ run'.session \in Locks
      BY <2>2, <2>3 DEF TypeOK
    <2>5. QED
      BY <1>3, <2>4 DEF PrepareEnvironment, TypeOK, files, records, cmdVars, ghosts
  <1>4. CASE Concretize
    BY <1>4 DEF Concretize, TypeOK, files, cmdVars
  <1>5. CASE WriteSidecar
    BY <1>5 DEF WriteSidecar, TypeOK, files, cmdVars, ghosts
  <1>6. CASE WriteManifest
    BY <1>6, CloneTypes DEF WriteManifest, TypeOK, files, cmdVars
  <1>7. CASE End \/ RunStops
    <2>1. Stop
      BY <1>7 DEF End, RunStops
    <2>2. QED
      BY <2>1 DEF Stop, NoRun, NoPins, TypeOK, Pins, files, records, cmdVars
  <1>8. CASE WriteFile
    <2>1. PICK f \in todo :
             /\ text' = IF f = "env.yaml" THEN edit.goal.text ELSE text
             /\ version' = [version EXCEPT ![f] = edit.goal.version[f]]
             /\ todo' = todo \ {f}
      BY <1>8 DEF WriteFile
    <2>2. edit.goal \in Files /\ f \in File
      BY <2>1 DEF TypeOK
    <2>3. text' \in Texts /\ version' \in [File -> Version] /\ todo' \subseteq File
      BY <2>1, <2>2 DEF Files, TypeOK
    <2>4. QED
      BY <1>8, <2>1, <2>3 DEF WriteFile, TypeOK, records, runVars
  <1>9. CASE Reverted
    BY <1>9 DEF Reverted, Return, TypeOK, files, runVars, ghosts
  <1>10. CASE CommandStops
    BY <1>10 DEF CommandStops, TypeOK, files, records, runVars, ghosts
  <1>11. CASE PinSet
    <2>0. PICK m \in Selections, old \in Commit, new \in Commit : \E typed \in {new, None} :
             edit' = [goal |-> [Contents EXCEPT !.text =
                         [s \in Site |-> IF s \in Occurrences(old) THEN new ELSE text[s]]],
                      backup |-> Contents, repos |-> m, commit |-> typed]
      BY <1>11 DEF PinSet
    <2>1. PICK typed \in {new, None} :
             edit' = [goal |-> [Contents EXCEPT !.text =
                         [s \in Site |-> IF s \in Occurrences(old) THEN new ELSE text[s]]],
                      backup |-> Contents, repos |-> m, commit |-> typed]
      BY <2>0
    <2>2. m \subseteq Repo
      BY DEF Selections
    <2>3. Contents \in Files
      BY DEF Contents, Files, TypeOK
    <2>4. [Contents EXCEPT !.text =
              [s \in Site |-> IF s \in Occurrences(old) THEN new ELSE text[s]]] \in Files
      BY <2>3, ReplacedType DEF Files
    <2>5. edit' \in [goal : Files, backup : Files, repos : SUBSET Repo, commit : Commit \cup {None}]
      BY <2>1, <2>2, <2>3, <2>4
    <2>6. QED
      BY <1>11, <2>5, ConstantsAssumption
      DEF PinSet, Change, TypeOK, File, files, records, runVars, ghosts
  <1>12. CASE VerifyPin
    BY <1>12 DEF VerifyPin, Return, Revert, TypeOK, File, files, records, runVars, ghosts
  <1>13. CASE SetVersion
    <2>1. PICK old \in Version, new \in Version :
             /\ todo' = {f \in File : version[f] = old}
             /\ edit' = [goal |-> [Contents EXCEPT !.version =
                            [f \in File |-> IF version[f] = old THEN new ELSE version[f]]],
                         backup |-> Contents, repos |-> {}, commit |-> None]
      BY <1>13 DEF SetVersion
    <2>2. Contents \in Files
      BY DEF Contents, Files, TypeOK
    <2>3. [f \in File |-> IF version[f] = old THEN new ELSE version[f]] \in [File -> Version]
      BY DEF TypeOK
    <2>4. edit' \in [goal : Files, backup : Files, repos : SUBSET Repo, commit : Commit \cup {None}]
      BY <2>1, <2>2, <2>3 DEF Files
    <2>5. QED
      BY <1>13, <2>1, <2>4, ConstantsAssumption
      DEF SetVersion, Change, TypeOK, files, records, runVars, ghosts
  <1>14. CASE VerifyVersion
    BY <1>14 DEF VerifyVersion, Revert, TypeOK, files, records, runVars, ghosts
  <1>15. CASE UnlinkLock
    BY <1>15 DEF UnlinkLock, Return, TypeOK, files, runVars, ghosts
  <1>16. CASE EditByHand
    <2>1. text' \in Texts /\ version' \in [File -> Version]
      BY <1>16 DEF EditByHand, Consistent, TypeOK
    <2>2. QED
      BY <1>16, <2>1, ConstantsAssumption
      DEF EditByHand, Change, TypeOK, records, runVars, cmdVars
  <1>17. CASE DeleteLock
    BY <1>17, ConstantsAssumption DEF DeleteLock, Change, TypeOK, files, runVars, cmdVars, ghosts
  <1>18. CASE Move
    BY <1>18, ConstantsAssumption
    DEF Move, Change, TypeOK, files, records, runVars, cmdVars, ghosts
  <1>19. CASE UNCHANGED vars
    BY <1>19 DEF TypeOK, vars, files, records, runVars, cmdVars, ghosts
  <1>20. QED
    BY <1>1, <1>2, <1>3, <1>4, <1>5, <1>6, <1>7, <1>8, <1>9, <1>10, <1>11, <1>12,
       <1>13, <1>14, <1>15, <1>16, <1>17, <1>18, <1>19 DEF Next

(* Every variable keeps its type, and a lock has a commit for each         *)
(* repository that the run has cloned.                                     *)
THEOREM TypeCorrect == LockSpec => []TypeOK
  <1>1. TypeInv /\ [Next]_vars => TypeInv'
    BY StepType
  <1>2. TypeInv => TypeOK
    BY DEF TypeInv
  <1>3. QED
    BY InitType, <1>1, <1>2, PTL DEF LockSpec

-------------------------------------------------------------------------------
(* What an undisturbed run knows.                                          *)

LEMMA InitProvenance == Init => ProvenanceInv
  BY InitType DEF Init, ProvenanceInv, Working, Recorded, Prepared

(* Nothing that Working or Recorded is about changes.                      *)
LEMMA Untouched ==
  ASSUME Working, Recorded,
         pc' = pc, run' = run, disturbed' = disturbed, sealed' = sealed,
         text' = text, version' = version, manifest' = manifest, resolved' = resolved,
         lock' \in {lock, None}
  PROVE  Working' /\ Recorded'
  BY DEF Working, Recorded, PinsIn, BuildView, Inputs

(* A run that stops leaves what it has written, and knows nothing.         *)
LEMMA Stopped ==
  ASSUME Recorded, Stop
  PROVE  Working' /\ Recorded'
  BY DEF Stop, Working, Recorded, Prepared, records

(* Clones are at the pins, and the tips of the others are read back.       *)
LEMMA PreparedRepos ==
  ASSUME ProvenanceInv, PrepareRepos
  PROVE  Working' /\ Recorded'
  <1> USE DEF ProvenanceInv, TypeInv
  <1>1. CASE disturbed'
    BY <1>1 DEF PrepareRepos, Working, Recorded, Prepared, records
  <1>2. CASE ~disturbed'
    <2>1. run' = [run EXCEPT !.session = [yaml |-> None, pins |-> Recipes], !.markers = Tips]
      BY <1>2 DEF PrepareRepos
    <2>2. /\ run'.pins = run.pins /\ run'.markers = Tips
          /\ run'.session = [yaml |-> None, pins |-> Recipes]
      BY <2>1 DEF TypeOK
    <2>3. ~disturbed /\ run.pins = PinsIn(text)
      BY <1>2, <2>1 DEF PrepareRepos, Working
    <2>4. \A r \in Repo : IF run.pins[r] # None THEN Recipes[r] = run.pins[r]
                                                ELSE Tips[r] = Recipes[r]
      BY DEF Recipes, Tips
    <2>5. pc' = "environment" /\ UNCHANGED <<files, records, sealed>>
      BY DEF PrepareRepos
    <2>6. QED
      BY <2>2, <2>3, <2>4, <2>5 DEF Working, Recorded, Prepared, PinsIn, files, records
  <1>3. QED
    BY <1>1, <1>2

(* The build view is what the run has cloned, as soon as the sidecar is    *)
(* written.                                                                *)
LEMMA WrittenSidecar ==
  ASSUME ProvenanceInv, WriteSidecar
  PROVE  Working' /\ Recorded'
  <1> USE DEF ProvenanceInv, TypeInv
  <1>1. /\ pc = "sidecar" /\ pc' = "manifest"
        /\ run' = run /\ disturbed' = disturbed /\ sealed' = sealed
        /\ text' = text /\ version' = version /\ lock' = lock /\ manifest' = manifest
    BY DEF WriteSidecar, files, ghosts
  <1>2. ASSUME ~disturbed
        PROVE  run.session.pins = BuildView'
    <2>1. /\ run.pins = PinsIn(text)
          /\ \A r \in Repo : IF run.pins[r] # None THEN run.session.pins[r] = run.pins[r]
                                                  ELSE run.markers[r] = run.session.pins[r]
      BY <1>1, <1>2 DEF Working, Prepared
    <2>2. run.session.pins \in [Repo -> Commit]
      BY <1>1 DEF TypeOK, Locks
    <2>3. ASSUME NEW r \in Repo
          PROVE  run.session.pins[r] = BuildView'[r]
      <3>1. CASE text[r] # None
        BY <1>1, <2>1, <3>1 DEF PinsIn, BuildView
      <3>2. CASE text[r] = None
        <4>1. run.markers[r] = run.session.pins[r] /\ run.markers[r] # None
          BY <2>1, <2>2, <3>2, ConstantsAssumption DEF PinsIn
        <4>2. resolved' = run.markers
          BY <4>1 DEF WriteSidecar, NoPins
        <4>3. QED
          BY <1>1, <3>2, <4>1, <4>2 DEF BuildView
      <3>3. QED
        BY <3>1, <3>2
    <2>4. QED
      BY <2>2, <2>3 DEF BuildView
  <1>3. Working'
    BY <1>1, <1>2 DEF Working, Prepared, PinsIn
  <1>4. QED
    BY <1>1, <1>3 DEF Recorded

(* A run records its own lock, or leaves the manifest of an older one.     *)
LEMMA WrittenManifest ==
  ASSUME ProvenanceInv, WriteManifest
  PROVE  Working' /\ Recorded'
  <1> USE DEF ProvenanceInv, TypeInv
  <1>1. /\ pc = "manifest" /\ pc' = "done"
        /\ run' = run /\ disturbed' = disturbed /\ resolved' = resolved
        /\ text' = text /\ version' = version /\ lock' = lock
    BY DEF WriteManifest, files
  <1>2. CASE run.hasLock
    BY <1>1, <1>2 DEF WriteManifest, Concretized, Working, Recorded, Prepared
  <1>3. CASE ~run.hasLock
    <2>1. manifest' = BuildManifest /\ sealed' = ~disturbed
      BY <1>3 DEF WriteManifest, Concretized
    <2>2. Working'
      BY <1>1, <2>1 DEF Working, Prepared, BuildManifest, Inputs, BuildView
    <2>3. ~disturbed => run.session = BuildManifest
      <3>1. run.session \in [yaml : Version, pins : [Repo -> Commit]]
        BY <1>1 DEF TypeOK, Locks
      <3>2. ~disturbed => /\ run.session.yaml = version["spack.yaml"]
                          /\ run.session.pins = BuildView
        BY <1>1 DEF Working, Prepared
      <3>3. QED
        BY <3>1, <3>2 DEF BuildManifest
    <2>4. lock \in {None, run.session}
      BY <1>1, <1>3 DEF Working
    <2>5. QED
      BY <1>1, <2>1, <2>2, <2>3, <2>4 DEF Recorded
  <1>4. QED
    BY <1>2, <1>3

(* Every step keeps what runs know and have recorded. *)
LEMMA StepProvenance ==
  ASSUME ProvenanceInv, [Next]_vars
  PROVE  ProvenanceInv'
  <1>a. TypeInv'
    BY StepType DEF ProvenanceInv
  <1>b. TypeOK /\ Working /\ Recorded
    BY DEF ProvenanceInv, TypeInv
  <1> SUFFICES Working' /\ Recorded'
    BY <1>a DEF ProvenanceInv
  <1>1. CASE Begin
    <2>1. run'.pins = PinsIn(text)
      BY <1>1 DEF Begin, NoRun
    <2>2. QED
      BY <1>1, <1>b, <2>1 DEF Begin, Working, Recorded, Prepared, PinsIn, files, records
  <1>2. CASE PrepareRepos
    BY <1>2, PreparedRepos
  <1>3. CASE PrepareEnvironment
    <2>1. /\ pc = "environment" /\ run.session \in Sessions
          /\ run' = [run EXCEPT !.session.yaml = version["spack.yaml"]]
          /\ pc' \in {"sidecar", "concretize"} /\ (pc' = "sidecar" => run.hasLock)
          /\ UNCHANGED <<files, records, ghosts>>
      BY <1>3, <1>b DEF PrepareEnvironment, TypeOK
    <2>2. /\ run'.pins = run.pins /\ run'.markers = run.markers /\ run'.hasLock = run.hasLock
          /\ run'.session.pins = run.session.pins
          /\ run'.session.yaml = version["spack.yaml"]
      BY <2>1, <1>b DEF TypeOK, Sessions
    <2>3. QED
      BY <2>1, <2>2, <1>b DEF Working, Recorded, Prepared, PinsIn, files, records, ghosts
  <1>4. CASE Concretize
    BY <1>4, <1>b DEF Concretize, Working, Recorded, Prepared, PinsIn, files
  <1>5. CASE WriteSidecar
    BY <1>5, WrittenSidecar
  <1>6. CASE WriteManifest
    BY <1>6, WrittenManifest
  <1>7. CASE End \/ RunStops
    BY <1>7, <1>b, Stopped DEF End, RunStops
  <1>8. CASE WriteFile \/ EditByHand
    <2>1. /\ pc' = pc /\ run' = run /\ sealed' = sealed /\ disturbed' = (pc # "idle")
          /\ lock' = lock /\ manifest' = manifest
      BY <1>8 DEF WriteFile, EditByHand, records, runVars
    <2>2. QED
      BY <2>1, <1>b DEF Working, Recorded, Prepared
  <1>9. CASE Reverted \/ CommandStops \/ PinSet \/ VerifyPin \/ SetVersion
             \/ VerifyVersion \/ UnlinkLock \/ DeleteLock \/ Move
    <2>1. /\ UNCHANGED <<files, runVars, ghosts, manifest, resolved>>
          /\ lock' \in {lock, None}
      BY <1>9 DEF Reverted, CommandStops, PinSet, VerifyPin, SetVersion, VerifyVersion,
                  UnlinkLock, DeleteLock, Move, Return, Revert, records
    <2>2. QED
      BY <2>1, <1>b, Untouched DEF files, runVars, ghosts
  <1>10. CASE UNCHANGED vars
    BY <1>10, <1>b, Untouched DEF vars, files, records, runVars, ghosts
  <1>11. QED
    BY <1>1, <1>2, <1>3, <1>4, <1>5, <1>6, <1>7, <1>8, <1>9, <1>10 DEF Next

(* When a lock's run has recorded it undisturbed, a build that finds no    *)
(* drift builds with a lock concretized against what it sees, whatever     *)
(* runs, commands, stops and changes follow.                               *)
THEOREM LockIsCurrentTheorem == LockSpec => []LockIsCurrent
  <1>1. ProvenanceInv /\ [Next]_vars => ProvenanceInv'
    BY StepProvenance
  <1>2. ProvenanceInv => LockIsCurrent
    BY DEF ProvenanceInv, Recorded, LockIsCurrent, Vouched
  <1>3. QED
    BY InitProvenance, <1>1, <1>2, PTL DEF LockSpec

(* A run that has concretized undisturbed ends with a lock that builds     *)
(* accept, whichever repositories float.                                   *)
THEOREM FreshLockTheorem == LockSpec => []FreshLockVouched
  <1>1. ProvenanceInv /\ [Next]_vars => ProvenanceInv'
    BY StepProvenance
  <1>2. ASSUME ProvenanceInv
        PROVE  FreshLockVouched
    <2>1. Inputs \in [yaml : Version, pins : [Repo -> Commit \cup {None}]]
      BY <1>2, CloneTypes DEF ProvenanceInv, TypeInv, BuildManifest, Inputs, Pins
    <2>2. QED
      BY <1>2, <2>1, ConstantsAssumption
      DEF ProvenanceInv, Working, FreshLockVouched, Vouched
  <1>3. QED
    BY InitProvenance, <1>1, <1>2, PTL DEF LockSpec

-------------------------------------------------------------------------------
(* What a command still knows of the files it may have to write back.      *)

SameVersion(v) == \A f, g \in File : v[f] = v[g]

(* Between commands the files agree.  A command starts from files that do; *)
(* `pin set` writes only the commits and `env set-version` only versions,  *)
(* and what has been reverted is as it was.                                *)
Kept ==
    ~cut =>
       /\ cmd \in {"idle", "unlink"} => Guard(text) /\ SameVersion(version)
       /\ cmd # "idle" => Guard(edit.backup.text) /\ SameVersion(edit.backup.version)
       /\ cmd = "pin" => /\ todo \subseteq {"env.yaml"}
                         /\ version = edit.backup.version
                         /\ edit.goal.version = edit.backup.version
       /\ cmd = "bump" => /\ text = edit.backup.text /\ edit.goal.text = edit.backup.text
                          /\ SameVersion(edit.goal.version)
                          /\ \A f \in File :
                                version[f] = IF f \in todo THEN edit.backup.version[f]
                                                           ELSE edit.goal.version[f]
       /\ cmd = "revert" => /\ edit.goal = edit.backup
                            /\ text = edit.backup.text \/ "env.yaml" \in todo
                            /\ \A f \in File \ todo : version[f] = edit.backup.version[f]

AgreesInv == TypeInv /\ Kept

LEMMA InitAgrees == Init => AgreesInv
  BY InitType DEF Init, AgreesInv, Kept, Consistent, SameVersion

(* A file that is written is one of the command's. *)
LEMMA WriteAgrees ==
  ASSUME AgreesInv, WriteFile
  PROVE  Kept'
  <1> USE DEF AgreesInv, TypeInv
  <1>1. PICK f \in todo :
           /\ text' = IF f = "env.yaml" THEN edit.goal.text ELSE text
           /\ version' = [version EXCEPT ![f] = edit.goal.version[f]]
           /\ todo' = todo \ {f}
    BY DEF WriteFile
  <1>2. cmd' = cmd /\ edit' = edit /\ cut' = cut
    BY DEF WriteFile
  <1>3. /\ f \in File /\ version \in [File -> Version]
        /\ cmd \in {"pin", "bump", "revert"} /\ edit.goal \in Files /\ edit.backup \in Files
    BY <1>1 DEF TypeOK, NothingLeft
  <1>4. \A g \in File : version'[g] = IF g = f THEN edit.goal.version[f] ELSE version[g]
    BY <1>1, <1>3
  <1>5. CASE cmd = "pin"
    <2>1. ~cut => version' = version
      BY <1>1, <1>3, <1>5 DEF Kept
    <2>2. QED
      BY <1>1, <1>2, <1>5, <2>1 DEF Kept
  <1>6. CASE cmd = "bump"
    BY <1>1, <1>2, <1>3, <1>4, <1>6 DEF Kept
  <1>7. CASE cmd = "revert"
    BY <1>1, <1>2, <1>3, <1>4, <1>7 DEF Kept
  <1>8. QED
    BY <1>3, <1>5, <1>6, <1>7

(* What is written back is what was read. *)
LEMMA RevertAgrees ==
  ASSUME AgreesInv, cmd \in {"pin", "bump"}, NEW written, Revert(written),
         cmd = "pin" => written = {"env.yaml"},
         cmd = "bump" => todo = {}
                         /\ written = {f \in File : edit.backup.version[f] # edit.goal.version[f]}
  PROVE  Kept'
  <1> USE DEF AgreesInv, TypeInv
  <1>1. edit' = [edit EXCEPT !.goal = edit.backup] /\ cmd' = "revert" /\ todo' = written
    BY DEF Revert
  <1>2. edit'.goal = edit.backup /\ edit'.backup = edit.backup
    BY <1>1 DEF TypeOK
  <1>3. text' = text /\ version' = version /\ cut' = cut
    BY DEF Revert, files
  <1>4. QED
    BY <1>1, <1>2, <1>3 DEF Kept

(* Every step keeps what commands know. *)
LEMMA StepAgrees ==
  ASSUME AgreesInv, [Next]_vars
  PROVE  AgreesInv'
  <1>a. TypeInv'
    BY StepType DEF AgreesInv
  <1>b. TypeOK /\ NothingLeft /\ Kept
    BY DEF AgreesInv, TypeInv
  <1> SUFFICES Kept'
    BY <1>a DEF AgreesInv
  <1>1. CASE \/ Begin \/ PrepareRepos \/ PrepareEnvironment \/ Concretize \/ WriteSidecar
             \/ WriteManifest \/ End \/ RunStops \/ DeleteLock \/ Move \/ UNCHANGED vars
    <2>1. UNCHANGED <<files, cmdVars>>
      BY <1>1 DEF Begin, PrepareRepos, PrepareEnvironment, Concretize, WriteSidecar,
                  WriteManifest, End, RunStops, Stop, DeleteLock, Move, vars
    <2>2. QED
      BY <2>1, <1>b DEF Kept, files, cmdVars
  <1>2. CASE WriteFile
    BY <1>2, WriteAgrees
  <1>3. CASE Reverted
    BY <1>3, <1>b DEF Reverted, Return, Kept, SameVersion, files
  <1>4. CASE CommandStops
    BY <1>4 DEF CommandStops, Kept
  <1>5. CASE PinSet
    <2>0. PICK m \in Selections, old \in Commit, new \in Commit : \E typed \in {new, None} :
             edit' = [goal |-> [Contents EXCEPT !.text =
                         [s \in Site |-> IF s \in Occurrences(old) THEN new ELSE text[s]]],
                      backup |-> Contents, repos |-> m, commit |-> typed]
      BY <1>5 DEF PinSet
    <2>1. PICK typed \in {new, None} :
             edit' = [goal |-> [Contents EXCEPT !.text =
                         [s \in Site |-> IF s \in Occurrences(old) THEN new ELSE text[s]]],
                      backup |-> Contents, repos |-> m, commit |-> typed]
      BY <2>0
    <2>2. /\ edit'.backup.text = text /\ edit'.backup.version = version
          /\ edit'.goal.version = version
      BY <2>1 DEF Contents
    <2>3. QED
      BY <1>5, <1>b, <2>2 DEF PinSet, Kept, files
  <1>6. CASE VerifyPin
    <2>1. CASE PinVerified
      BY <1>6, <2>1, <1>b DEF VerifyPin, PinVerified, Return, Kept, files
    <2>2. CASE ~PinVerified
      BY <1>6, <2>2, RevertAgrees DEF VerifyPin
    <2>3. QED
      BY <2>1, <2>2
  <1>7. CASE SetVersion
    <2>1. PICK old \in Version, new \in Version :
             /\ todo' = {f \in File : version[f] = old}
             /\ edit' = [goal |-> [Contents EXCEPT !.version =
                            [f \in File |-> IF version[f] = old THEN new ELSE version[f]]],
                         backup |-> Contents, repos |-> {}, commit |-> None]
      BY <1>7 DEF SetVersion
    <2>2. /\ edit'.backup.text = text /\ edit'.backup.version = version
          /\ edit'.goal.text = text
          /\ edit'.goal.version = [f \in File |-> IF version[f] = old THEN new ELSE version[f]]
      BY <2>1 DEF Contents
    <2>3. cmd = "idle" /\ cmd' = "bump" /\ text' = text /\ version' = version /\ cut' = cut
      BY <1>7 DEF SetVersion, files
    <2>4. QED
      BY <1>b, <2>1, <2>2, <2>3 DEF Kept, SameVersion
  <1>8. CASE VerifyVersion
    <2>1. CASE cmd' = "unlink"
      BY <1>8, <2>1, <1>b DEF VerifyVersion, Revert, Kept, SameVersion, files
    <2>2. CASE cmd' # "unlink"
      BY <1>8, <2>2, RevertAgrees DEF VerifyVersion
    <2>3. QED
      BY <2>1, <2>2
  <1>9. CASE UnlinkLock
    BY <1>9, <1>b DEF UnlinkLock, Return, Kept, files
  <1>10. CASE EditByHand
    BY <1>10, <1>b DEF EditByHand, Consistent, Kept, SameVersion, cmdVars
  <1>11. QED
    BY <1>1, <1>2, <1>3, <1>4, <1>5, <1>6, <1>7, <1>8, <1>9, <1>10 DEF Next

(* Commands that are not cut short leave env.yaml consistent and all files *)
(* at one version, whether they succeed, fail or meet a run at work.       *)
THEOREM EnvAgreesTheorem == LockSpec => []EnvAgrees
  <1>1. AgreesInv /\ [Next]_vars => AgreesInv'
    BY StepAgrees
  <1>2. AgreesInv => EnvAgrees
    BY DEF AgreesInv, Kept, SameVersion, EnvAgrees
  <1>3. QED
    BY InitAgrees, <1>1, <1>2, PTL DEF LockSpec
===============================================================================
