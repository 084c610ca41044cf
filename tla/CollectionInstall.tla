---------------------------- MODULE CollectionInstall ----------------------------
(***************************************************************************)
(* One installed skill collection (updates.py) or private pack              *)
(* (private_packs.py) and the commands that replace it: the old directory   *)
(* is set aside as the backup, the new one is copied, the backup becomes a  *)
(* snapshot under .rollbacks, and then the manifest is rewritten. Each step *)
(* may fail, and the process may be killed between any two.                 *)
(*                                                                          *)
(* The two kinds differ in what surrounds the replacement: a collection     *)
(* notes in its snapshot what the manifest said, and can be rolled back; a  *)
(* private pack can be removed. The manifest is collections.json or the     *)
(* metadata of the private packs.                                           *)
(***************************************************************************)
EXTENDS Naturals

CONSTANTS
    LastVersion,  \* versions are 1..LastVersion, in the order of their names
    Partial,      \* a tree that was not copied to the end
    None,         \* no directory
    Unreadable,   \* a manifest cut short by a crash while it was written
    MaxNow,       \* bound: seconds that pass
    MaxInstalls,  \* bound: install commands
    MaxFaults     \* bound: steps that fail, processes that are killed

ASSUME BoundsAssumption == {LastVersion, MaxNow, MaxInstalls, MaxFaults} \subseteq Nat

VARIABLES
    kind,       \* "collection" or "private"
    now,        \* the clock, in seconds
    target,     \* the installed directory
    backup,     \* the hidden directory beside it
    rollbacks,  \* the snapshots, by their names
    manifest,   \* what the manifest says is installed
    command,    \* the command that runs
    kept,       \* history: versions whose installation was reported
    wiped,      \* history: versions that the undo of a failed install deleted
    torn,       \* history: since the last command that succeeded another has
                \* left the manifest and the directory apart
    misnoted,   \* history: a snapshot was noted while they were, or was moved
                \* into another one of the same name, or a part of a noted
                \* directory was left
    installs, faults

vars == <<kind, now, target, backup, rollbacks, manifest, command, kept, wiped,
          torn, misnoted, installs, faults>>

Versions == 1..LastVersion

(* What the manifest may say, and what may follow the time in the name of a *)
(* snapshot, in the order of the alphabet: nothing, a version, "previous",  *)
(* "rolled-back", "rolled-forward", "stale-update-backup".                  *)
Nothing == 0
Previous == LastVersion + 1
RolledBack == LastVersion + 2
RolledForward == LastVersion + 3
Stale == LastVersion + 4
SnapshotNames == (0..MaxNow) \X (0..Stale)
Later(one, two) == one[1] > two[1] \/ (one[1] = two[1] /\ one[2] > two[2])

(* What a manifest that can be read says. *)
Said == {Nothing, RolledBack} \cup Versions

(* A directory: its tree, the note of a snapshot (None, or what the manifest*)
(* said) and the trees of directories that were moved into it by mistake.   *)
Directory == [tree : Versions \cup {Partial}, note : Said \cup {None},
              inside : SUBSET (Versions \cup {Partial})]

ASSUME ValuesAssumption ==
    /\ Partial \notin Versions
    /\ Unreadable \notin Said
    /\ None \notin Said \cup Directory

Trees(directory) == IF directory = None THEN {} ELSE {directory.tree} \cup directory.inside

(* shutil.move to a name that a directory already has moves it into that.   *)
Joined(outer, directory) == [outer EXCEPT !.inside = @ \cup Trees(directory)]
MovedTo(name, directory) ==
    [rollbacks EXCEPT ![name] = IF @ = None THEN directory ELSE Joined(@, directory)]

(* What a directory is that was copied or deleted in part.                  *)
Parts(directory) ==
    IF directory = None THEN {}
    ELSE [tree : {Partial}, note : {None, directory.note}, inside : SUBSET directory.inside]

(* The note of a snapshot tells the tree it lies in.                        *)
Truthful(directory) ==
    directory # None /\ directory.note \in Versions => directory.tree = directory.note

Idle == [at |-> "idle"]
Installing == [at : {"set aside", "copy", "copying", "save", "note", "record", "undo", "restore"},
               version : Versions, previous : Said \cup {Unreadable}, name : SnapshotNames]
RollingBack == [at : {"roll out", "roll in", "roll record"},
                snapshot : SnapshotNames, note : Said \cup {None}, name : SnapshotNames]
Removing == [at |-> "forget"]

Init ==
    /\ kind \in {"collection", "private"}
    /\ now = 0
    /\ target = None /\ backup = None
    /\ rollbacks = [name \in SnapshotNames |-> None]
    /\ manifest = Nothing
    /\ command = Idle
    /\ kept = {} /\ wiped = {} /\ torn = FALSE /\ misnoted = FALSE
    /\ installs = 0 /\ faults = 0

Tick ==
    /\ now < MaxNow
    /\ now' = now + 1
    /\ UNCHANGED <<kind, target, backup, rollbacks, manifest, command, kept, wiped,
                   torn, misnoted, installs, faults>>

--------------------------------------------------------------------------------
(* A mutant: a backup that an earlier command left is deleted.              *)
Install_Discards(version) ==
    /\ command.at = "idle" /\ installs < MaxInstalls
    /\ installs' = installs + 1
    /\ backup' = None
    /\ IF kind = "collection" /\ manifest = Unreadable
       THEN UNCHANGED command
       ELSE command' = [at |-> "set aside", version |-> version, previous |-> manifest,
                        name |-> <<now, Nothing>>]
    /\ UNCHANGED <<kind, now, target, rollbacks, manifest, kept, wiped, torn, misnoted, faults>>

(* Installation of a downloaded and verified version. A backup that an      *)
(* earlier command left is put away first; a collection with an unreadable  *)
(* manifest goes no further.                                                *)
Install(version) ==
    /\ command.at = "idle" /\ installs < MaxInstalls
    /\ installs' = installs + 1
    /\ IF backup = None
       THEN UNCHANGED rollbacks
       ELSE rollbacks' = MovedTo(<<now, Stale>>, backup)
    /\ backup' = None
    /\ IF kind = "collection" /\ manifest = Unreadable
       THEN UNCHANGED command
       ELSE command' = [at |-> "set aside", version |-> version, previous |-> manifest,
                        name |-> <<now, Nothing>>]
    /\ UNCHANGED <<kind, now, target, manifest, kept, wiped, torn, misnoted, faults>>

SetAside ==
    /\ command.at = "set aside"
    /\ backup' = target
    /\ target' = None
    /\ command' = [command EXCEPT !.at = "copy"]
    /\ UNCHANGED <<kind, now, rollbacks, manifest, kept, wiped, torn, misnoted, installs, faults>>

CopyBegins ==
    /\ command.at = "copy"
    /\ target' = [tree |-> Partial, note |-> None, inside |-> {}]
    /\ command' = [command EXCEPT !.at = "copying"]
    /\ UNCHANGED <<kind, now, backup, rollbacks, manifest, kept, wiped, torn, misnoted,
                   installs, faults>>

CopyEnds ==
    /\ command.at = "copying"
    /\ target' = [target EXCEPT !.tree = command.version]
    /\ command' = [command EXCEPT !.at = IF backup = None THEN "record" ELSE "save"]
    /\ UNCHANGED <<kind, now, backup, rollbacks, manifest, kept, wiped, torn, misnoted,
                   installs, faults>>

(* The snapshot of a collection is named when it is made, after the version *)
(* in the manifest; that of a private pack by the time the command began.   *)
SnapshotName ==
    IF kind = "private" THEN command.name
    ELSE <<now, IF command.previous = Nothing THEN Previous ELSE command.previous>>

(* A mutant: the backup is copied to the snapshot, and stays.               *)
Save_Copies ==
    /\ command.at = "save"
    /\ rollbacks' = MovedTo(SnapshotName, backup)
    /\ command' = [command EXCEPT !.at = IF kind = "private" THEN "record" ELSE "note",
                                  !.name = SnapshotName]
    /\ UNCHANGED <<kind, now, target, backup, manifest, kept, wiped, torn, misnoted,
                   installs, faults>>

Save ==
    /\ command.at = "save"
    /\ rollbacks' = MovedTo(SnapshotName, backup)
    /\ backup' = None
    /\ command' = [command EXCEPT !.at = IF kind = "private" THEN "record" ELSE "note",
                                  !.name = SnapshotName]
    /\ misnoted' = (misnoted \/ rollbacks[SnapshotName] # None)
    /\ UNCHANGED <<kind, now, target, manifest, kept, wiped, torn, installs, faults>>

Note ==
    /\ command.at = "note"
    /\ rollbacks' = [rollbacks EXCEPT ![command.name].note = command.previous]
    /\ command' = [command EXCEPT !.at = "record"]
    /\ misnoted' = (misnoted \/ torn)
    /\ UNCHANGED <<kind, now, target, backup, manifest, kept, wiped, torn, installs, faults>>

(* The manifest is read again before it is written.                         *)
Record ==
    /\ command.at = "record"
    /\ IF manifest = Unreadable
       THEN torn' = TRUE /\ UNCHANGED <<manifest, kept>>
       ELSE /\ manifest' = command.version
            /\ kept' = kept \cup {command.version}
            /\ torn' = FALSE
    /\ command' = Idle
    /\ UNCHANGED <<kind, now, target, backup, rollbacks, wiped, misnoted, installs, faults>>

(* A step of the replacement fails: what is at the target is removed,       *)
(* whatever it is, and then the backup, if there is one, is moved back.     *)
Fails ==
    /\ command.at \in {"copy", "copying", "save", "note"} /\ faults < MaxFaults
    /\ faults' = faults + 1
    /\ command' = [command EXCEPT !.at = "undo"]
    /\ UNCHANGED <<kind, now, target, backup, rollbacks, manifest, kept, wiped, torn, misnoted,
                   installs>>

(* So it is when the old directory cannot be set aside. A directory that    *)
(* cannot be renamed is copied and then deleted, and both may stop halfway: *)
(* there may be no backup, or a part of one, or a whole one.                *)
SetAsideFails ==
    /\ command.at = "set aside" /\ faults < MaxFaults
    /\ faults' = faults + 1
    /\ command' = [command EXCEPT !.at = "undo"]
    /\ \/ /\ target' = target
          /\ backup' \in {None} \cup Parts(target)
          /\ wiped' = wiped \cup (Trees(target) \ {Partial})
       \/ /\ target # None
          /\ target' \in {target} \cup Parts(target)
          /\ backup' = target
          /\ wiped' = wiped
    /\ misnoted' = (misnoted \/ ~Truthful(target') \/ ~Truthful(backup'))
    /\ UNCHANGED <<kind, now, rollbacks, manifest, kept, torn, installs>>

Undo ==
    /\ command.at = "undo"
    /\ target' = None
    /\ command' = [command EXCEPT !.at = "restore"]
    /\ UNCHANGED <<kind, now, backup, rollbacks, manifest, kept, wiped, torn, misnoted,
                   installs, faults>>

Restore ==
    /\ command.at = "restore"
    /\ target' = backup
    /\ backup' = None
    /\ torn' = (torn \/ backup = None \/ backup.tree = Partial)
    /\ command' = Idle
    /\ UNCHANGED <<kind, now, rollbacks, manifest, kept, wiped, misnoted, installs, faults>>

--------------------------------------------------------------------------------
(* Rollback of a collection to the newest snapshot. Nothing is undone when  *)
(* a step of it fails.                                                      *)

Candidates == {name \in SnapshotNames : rollbacks[name] # None}

Rollback ==
    /\ kind = "collection" /\ command.at = "idle"
    /\ \E newest \in Candidates :
          /\ \A other \in Candidates \ {newest} : Later(newest, other)
          /\ command' = [at |-> "roll out", snapshot |-> newest,
                         note |-> rollbacks[newest].note, name |-> <<now, RolledForward>>]
    /\ UNCHANGED <<kind, now, target, backup, rollbacks, manifest, kept, wiped, torn, misnoted,
                   installs, faults>>

RollOut ==
    /\ command.at = "roll out"
    /\ IF target = None
       THEN UNCHANGED rollbacks
       ELSE rollbacks' = MovedTo(command.name, target)
    /\ target' = None
    /\ command' = [command EXCEPT !.at = "roll in"]
    /\ UNCHANGED <<kind, now, backup, manifest, kept, wiped, torn, misnoted, installs, faults>>

RollIn ==
    /\ command.at = "roll in"
    /\ target' = rollbacks[command.snapshot]
    /\ rollbacks' = [rollbacks EXCEPT ![command.snapshot] = None]
    /\ command' = [command EXCEPT !.at = "roll record"]
    /\ UNCHANGED <<kind, now, backup, manifest, kept, wiped, torn, misnoted, installs, faults>>

(* A mutant: the manifest is left as it was.                                *)
RollRecord_Skips ==
    /\ command.at = "roll record"
    /\ torn' = misnoted
    /\ command' = Idle
    /\ UNCHANGED <<kind, now, target, backup, rollbacks, manifest, kept, wiped, misnoted,
                   installs, faults>>

RollRecord ==
    /\ command.at = "roll record"
    /\ IF manifest = Unreadable
       THEN torn' = TRUE /\ UNCHANGED manifest
       ELSE /\ manifest' = IF command.note \in {None, Nothing} THEN RolledBack ELSE command.note
            /\ torn' = misnoted
    /\ command' = Idle
    /\ UNCHANGED <<kind, now, target, backup, rollbacks, kept, wiped, misnoted, installs, faults>>

--------------------------------------------------------------------------------
(* Removal of a private pack that has an entry in the metadata.             *)

Remove ==
    /\ kind = "private" /\ command.at = "idle" /\ manifest \notin {Nothing, Unreadable}
    /\ target' = None
    /\ kept' = kept \ Trees(target)
    /\ command' = Removing
    /\ UNCHANGED <<kind, now, backup, rollbacks, manifest, wiped, torn, misnoted, installs, faults>>

Forget ==
    /\ command.at = "forget"
    /\ manifest' = Nothing
    /\ torn' = FALSE
    /\ command' = Idle
    /\ UNCHANGED <<kind, now, target, backup, rollbacks, kept, wiped, misnoted, installs, faults>>

--------------------------------------------------------------------------------
(* The process is killed, or a step of a rollback, of a removal or of the   *)
(* record fails: what is done stays done. The manifest is written in place. *)
Stops ==
    /\ command.at # "idle" /\ faults < MaxFaults
    /\ faults' = faults + 1
    /\ torn' = (torn \/ command.at \notin {"set aside", "roll out"})
    /\ command' = Idle
    /\ manifest' \in {manifest} \cup
          (IF command.at \in {"record", "roll record", "forget"} THEN {Unreadable} ELSE {})
    /\ UNCHANGED <<kind, now, target, backup, rollbacks, kept, wiped, misnoted, installs>>

Next ==
    \/ Tick
    \/ \E version \in Versions : Install(version)
    \/ SetAside \/ CopyBegins \/ CopyEnds \/ Save \/ Note \/ Record
    \/ Fails \/ SetAsideFails \/ Undo \/ Restore
    \/ Rollback \/ RollOut \/ RollIn \/ RollRecord
    \/ Remove \/ Forget
    \/ Stops

Spec == Init /\ [][Next]_vars

--------------------------------------------------------------------------------

(* The variables hold what their comments say; there is a backup only while *)
(* an install runs or after one was stopped.                                *)
TypeOK ==
    /\ kind \in {"collection", "private"}
    /\ now \in 0..MaxNow
    /\ target \in Directory \cup {None} /\ backup \in Directory \cup {None}
    /\ rollbacks \in [SnapshotNames -> Directory \cup {None}]
    /\ manifest \in Said \cup {Unreadable}
    /\ command \in {Idle, Removing} \cup Installing \cup RollingBack
    /\ backup # None => command.at \in {"copy", "copying", "save", "undo", "restore"} \/ faults > 0
    /\ kept \subseteq Versions /\ wiped \subseteq Versions
    /\ torn \in BOOLEAN /\ misnoted \in BOOLEAN
    /\ installs \in 0..MaxInstalls /\ faults \in 0..MaxFaults

Saved == UNION {Trees(rollbacks[name]) : name \in SnapshotNames}
OnDisk == Trees(target) \cup Trees(backup) \cup Saved

(* A version whose installation was once reported, and that was not removed *)
(* on purpose, is still somewhere on the disk, whatever was installed or    *)
(* rolled back over it and wherever that failed or was killed. The exception*)
(* is real: when setting the old directory aside fails before the backup is *)
(* whole, the undo deletes the directory, although nothing was installed.   *)
NothingLost == kept \subseteq OnDisk \cup wiped

(* Between commands the manifest names the version that is installed, after *)
(* every failure that the undo repairs. Killed commands, and failures while *)
(* there is no whole backup, leave them apart until the next command        *)
(* succeeds; a snapshot that was noted in such a state, or in place of an   *)
(* older one of the same second, or of which a part was left, keeps the     *)
(* wrong name, and gives it to the manifest.                                *)
Tells(said, directory) ==
    /\ said = Nothing => directory = None
    /\ said \in Versions => directory # None /\ directory.tree = said

ManifestTellsTheTree ==
    command.at = "idle" /\ ~torn => manifest # Unreadable /\ Tells(manifest, target)
================================================================================
