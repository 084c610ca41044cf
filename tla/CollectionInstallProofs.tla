------------------------ MODULE CollectionInstallProofs ------------------------
(***************************************************************************)
(* What an installed collection keeps, for every number of versions,        *)
(* commands, failures and seconds.                                          *)
(***************************************************************************)
EXTENDS CollectionInstall, TLAPS

(* What the steps of a command rely on. *)
ISteps ==
    /\ command.at = "set aside" => backup = None
    /\ command.at \in {"copy", "restore", "roll in", "forget"} => target = None
    /\ command.at = "copying" => target = [tree |-> Partial, note |-> None, inside |-> {}]
    /\ command.at \in {"save", "note", "record"} => target # None /\ target.tree = command.version
    /\ command.at = "save" => backup # None
    /\ command.at = "note" => /\ backup = None /\ rollbacks[command.name] # None
                              /\ kind = "collection"
    /\ kind = "collection" /\ command \in Installing => command.previous \in Said

(* While a tree is copied, and until it is removed again, everything that   *)
(* was installed before is elsewhere.                                       *)
IKept ==
    /\ NothingLost
    /\ command.at \in {"copy", "copying", "save", "note", "record", "undo"}
          => kept \subseteq Trees(backup) \cup Saved \cup wiped

(* Notes tell the tree they lie in, and a rollback the note it follows.     *)
INotes ==
    ~misnoted =>
        /\ Truthful(target) /\ Truthful(backup)
        /\ \A name \in SnapshotNames : Truthful(rollbacks[name])
        /\ command.at \in {"roll out", "roll in"} /\ command.note \in Versions =>
              /\ rollbacks[command.snapshot] # None
              /\ rollbacks[command.snapshot].tree = command.note
        /\ command.at = "roll record" /\ command.note \in Versions =>
              target # None /\ target.tree = command.note

(* The manifest tells the tree that is installed, or the one that an undo   *)
(* will put back, or the one that is about to be noted.                     *)
ITold ==
    ~torn =>
        /\ manifest # Unreadable
        /\ command.at \in {"idle", "set aside", "roll out"} => Tells(manifest, target)
        /\ command.at \in {"copy", "copying", "save"} => Tells(manifest, backup)
        /\ command.at \in {"undo", "restore"} /\ backup # None /\ backup.tree # Partial
              => Tells(manifest, backup)
        /\ command \in Installing => command.previous = manifest
        /\ command.at = "note" /\ ~misnoted /\ manifest \in Versions
              => rollbacks[command.name].tree = manifest

IInv == TypeOK /\ ISteps /\ IKept /\ INotes /\ ITold

LEMMA Distinct ==
    /\ Nothing \notin Versions /\ RolledBack \notin Versions /\ Nothing # RolledBack
    /\ None \notin Versions
    /\ \A t \in 0..MaxNow : /\ <<t, Nothing>> \in SnapshotNames /\ <<t, Previous>> \in SnapshotNames
                            /\ <<t, Stale>> \in SnapshotNames
                            /\ <<t, RolledForward>> \in SnapshotNames
                            /\ \A said \in Said : <<t, said>> \in SnapshotNames
<1>1. LastVersion \in Nat /\ MaxNow \in Nat
  BY BoundsAssumption
<1>2. Nothing \notin Versions /\ RolledBack \notin Versions /\ Nothing # RolledBack
  BY <1>1 DEF Nothing, Versions, RolledBack
<1>3. {Nothing, Previous, Stale, RolledForward} \cup Said \subseteq 0..Stale
  BY <1>1 DEF Nothing, Versions, RolledBack, Previous, Stale, RolledForward, Said
<1>4. None \notin Versions
  BY ValuesAssumption DEF Said
<1> QED BY <1>2, <1>3, <1>4 DEF SnapshotNames

(* A directory that is moved to a name is in the snapshots, with what they  *)
(* had before.                                                              *)
LEMMA Moved ==
    ASSUME rollbacks \in [SnapshotNames -> Directory \cup {None}],
           NEW name \in SnapshotNames, NEW directory \in Directory \cup {None},
           rollbacks' = MovedTo(name, directory)
    PROVE  /\ rollbacks' \in [SnapshotNames -> Directory \cup {None}]
           /\ Saved' = Saved \cup Trees(directory)
           /\ \A other \in SnapshotNames \ {name} : rollbacks'[other] = rollbacks[other]
           /\ rollbacks[name] = None => rollbacks'[name] = directory
           /\ rollbacks[name] # None => /\ rollbacks'[name] # None
                                        /\ rollbacks'[name].tree = rollbacks[name].tree
                                        /\ rollbacks'[name].note = rollbacks[name].note
<1>1. \A other \in SnapshotNames \ {name} : rollbacks'[other] = rollbacks[other]
  BY DEF MovedTo
<1>2. CASE rollbacks[name] = None
  <2>1. rollbacks' = [rollbacks EXCEPT ![name] = directory]
    BY <1>2 DEF MovedTo
  <2>2. Trees(rollbacks[name]) = {}
    BY <1>2 DEF Trees
  <2>3. rollbacks'[name] = directory
    BY <2>1
  <2>4. Saved' = Saved \cup Trees(directory)
    BY <1>1, <2>2, <2>3 DEF Saved
  <2> QED BY <1>1, <1>2, <2>1, <2>3, <2>4
<1>3. CASE rollbacks[name] # None
  <2> DEFINE joined == Joined(rollbacks[name], directory)
  <2>1. rollbacks' = [rollbacks EXCEPT ![name] = joined] /\ rollbacks[name] \in Directory
    BY <1>3 DEF MovedTo
  <2>2. Trees(directory) \subseteq Versions \cup {Partial}
    BY DEF Trees, Directory
  <2>3. /\ joined \in Directory /\ joined.tree = rollbacks[name].tree
        /\ joined.note = rollbacks[name].note
        /\ joined.inside = rollbacks[name].inside \cup Trees(directory)
    BY <2>1, <2>2 DEF Directory, Joined
  <2>4. rollbacks'[name] = joined /\ joined # None
    BY <2>1, <2>3, ValuesAssumption
  <2>5. Trees(joined) = Trees(rollbacks[name]) \cup Trees(directory)
    BY <1>3, <2>3, <2>4 DEF Trees
  <2>6. Saved' = Saved \cup Trees(directory)
    BY <1>1, <2>4, <2>5 DEF Saved
  <2>7. rollbacks' \in [SnapshotNames -> Directory \cup {None}]
    BY <2>1, <2>3
  <2> QED BY <1>1, <1>3, <2>3, <2>4, <2>6, <2>7
<1> QED BY <1>2, <1>3

(* The forms of a command, told apart by where it is. *)
Ats == {"set aside", "copy", "copying", "save", "note", "record", "undo", "restore"}

LEMMA Forms ==
    /\ Idle.at = "idle" /\ Removing.at = "forget"
    /\ \A c \in Installing : c.at \in Ats /\ c.version \in Versions /\ c.name \in SnapshotNames
    /\ \A c \in RollingBack : c.at \in {"roll out", "roll in", "roll record"}
    /\ Idle \notin Installing /\ Removing \notin Installing
BY DEF Idle, Removing, Installing, RollingBack, Ats

LEMMA InstallMoves ==
    ASSUME TypeOK, command.at \in Ats, NEW at \in Ats,
           command' = [command EXCEPT !.at = at]
    PROVE  /\ command \in Installing /\ command' \in Installing
           /\ command'.at = at /\ command'.version = command.version
           /\ command'.previous = command.previous /\ command'.name = command.name
<1>1. command \in Installing
  BY Forms DEF TypeOK, Ats
<1> QED BY <1>1 DEF Installing, Ats

LEMMA RollMoves ==
    ASSUME TypeOK, command.at \in {"roll out", "roll in", "roll record"},
           NEW at \in {"roll in", "roll record"}, command' = [command EXCEPT !.at = at]
    PROVE  /\ command \in RollingBack /\ command' \in RollingBack /\ command' \notin Installing
           /\ command'.at = at /\ command'.snapshot = command.snapshot
           /\ command'.note = command.note /\ command'.name = command.name
           /\ command.snapshot \in SnapshotNames /\ command.name \in SnapshotNames
<1>1. command \in RollingBack
  BY Forms DEF TypeOK, Ats
<1>2. /\ command' \in RollingBack /\ command'.at = at /\ command'.snapshot = command.snapshot
      /\ command'.note = command.note /\ command'.name = command.name
      /\ command.snapshot \in SnapshotNames /\ command.name \in SnapshotNames
  BY <1>1 DEF RollingBack
<1> QED BY <1>1, <1>2, Forms DEF Ats

LEMMA Bounds == LastVersion \in Nat /\ MaxNow \in Nat /\ MaxInstalls \in Nat /\ MaxFaults \in Nat
BY BoundsAssumption

LEMMA NoTrees == Trees(None) = {}
BY DEF Trees

LEMMA Fresh ==
    ASSUME NEW tree \in Versions \cup {Partial}
    PROVE  LET fresh == [tree |-> tree, note |-> None, inside |-> {}]
           IN  fresh \in Directory /\ fresh # None /\ Trees(fresh) = {tree}
               /\ fresh.tree = tree /\ fresh.note = None
<1> DEFINE fresh == [tree |-> tree, note |-> None, inside |-> {}]
<1>1. fresh \in Directory
  BY DEF Directory
<1>2. fresh # None
  BY <1>1, ValuesAssumption
<1> QED BY <1>1, <1>2 DEF Trees

LEMMA KnownTrees ==
    ASSUME NEW directory \in Directory \cup {None}
    PROVE  Trees(directory) \subseteq Versions \cup {Partial}
BY DEF Trees, Directory

(* Every step *)
LEMMA TickStep == ASSUME IInv, Tick PROVE IInv'
<1>0. command' = command
  BY DEF Tick
<1>b. now' \in 0..MaxNow /\ faults' \in 0..MaxFaults /\ installs' \in 0..MaxInstalls
  BY Bounds DEF IInv, TypeOK, Tick
<1>s. Saved' = Saved
  BY DEF Saved, Tick
<1>1. TypeOK'
  BY <1>b DEF IInv, TypeOK, Tick
<1>2. ISteps'
  BY DEF IInv, ISteps, Tick
<1>3. IKept'
  BY <1>s DEF IInv, IKept, NothingLost, OnDisk, Tick
<1>4. INotes'
  BY DEF IInv, INotes, Tick
<1>5. ITold'
  BY DEF IInv, ITold, Tick
<1> QED BY <1>1, <1>2, <1>3, <1>4, <1>5 DEF IInv

LEMMA SetAsideStep == ASSUME IInv, SetAside PROVE IInv'
<1>0. /\ command \in Installing /\ command' \in Installing
      /\ command'.at = "copy" /\ command'.version = command.version
      /\ command'.previous = command.previous /\ command'.name = command.name
  BY InstallMoves DEF IInv, SetAside, Ats
<1>b. now' \in 0..MaxNow /\ faults' \in 0..MaxFaults /\ installs' \in 0..MaxInstalls
  BY Bounds DEF IInv, TypeOK, SetAside
<1>s. Saved' = Saved
  BY DEF Saved, SetAside
<1>1. TypeOK'
  BY <1>0 DEF IInv, TypeOK, SetAside
<1>2. ISteps'
  BY <1>0 DEF IInv, ISteps, SetAside
<1>3. IKept'
  BY <1>s, NoTrees DEF IInv, ISteps, IKept, NothingLost, OnDisk, SetAside
<1>4. INotes'
  BY <1>0 DEF IInv, INotes, Truthful, SetAside
<1>5. ITold'
  BY <1>0 DEF IInv, ITold, SetAside
<1> QED BY <1>1, <1>2, <1>3, <1>4, <1>5 DEF IInv

LEMMA CopyBeginsStep == ASSUME IInv, CopyBegins PROVE IInv'
<1>0. /\ command \in Installing /\ command' \in Installing
      /\ command'.at = "copying" /\ command'.version = command.version
      /\ command'.previous = command.previous /\ command'.name = command.name
  BY InstallMoves DEF IInv, CopyBegins, Ats
<1>b. now' \in 0..MaxNow /\ faults' \in 0..MaxFaults /\ installs' \in 0..MaxInstalls
  BY Bounds DEF IInv, TypeOK, CopyBegins
<1>s. Saved' = Saved
  BY DEF Saved, CopyBegins
<1>t. /\ target' = [tree |-> Partial, note |-> None, inside |-> {}]
      /\ target' \in Directory /\ target'.note = None
  BY Fresh DEF CopyBegins
<1>1. TypeOK'
  BY <1>0, <1>t DEF IInv, TypeOK, CopyBegins
<1>2. ISteps'
  BY <1>0 DEF IInv, ISteps, CopyBegins
<1>3. IKept'
  BY <1>s DEF IInv, IKept, NothingLost, OnDisk, CopyBegins
<1>4. INotes'
  BY <1>0, Distinct DEF IInv, INotes, Truthful, CopyBegins
<1>5. ITold'
  BY <1>0 DEF IInv, ITold, CopyBegins
<1> QED BY <1>1, <1>2, <1>3, <1>4, <1>5 DEF IInv

LEMMA CopyEndsStep == ASSUME IInv, CopyEnds PROVE IInv'
<1>0. /\ command \in Installing /\ command' \in Installing
      /\ command'.at = (IF backup = None THEN "record" ELSE "save")
      /\ command'.version = command.version
      /\ command'.previous = command.previous /\ command'.name = command.name
  BY InstallMoves DEF IInv, CopyEnds, Ats
<1>b. now' \in 0..MaxNow /\ faults' \in 0..MaxFaults /\ installs' \in 0..MaxInstalls
  BY Bounds DEF IInv, TypeOK, CopyEnds
<1>s. Saved' = Saved
  BY DEF Saved, CopyEnds
<1>c. \/ backup = None /\ command'.at = "record"
      \/ backup # None /\ command'.at = "save"
  BY <1>0
<1>t. /\ target' = [tree |-> command.version, note |-> None, inside |-> {}]
      /\ target' \in Directory /\ target'.note = None /\ target' # None
      /\ target'.tree = command'.version
  <2>1. target = [tree |-> Partial, note |-> None, inside |-> {}]
    BY DEF IInv, ISteps, CopyEnds
  <2>2. target' = [tree |-> command.version, note |-> None, inside |-> {}]
    BY <2>1 DEF CopyEnds
  <2>3. command.version \in Versions
    BY <1>0, Forms
  <2> QED BY <1>0, <2>2, <2>3, Fresh
<1>1. TypeOK'
  BY <1>0, <1>t DEF IInv, TypeOK, CopyEnds
<1>2. ISteps'
  BY <1>0, <1>t DEF IInv, ISteps, CopyEnds
<1>3. IKept'
  BY <1>s DEF IInv, IKept, NothingLost, OnDisk, CopyEnds
<1>4. INotes'
  BY Distinct DEF IInv, ISteps, INotes, Truthful, CopyEnds
<1>5. ITold'
  BY <1>0 DEF IInv, ITold, CopyEnds
<1> QED BY <1>1, <1>2, <1>3, <1>4, <1>5 DEF IInv

LEMMA FailsStep == ASSUME IInv, Fails PROVE IInv'
<1>0. /\ command \in Installing /\ command' \in Installing
      /\ command'.at = "undo" /\ command'.version = command.version
      /\ command'.previous = command.previous /\ command'.name = command.name
  BY InstallMoves DEF IInv, Fails, Ats
<1>b. now' \in 0..MaxNow /\ faults' \in 0..MaxFaults /\ installs' \in 0..MaxInstalls
  <2>1. /\ now' = now /\ installs' = installs /\ faults' = faults + 1 /\ faults < MaxFaults
        /\ now \in 0..MaxNow /\ faults \in 0..MaxFaults /\ installs \in 0..MaxInstalls
    BY DEF IInv, TypeOK, Fails
  <2> QED BY <2>1, Bounds
<1>s. Saved' = Saved
  BY DEF Saved, Fails
<1>1. TypeOK'
  BY <1>0, <1>b DEF IInv, TypeOK, Fails
<1>2. ISteps'
  BY <1>0 DEF IInv, ISteps, Fails
<1>3. IKept'
  BY <1>s DEF IInv, IKept, NothingLost, OnDisk, Fails
<1>4. INotes'
  BY <1>0 DEF IInv, INotes, Fails
<1>5. ITold'
  BY <1>0 DEF IInv, ISteps, ITold, Fails
<1> QED BY <1>1, <1>2, <1>3, <1>4, <1>5 DEF IInv

(* A part of a directory is a directory, with the tree of none.             *)
LEMMA PartsAreDirectories ==
    ASSUME NEW directory \in Directory \cup {None}, NEW part \in Parts(directory)
    PROVE  part \in Directory /\ part # None /\ part.tree = Partial
<1>1. directory \in Directory
  BY DEF Parts
<1>2. part \in [tree : {Partial}, note : {None, directory.note}, inside : SUBSET directory.inside]
  BY <1>1, ValuesAssumption DEF Parts
<1>3. part \in Directory /\ part.tree = Partial
  BY <1>1, <1>2 DEF Directory
<1> QED BY <1>3, ValuesAssumption

LEMMA SetAsideFailsStep == ASSUME IInv, SetAsideFails PROVE IInv'
<1>0. /\ command \in Installing /\ command' \in Installing
      /\ command'.at = "undo" /\ command'.version = command.version
      /\ command'.previous = command.previous /\ command'.name = command.name
  BY InstallMoves DEF IInv, SetAsideFails, Ats
<1>b. now' \in 0..MaxNow /\ faults' \in 0..MaxFaults /\ installs' \in 0..MaxInstalls /\ faults' > 0
  <2>1. /\ now' = now /\ installs' = installs /\ faults' = faults + 1 /\ faults < MaxFaults
        /\ now \in 0..MaxNow /\ faults \in 0..MaxFaults /\ installs \in 0..MaxInstalls
    BY DEF IInv, TypeOK, SetAsideFails
  <2> QED BY <2>1, Bounds
<1>s. Saved' = Saved
  BY DEF Saved, SetAsideFails
<1>t. target \in Directory \cup {None} /\ Trees(target) \subseteq Versions \cup {Partial}
  BY KnownTrees DEF IInv, TypeOK
<1>c. \/ /\ target' = target /\ backup' \in {None} \cup Parts(target)
         /\ wiped' = wiped \cup (Trees(target) \ {Partial})
      \/ /\ target # None /\ target' \in {target} \cup Parts(target) /\ backup' = target
         /\ wiped' = wiped
  BY DEF SetAsideFails
<1>d. /\ target' \in Directory \cup {None} /\ backup' \in Directory \cup {None}
      /\ wiped' \subseteq wiped \cup Versions
      /\ backup' # None => backup'.tree = Partial \/ backup' = target
  BY <1>c, <1>t, PartsAreDirectories
<1>k. kept \subseteq Trees(target) \cup Saved \cup wiped /\ kept \subseteq Versions
  BY NoTrees DEF IInv, TypeOK, ISteps, IKept, NothingLost, OnDisk, SetAsideFails
<1>1. TypeOK'
  BY <1>0, <1>b, <1>d DEF IInv, TypeOK, SetAsideFails
<1>2. ISteps'
  BY <1>0 DEF IInv, ISteps, SetAsideFails
<1>3. IKept'
  <2>1. kept' \subseteq Trees(backup') \cup Saved' \cup wiped'
    <3>1. CASE wiped' = wiped \cup (Trees(target) \ {Partial})
      BY <1>s, <1>k, <3>1, ValuesAssumption DEF SetAsideFails
    <3>2. CASE backup' = target /\ wiped' = wiped
      BY <1>s, <1>k, <3>2 DEF SetAsideFails
    <3> QED BY <1>c, <3>1, <3>2
  <2> QED BY <1>0, <2>1 DEF IKept, NothingLost, OnDisk, Trees
<1>4. INotes'
  BY <1>0 DEF IInv, INotes, Truthful, SetAsideFails
<1>5. ITold'
  BY <1>0, <1>d DEF IInv, ISteps, ITold, Tells, SetAsideFails
<1> QED BY <1>1, <1>2, <1>3, <1>4, <1>5 DEF IInv

LEMMA UndoStep == ASSUME IInv, Undo PROVE IInv'
<1>0. /\ command \in Installing /\ command' \in Installing
      /\ command'.at = "restore" /\ command'.version = command.version
      /\ command'.previous = command.previous /\ command'.name = command.name
  BY InstallMoves DEF IInv, Undo, Ats
<1>b. now' \in 0..MaxNow /\ faults' \in 0..MaxFaults /\ installs' \in 0..MaxInstalls
  BY Bounds DEF IInv, TypeOK, Undo
<1>s. Saved' = Saved
  BY DEF Saved, Undo
<1>1. TypeOK'
  BY <1>0 DEF IInv, TypeOK, Undo
<1>2. ISteps'
  BY <1>0 DEF IInv, ISteps, Undo
<1>3. IKept'
  BY <1>s DEF IInv, IKept, NothingLost, OnDisk, Undo
<1>4. INotes'
  BY <1>0 DEF IInv, INotes, Truthful, Undo
<1>5. ITold'
  BY <1>0 DEF IInv, ITold, Undo
<1> QED BY <1>1, <1>2, <1>3, <1>4, <1>5 DEF IInv

LEMMA RestoreStep == ASSUME IInv, Restore PROVE IInv'
<1>0. command' = Idle /\ command'.at = "idle" /\ command' \notin Installing
  BY Forms DEF Restore
<1>b. now' \in 0..MaxNow /\ faults' \in 0..MaxFaults /\ installs' \in 0..MaxInstalls
  BY Bounds DEF IInv, TypeOK, Restore
<1>s. Saved' = Saved
  BY DEF Saved, Restore
<1>1. TypeOK'
  BY DEF IInv, TypeOK, Restore
<1>2. ISteps'
  BY Forms DEF ISteps, Restore
<1>3. IKept'
  BY <1>s, Forms DEF IInv, ISteps, IKept, NothingLost, OnDisk, Restore
<1>4. INotes'
  BY Forms DEF IInv, INotes, Truthful, Restore
<1>5. ITold'
  BY Forms DEF IInv, ITold, Restore
<1> QED BY <1>1, <1>2, <1>3, <1>4, <1>5 DEF IInv

LEMMA RecordStep == ASSUME IInv, Record PROVE IInv'
<1>0. command' = Idle /\ command'.at = "idle" /\ command' \notin Installing
  BY Forms DEF Record
<1>b. now' \in 0..MaxNow /\ faults' \in 0..MaxFaults /\ installs' \in 0..MaxInstalls
  BY Bounds DEF IInv, TypeOK, Record
<1>s. Saved' = Saved
  BY DEF Saved, Record
<1>t. /\ command \in Installing /\ command.version \in Versions
      /\ target # None /\ target.tree = command.version /\ command.version \in Trees(target)
  <2>1. command \in Installing
    BY Forms DEF IInv, TypeOK, Record
  <2> QED BY <2>1, Forms DEF IInv, ISteps, Record, Trees
<1>u. command.version \in Said /\ command.version # Unreadable
  BY <1>t, ValuesAssumption DEF Said
<1>v. kept' \subseteq kept \cup {command.version}
  BY DEF Record
<1>1. TypeOK'
  BY <1>t, <1>u DEF IInv, TypeOK, Record
<1>2. ISteps'
  BY Forms DEF ISteps, Record
<1>3. IKept'
  BY <1>s, Forms, <1>t DEF IInv, IKept, NothingLost, OnDisk, Record
<1>4. INotes'
  BY Forms DEF IInv, INotes, Record
<1>5. ITold'
  BY Forms, Distinct, <1>u DEF IInv, TypeOK, ISteps, ITold, Tells, Record
<1> QED BY <1>1, <1>2, <1>3, <1>4, <1>5 DEF IInv

LEMMA ForgetStep == ASSUME IInv, Forget PROVE IInv'
<1>0. command' = Idle /\ command'.at = "idle" /\ command' \notin Installing
  BY Forms DEF Forget
<1>b. now' \in 0..MaxNow /\ faults' \in 0..MaxFaults /\ installs' \in 0..MaxInstalls
  BY Bounds DEF IInv, TypeOK, Forget
<1>s. Saved' = Saved
  BY DEF Saved, Forget
<1>t. Nothing \in Said /\ Nothing # Unreadable
  BY ValuesAssumption DEF Said
<1>1. TypeOK'
  BY <1>t DEF IInv, TypeOK, Forget
<1>2. ISteps'
  BY Forms DEF ISteps, Forget
<1>3. IKept'
  BY <1>s, NoTrees DEF IInv, ISteps, IKept, NothingLost, OnDisk, Forget
<1>4. INotes'
  BY Forms DEF IInv, INotes, Forget
<1>5. ITold'
  BY Forms, Distinct, <1>t DEF IInv, ISteps, ITold, Tells, Forget
<1> QED BY <1>1, <1>2, <1>3, <1>4, <1>5 DEF IInv

LEMMA StopsStep == ASSUME IInv, Stops PROVE IInv'
<1>0. command' = Idle /\ command'.at = "idle" /\ command' \notin Installing
  BY Forms DEF Stops
<1>b. now' \in 0..MaxNow /\ faults' \in 0..MaxFaults /\ installs' \in 0..MaxInstalls
  <2>1. /\ now' = now /\ installs' = installs /\ faults' = faults + 1 /\ faults < MaxFaults
        /\ now \in 0..MaxNow /\ faults \in 0..MaxFaults /\ installs \in 0..MaxInstalls
    BY DEF IInv, TypeOK, Stops
  <2> QED BY <2>1, Bounds
<1>s. Saved' = Saved
  BY DEF Saved, Stops
<1>t. faults' > 0 /\ manifest' \in Said \cup {Unreadable}
  <2>1. faults' = faults + 1 /\ faults \in 0..MaxFaults
    BY DEF IInv, TypeOK, Stops
  <2>2. manifest' \in Said \cup {Unreadable}
    BY DEF IInv, TypeOK, Stops
  <2> QED BY <2>1, <2>2, Bounds
<1>1. TypeOK'
  BY <1>b, <1>t DEF IInv, TypeOK, Stops
<1>2. ISteps'
  BY Forms DEF ISteps, Stops
<1>3. IKept'
  BY <1>s, Forms DEF IInv, IKept, NothingLost, OnDisk, Stops
<1>4. INotes'
  BY Forms DEF IInv, INotes, Stops
<1>5. ITold'
  BY Forms DEF IInv, ITold, Stops
<1> QED BY <1>1, <1>2, <1>3, <1>4, <1>5 DEF IInv

LEMMA RemoveStep == ASSUME IInv, Remove PROVE IInv'
<1>0. command' = Removing /\ command'.at = "forget" /\ command' \notin Installing
  BY Forms DEF Remove
<1>b. now' \in 0..MaxNow /\ faults' \in 0..MaxFaults /\ installs' \in 0..MaxInstalls
  BY Bounds DEF IInv, TypeOK, Remove
<1>s. Saved' = Saved
  BY DEF Saved, Remove
<1>1. TypeOK'
  BY DEF IInv, TypeOK, Remove
<1>2. ISteps'
  BY Forms DEF ISteps, Remove
<1>3. IKept'
  BY <1>s DEF IInv, IKept, NothingLost, OnDisk, Remove
<1>4. INotes'
  BY Forms DEF IInv, INotes, Truthful, Remove
<1>5. ITold'
  BY Forms DEF ITold, Remove
<1> QED BY <1>1, <1>2, <1>3, <1>4, <1>5 DEF IInv

LEMMA MovedTruthful ==
    ASSUME rollbacks \in [SnapshotNames -> Directory \cup {None}],
           NEW name \in SnapshotNames, NEW directory \in Directory \cup {None},
           rollbacks' = MovedTo(name, directory), Truthful(directory),
           \A other \in SnapshotNames : Truthful(rollbacks[other])
    PROVE  \A other \in SnapshotNames : Truthful(rollbacks'[other])
<1> TAKE other \in SnapshotNames
<1>1. CASE other # name
  BY <1>1, Moved
<1>2. CASE other = name
  BY <1>2, Moved DEF Truthful
<1> QED BY <1>1, <1>2

LEMMA InstallStep == ASSUME IInv, NEW version \in Versions, Install(version) PROVE IInv'
<1>0. \/ command' = command /\ command.at = "idle" /\ kind = "collection" /\ manifest = Unreadable
      \/ /\ command' \in Installing /\ command'.at = "set aside" /\ command'.previous = manifest
         /\ kind = "collection" => manifest \in Said
  <2> DEFINE started == [at |-> "set aside", version |-> version, previous |-> manifest,
                         name |-> <<now, Nothing>>]
  <2>1. kind \in {"collection", "private"} /\ manifest \in Said \cup {Unreadable}
        /\ now \in 0..MaxNow
    BY DEF IInv, TypeOK
  <2>2. started \in Installing /\ started.at = "set aside" /\ started.previous = manifest
    BY <2>1, Distinct DEF Installing
  <2>3. CASE kind = "collection" /\ manifest = Unreadable
    BY <2>3 DEF Install
  <2>4. CASE ~(kind = "collection" /\ manifest = Unreadable)
    <3>1. command' = started
      BY <2>4 DEF Install
    <3> HIDE DEF started
    <3> QED BY <2>1, <2>2, <2>4, <3>1
  <2> QED BY <2>3, <2>4
<1>b. now' \in 0..MaxNow /\ faults' \in 0..MaxFaults /\ installs' \in 0..MaxInstalls
  <2>1. /\ now' = now /\ faults' = faults /\ installs' = installs + 1 /\ installs < MaxInstalls
        /\ now \in 0..MaxNow /\ faults \in 0..MaxFaults /\ installs \in 0..MaxInstalls
    BY DEF IInv, TypeOK, Install
  <2> QED BY <2>1, Bounds
<1>r. /\ rollbacks' \in [SnapshotNames -> Directory \cup {None}]
      /\ Saved' = Saved \cup Trees(backup)
      /\ ~misnoted => \A name \in SnapshotNames : Truthful(rollbacks'[name])
  <2>1. CASE backup = None
    <3>1. rollbacks' = rollbacks
      BY <2>1 DEF Install
    <3> QED BY <2>1, <3>1, NoTrees DEF IInv, TypeOK, INotes, Saved
  <2>2. CASE backup # None
    <3>1. rollbacks' = MovedTo(<<now, Stale>>, backup) /\ <<now, Stale>> \in SnapshotNames
      BY <2>2, Distinct DEF Install, IInv, TypeOK
    <3>2. rollbacks \in [SnapshotNames -> Directory \cup {None}] /\ backup \in Directory \cup {None}
      BY DEF IInv, TypeOK
    <3>3. ~misnoted => Truthful(backup) /\ \A name \in SnapshotNames : Truthful(rollbacks[name])
      BY DEF IInv, INotes
    <3> QED BY <3>1, <3>2, <3>3, Moved, MovedTruthful
  <2> QED BY <2>1, <2>2
<1>1. TypeOK'
  BY <1>0, <1>b, <1>r, Forms DEF IInv, TypeOK, Install
<1>2. ISteps'
  BY <1>0, Forms DEF IInv, TypeOK, ISteps, Install, Ats
<1>3. IKept'
  BY <1>0, <1>r, Forms, NoTrees DEF IInv, IKept, NothingLost, OnDisk, Install
<1>4. INotes'
  BY <1>0, <1>r, Forms DEF IInv, INotes, Truthful, Install
<1>5. ITold'
  BY <1>0, Forms DEF IInv, TypeOK, ITold, Tells, Install, Ats
<1> QED BY <1>1, <1>2, <1>3, <1>4, <1>5 DEF IInv

LEMMA SaveStep == ASSUME IInv, Save PROVE IInv'
<1>n. command \in Installing /\ SnapshotName \in SnapshotNames
  <2>1. command \in Installing /\ command.name \in SnapshotNames
    BY Forms DEF IInv, TypeOK, Save
  <2>2. kind = "collection" => command.previous \in Said
    BY <2>1 DEF IInv, ISteps
  <2> QED BY <2>1, <2>2, Distinct DEF IInv, TypeOK, SnapshotName
<1> DEFINE at == IF kind = "private" THEN "record" ELSE "note"
<1>0. /\ command' \in Installing /\ command'.at = at /\ command'.version = command.version
      /\ command'.previous = command.previous /\ command'.name = SnapshotName
  BY <1>n DEF Save, Installing
<1>c. \/ kind = "private" /\ command'.at = "record"
      \/ kind = "collection" /\ command'.at = "note"
  BY <1>0 DEF IInv, TypeOK
<1>b. backup \in Directory /\ backup # None
  BY DEF IInv, TypeOK, ISteps, Save
<1>r. /\ rollbacks' \in [SnapshotNames -> Directory \cup {None}]
      /\ Saved' = Saved \cup Trees(backup)
      /\ rollbacks'[SnapshotName] # None
      /\ rollbacks[SnapshotName] = None => rollbacks'[SnapshotName] = backup
      /\ ~misnoted => \A name \in SnapshotNames : Truthful(rollbacks'[name])
  <2>1. rollbacks' = MovedTo(SnapshotName, backup)
    BY DEF Save
  <2>2. rollbacks \in [SnapshotNames -> Directory \cup {None}]
    BY DEF IInv, TypeOK
  <2>3. ~misnoted => Truthful(backup) /\ \A name \in SnapshotNames : Truthful(rollbacks[name])
    BY DEF IInv, INotes
  <2> HIDE DEF at
  <2> QED BY <1>n, <1>b, <2>1, <2>2, <2>3, Moved, MovedTruthful
<1>m. misnoted' = (misnoted \/ rollbacks[SnapshotName] # None)
  BY DEF Save
<1> HIDE DEF at
<1>1. TypeOK'
  BY <1>0, <1>c, <1>m, <1>r, Forms DEF IInv, TypeOK, Save
<1>2. ISteps'
  BY <1>0, <1>c, <1>n, <1>r, Forms DEF IInv, TypeOK, ISteps, Save
<1>3. IKept'
  BY <1>0, <1>c, <1>r, NoTrees DEF IInv, IKept, NothingLost, OnDisk, Save
<1>4. INotes'
  BY <1>0, <1>c, <1>m, <1>r DEF IInv, INotes, Truthful, Save
<1>5. ITold'
  BY <1>0, <1>c, <1>m, <1>n, <1>r DEF IInv, ITold, Tells, Save
<1> QED BY <1>1, <1>2, <1>3, <1>4, <1>5 DEF IInv

LEMMA NoteStep == ASSUME IInv, Note PROVE IInv'
<1>0. /\ command \in Installing /\ command' \in Installing
      /\ command'.at = "record" /\ command'.version = command.version
      /\ command'.previous = command.previous /\ command'.name = command.name
      /\ command.name \in SnapshotNames
  BY InstallMoves, Forms DEF IInv, Note, Ats
<1> DEFINE noted == [rollbacks[command.name] EXCEPT !.note = command.previous]
<1>n. /\ rollbacks[command.name] \in Directory /\ rollbacks[command.name] # None
      /\ rollbacks \in [SnapshotNames -> Directory \cup {None}] /\ command.previous \in Said
  BY <1>0 DEF IInv, TypeOK, ISteps, Note
<1>d. /\ noted \in Directory /\ noted.tree = rollbacks[command.name].tree
      /\ noted.note = command.previous /\ noted.inside = rollbacks[command.name].inside
  BY <1>n DEF Directory
<1>e. noted # None /\ Trees(noted) = Trees(rollbacks[command.name])
  BY <1>d, <1>n, ValuesAssumption DEF Trees
<1>r. rollbacks' = [rollbacks EXCEPT ![command.name] = noted]
  BY DEF Note
<1> HIDE DEF noted
<1>s. Saved' = Saved
  <2>1. \A name \in SnapshotNames : Trees(rollbacks'[name]) = Trees(rollbacks[name])
    BY <1>0, <1>n, <1>e, <1>r
  <2> QED BY <2>1 DEF Saved
<1>t. ~misnoted' => Truthful(noted)
  BY <1>0, <1>d DEF Note, IInv, ITold, Truthful
<1>1. TypeOK'
  BY <1>0, <1>d, <1>n, <1>r, Forms DEF IInv, TypeOK, ISteps, Note
<1>2. ISteps'
  BY <1>0, Forms DEF IInv, TypeOK, ISteps, Note
<1>3. IKept'
  BY <1>0, <1>s, Forms DEF IInv, IKept, NothingLost, OnDisk, Note
<1>4. INotes'
  <2>1. ~misnoted' => ~misnoted /\ \A name \in SnapshotNames : Truthful(rollbacks'[name])
    BY <1>0, <1>n, <1>r, <1>t DEF IInv, INotes, Note
  <2> QED BY <1>0, <2>1 DEF IInv, INotes, Truthful, Note
<1>5. ITold'
  BY <1>0 DEF IInv, ITold, Note
<1> QED BY <1>1, <1>2, <1>3, <1>4, <1>5 DEF IInv

LEMMA RollbackStep == ASSUME IInv, Rollback PROVE IInv'
<1>1. PICK newest \in Candidates :
          command' = [at |-> "roll out", snapshot |-> newest,
                      note |-> rollbacks[newest].note, name |-> <<now, RolledForward>>]
  BY DEF Rollback
<1>2. newest \in SnapshotNames /\ rollbacks[newest] \in Directory /\ rollbacks[newest] # None
  BY DEF Candidates, IInv, TypeOK
<1>3. rollbacks[newest].note \in Said \cup {None}
  BY <1>2 DEF Directory
<1>4. <<now, RolledForward>> \in SnapshotNames
  BY Distinct DEF IInv, TypeOK
<1>0. /\ command' \in RollingBack /\ command' \notin Installing /\ command'.at = "roll out"
      /\ command'.snapshot = newest /\ command'.note = rollbacks[newest].note
  BY <1>1, <1>2, <1>3, <1>4, Forms DEF RollingBack, Ats
<1>5. TypeOK'
  BY <1>0, Forms DEF IInv, TypeOK, Rollback
<1>6. ISteps'
  BY <1>0, Forms DEF IInv, ISteps, Rollback
<1>7. IKept'
  BY <1>0 DEF IInv, IKept, NothingLost, OnDisk, Saved, Rollback
<1>8. INotes'
  BY <1>0, <1>2 DEF IInv, INotes, Truthful, Rollback
<1>9. ITold'
  BY <1>0 DEF IInv, ITold, Rollback
<1> QED BY <1>5, <1>6, <1>7, <1>8, <1>9 DEF IInv

LEMMA RollOutStep == ASSUME IInv, RollOut PROVE IInv'
<1>0. /\ command \in RollingBack /\ command' \in RollingBack /\ command' \notin Installing
      /\ command'.at = "roll in" /\ command'.snapshot = command.snapshot
      /\ command'.note = command.note
      /\ command.snapshot \in SnapshotNames /\ command.name \in SnapshotNames
  BY RollMoves DEF IInv, RollOut
<1>r. /\ rollbacks' \in [SnapshotNames -> Directory \cup {None}]
      /\ Saved' = Saved \cup Trees(target)
      /\ ~misnoted => \A name \in SnapshotNames : Truthful(rollbacks'[name])
      /\ rollbacks[command.snapshot] # None =>
            /\ rollbacks'[command.snapshot] # None
            /\ rollbacks'[command.snapshot].tree = rollbacks[command.snapshot].tree
  <2>1. CASE target = None
    <3>1. rollbacks' = rollbacks
      BY <2>1 DEF RollOut
    <3> QED BY <2>1, <3>1, NoTrees DEF IInv, TypeOK, INotes, Saved
  <2>2. CASE target # None
    <3>1. rollbacks' = MovedTo(command.name, target)
      BY <2>2 DEF RollOut
    <3>2. rollbacks \in [SnapshotNames -> Directory \cup {None}] /\ target \in Directory \cup {None}
      BY DEF IInv, TypeOK
    <3>3. ~misnoted => Truthful(target) /\ \A name \in SnapshotNames : Truthful(rollbacks[name])
      BY DEF IInv, INotes
    <3>4. CASE command.snapshot = command.name
      BY <1>0, <3>1, <3>2, <3>3, <3>4, Moved, MovedTruthful
    <3>5. CASE command.snapshot # command.name
      BY <1>0, <3>1, <3>2, <3>3, <3>5, Moved, MovedTruthful
    <3> QED BY <3>4, <3>5
  <2> QED BY <2>1, <2>2
<1>1. TypeOK'
  BY <1>0, <1>r, Forms DEF IInv, TypeOK, RollOut
<1>2. ISteps'
  BY <1>0, Forms DEF IInv, ISteps, RollOut
<1>3. IKept'
  BY <1>0, <1>r, NoTrees DEF IInv, IKept, NothingLost, OnDisk, RollOut
<1>4. INotes'
  BY <1>0, <1>r DEF IInv, INotes, Truthful, RollOut
<1>5. ITold'
  BY <1>0 DEF IInv, ITold, RollOut
<1> QED BY <1>1, <1>2, <1>3, <1>4, <1>5 DEF IInv

LEMMA RollInStep == ASSUME IInv, RollIn PROVE IInv'
<1>0. /\ command \in RollingBack /\ command' \in RollingBack /\ command' \notin Installing
      /\ command'.at = "roll record" /\ command'.snapshot = command.snapshot
      /\ command'.note = command.note /\ command.snapshot \in SnapshotNames
  BY RollMoves DEF IInv, RollIn
<1>t. rollbacks \in [SnapshotNames -> Directory \cup {None}] /\ target = None
  BY DEF IInv, TypeOK, ISteps, RollIn
<1>r. /\ rollbacks' \in [SnapshotNames -> Directory \cup {None}]
      /\ target' = rollbacks[command.snapshot] /\ rollbacks'[command.snapshot] = None
      /\ \A name \in SnapshotNames \ {command.snapshot} : rollbacks'[name] = rollbacks[name]
  BY <1>0, <1>t DEF RollIn
<1>s. Saved \cup Trees(target) \subseteq Saved' \cup Trees(target')
  <2> SUFFICES ASSUME NEW tree \in Saved PROVE tree \in Saved' \cup Trees(target')
    BY <1>t, NoTrees
  <2>1. PICK name \in SnapshotNames : tree \in Trees(rollbacks[name])
    BY DEF Saved
  <2>2. CASE name = command.snapshot
    BY <1>r, <2>1, <2>2
  <2>3. CASE name # command.snapshot
    <3>1. Trees(rollbacks[name])' = Trees(rollbacks[name])
      BY <1>r, <2>3 DEF Trees
    <3> QED BY <2>1, <3>1 DEF Saved
  <2> QED BY <2>2, <2>3
<1>1. TypeOK'
  <2>1. target' \in Directory \cup {None}
    BY <1>0, <1>t, <1>r
  <2>2. backup' # None => faults' > 0
    BY DEF IInv, TypeOK, RollIn
  <2>3. /\ kind' \in {"collection", "private"} /\ now' \in 0..MaxNow
        /\ backup' \in Directory \cup {None} /\ manifest' \in Said \cup {Unreadable}
        /\ kept' \subseteq Versions /\ wiped' \subseteq Versions
        /\ torn' \in BOOLEAN /\ misnoted' \in BOOLEAN
        /\ installs' \in 0..MaxInstalls /\ faults' \in 0..MaxFaults
    BY DEF IInv, TypeOK, RollIn
  <2> QED BY <1>0, <1>r, <2>1, <2>2, <2>3 DEF TypeOK
<1>2. ISteps'
  BY <1>0, Forms DEF IInv, ISteps, RollIn
<1>3. IKept'
  BY <1>0, <1>s DEF IInv, IKept, NothingLost, OnDisk, RollIn
<1>4. INotes'
  BY <1>0, <1>r DEF IInv, INotes, Truthful, RollIn
<1>5. ITold'
  BY <1>0 DEF IInv, ITold, RollIn
<1> QED BY <1>1, <1>2, <1>3, <1>4, <1>5 DEF IInv

LEMMA RollRecordStep == ASSUME IInv, RollRecord PROVE IInv'
<1>0. command' = Idle /\ command'.at = "idle" /\ command' \notin Installing
  BY Forms DEF RollRecord
<1>n. command.note \in Said \cup {None}
  BY Forms DEF IInv, TypeOK, RollRecord, RollingBack, Ats
<1>m. \/ manifest = Unreadable /\ torn' /\ manifest' = manifest
      \/ /\ manifest' \in {RolledBack, command.note} /\ manifest' \in Said \ {Nothing}
         /\ torn' = misnoted
  BY <1>n, Distinct DEF RollRecord, Said
<1>1. TypeOK'
  BY <1>0, <1>m DEF IInv, TypeOK, RollRecord
<1>2. ISteps'
  BY <1>0 DEF IInv, ISteps, RollRecord
<1>3. IKept'
  BY <1>0 DEF IInv, IKept, NothingLost, OnDisk, Saved, RollRecord
<1>4. INotes'
  BY <1>0 DEF IInv, INotes, Truthful, RollRecord
<1>5. ITold'
  BY <1>0, <1>m, Distinct, ValuesAssumption DEF IInv, INotes, ITold, Tells, RollRecord
<1> QED BY <1>1, <1>2, <1>3, <1>4, <1>5 DEF IInv

(* What is true of the empty disk, and stays true.                          *)
LEMMA InitInv == Init => IInv
<1> SUFFICES ASSUME Init PROVE IInv
  OBVIOUS
<1>1. command = Idle /\ command.at = "idle" /\ command \notin Installing
  BY Forms DEF Init
<1>2. Nothing \in Said /\ Nothing # Unreadable /\ Nothing \notin Versions
  BY ValuesAssumption, Distinct DEF Said
<1>3. TypeOK
  <2>1. 0 \in 0..MaxNow /\ 0 \in 0..MaxInstalls /\ 0 \in 0..MaxFaults
    BY Bounds
  <2>2. rollbacks \in [SnapshotNames -> Directory \cup {None}]
    BY DEF Init
  <2>3. target = None /\ backup = None /\ manifest = Nothing /\ kept = {} /\ wiped = {}
        /\ kind \in {"collection", "private"} /\ torn = FALSE /\ misnoted = FALSE
        /\ now = 0 /\ installs = 0 /\ faults = 0
    BY DEF Init
  <2> QED BY <1>1, <1>2, <2>1, <2>2, <2>3 DEF TypeOK
<1>4. ISteps /\ IKept
  BY <1>1 DEF Init, ISteps, IKept, NothingLost
<1>5. INotes
  BY <1>1 DEF Init, INotes, Truthful
<1>6. ITold
  BY <1>1, <1>2 DEF Init, ITold, Tells
<1> QED BY <1>3, <1>4, <1>5, <1>6 DEF IInv

LEMMA StepInv == IInv /\ [Next]_vars => IInv'
<1> SUFFICES ASSUME IInv, [Next]_vars PROVE IInv'
  OBVIOUS
<1>1. CASE UNCHANGED vars
  <2>0. TypeOK'
    BY <1>1 DEF vars, IInv, TypeOK
  <2>1. ISteps' /\ ITold'
    BY <1>1 DEF vars, IInv, ISteps, ITold, Tells
  <2>2. Saved' = Saved
    BY <1>1 DEF vars, Saved
  <2>3. IKept'
    BY <1>1, <2>2 DEF vars, IInv, IKept, NothingLost, OnDisk
  <2>4. INotes'
    BY <1>1 DEF vars, IInv, INotes, Truthful
  <2> QED BY <2>0, <2>1, <2>3, <2>4 DEF IInv
<1>2. CASE \E version \in Versions : Install(version)
  BY <1>2, InstallStep
<1>3. CASE SetAside \/ CopyBegins \/ CopyEnds \/ Save \/ Note \/ Record
  BY <1>3, SetAsideStep, CopyBeginsStep, CopyEndsStep, SaveStep, NoteStep, RecordStep
<1>4. CASE Fails \/ SetAsideFails \/ Undo \/ Restore
  BY <1>4, FailsStep, SetAsideFailsStep, UndoStep, RestoreStep
<1>5. CASE Rollback \/ RollOut \/ RollIn \/ RollRecord
  BY <1>5, RollbackStep, RollOutStep, RollInStep, RollRecordStep
<1>6. CASE Tick \/ Remove \/ Forget \/ Stops
  BY <1>6, TickStep, RemoveStep, ForgetStep, StopsStep
<1> QED BY <1>1, <1>2, <1>3, <1>4, <1>5, <1>6 DEF Next

(* The variables always hold what their comments say.                       *)
THEOREM TypeCorrect == Spec => []TypeOK
<1>1. IInv => TypeOK
  BY DEF IInv
<1> QED BY <1>1, InitInv, StepInv, PTL DEF Spec

(* Whatever fails and wherever a command is killed, a version whose         *)
(* installation was reported stays on the disk, in place, in the backup or  *)
(* in a snapshot, unless it was removed on purpose or deleted by the undo   *)
(* of an install that could not even set it aside whole.                    *)
THEOREM KeepsEverything == Spec => []NothingLost
<1>1. IInv => NothingLost
  BY DEF IInv, IKept
<1> QED BY <1>1, InitInv, StepInv, PTL DEF Spec

(* Between commands, while none has left the two apart, the manifest can be *)
(* read and names the version in the installed directory.                   *)
THEOREM ManifestRight == Spec => []ManifestTellsTheTree
<1>1. IInv => ManifestTellsTheTree
  BY DEF IInv, ITold, ManifestTellsTheTree
<1> QED BY <1>1, InitInv, StepInv, PTL DEF Spec
================================================================================
