----------------------------- MODULE ManagedRuntime -----------------------------
(***************************************************************************)
(* The files through which a fleet adapter and the vendor runtime meet      *)
(* (fleet/managed_runtime.py, and the same steps in fleet/claude_code.py).  *)
(*                                                                          *)
(* The agent process replaces the skills directory, records what is active  *)
(* in active.json, and attests the inventory from the evidence that hooks   *)
(* of runtime sessions leave in runtime-history/ and runtime-current.json.  *)
(* Hooks are processes of their own: they read while the agent writes.      *)
(*                                                                          *)
(* A tree of skill files is named by the inventory it holds.  Two documents *)
(* may ask for one inventory (a rollback does): their trees are the same,   *)
(* their activation nonces and markers are not.                             *)
(***************************************************************************)
EXTENDS Naturals

CONSTANTS
    Docs,           \* desired states by their epochs 1, 2, ...
    InventoryOf,    \* the inventory each of them asks for
    Hooks,          \* hook processes
    Missing,        \* there is no skills directory
    Foreign,        \* the skills directory holds something nobody activated
    None,           \* no file, or nothing read yet
    MaxActivations, \* bound: activations that replace the directory
    MaxSessions,    \* bound: runtime sessions
    MaxMishaps      \* bound: moves and writes of the agent that fail, agents
                    \* killed, changes of the files by another hand

ASSUME RuntimeConstants ==
    /\ Docs \subseteq Nat \ {0}
    /\ DOMAIN InventoryOf = Docs
    /\ \A d \in Docs : InventoryOf[d] \notin {Missing, Foreign, None}
    /\ Missing # Foreign /\ None \notin {Missing, Foreign}
    /\ {MaxActivations, MaxSessions, MaxMishaps} \subseteq Nat

VARIABLES
    want,       \* the document the reconciler hands to the adapter
    tree,       \* the skills directory
    active,     \* active.json: document, activation marker, recorded tree
    current,    \* runtime-current.json
    created,    \* generations that have a file in runtime-history/
    history,    \* the complete records among those files
    pc,         \* where the agent process is in an adapter call
    previous,   \* had_previous
    backup,     \* the directory that was moved aside
    read,       \* runtime-current.json as attest_inventory read it
    hook,       \* what every hook process has read
    attested,   \* history: the attestations returned
    count       \* bounded events so far

fileVars == <<created, history>>
agentVars == <<pc, previous, backup, read>>
vars == <<want, tree, active, current, created, history, agentVars, hook,
          attested, count>>

Inventories == {InventoryOf[d] : d \in Docs}
Trees == Inventories \cup {Missing, Foreign}

Active == [doc : Docs, marker : Nat, tree : Trees]
Observation == [session : Nat, active : Active, tree : Trees]

(* What an attestation is asked with, as AgentAdapter sees it.              *)
Question == [generation : Nat \X Nat, current : BOOLEAN]

ASSUME NoneAssumption ==
    /\ None \notin Active /\ None \notin Observation
    /\ None \notin Nat \X Nat /\ None \notin Question

(* runtime_generation: a hash of the session, its process and the marker. *)
Generation(o) == <<o.session, o.active.marker>>

(* The tree in the skills directory is not the recorded one. *)
Drifted == tree # active.tree

Occurs(what) == count' = [count EXCEPT ![what] = @ + 1]

Mishaps == count.writes + count.moves + count.crashes + count.tampers

Init ==
    /\ want = 0
    /\ tree \in {Missing, Foreign}
    /\ active = None
    /\ current = None
    /\ created = {}
    /\ history = {}
    /\ pc = "idle"
    /\ previous = FALSE
    /\ backup = None
    /\ read = None
    /\ hook = [h \in Hooks |-> [at |-> "idle"]]
    /\ attested = {}
    /\ count = [activations |-> 0, sessions |-> 0, tampers |-> 0,
                writes |-> 0, moves |-> 0, crashes |-> 0]

(* A newer desired state reaches the agent between two of its passes. *)
Receive ==
    /\ pc = "idle"
    /\ want + 1 \in Docs
    /\ want' = want + 1
    /\ UNCHANGED <<tree, active, current, fileVars, agentVars, hook, attested, count>>

--------------------------------------------------------------------------------
(* The agent: discover, activate_inventory, attest_inventory. *)

(* discover, the first call of a pass, raises when active.json exists and   *)
(* the skills directory does not.                                           *)
discover == active = None \/ tree # Missing

(* The desired packs and nonces are recorded and the files are untouched. *)
SameActivation == active # None /\ active.doc = want /\ ~Drifted

ActivateNothing ==
    /\ pc = "idle" /\ want # 0
    /\ discover
    /\ SameActivation
    /\ pc' = "attest"
    /\ UNCHANGED <<want, tree, active, current, fileVars, previous, backup, read,
                   hook, attested, count>>

(* Every revision is verified and its files are copied to a new directory.  *)
(* A failure up to here changes nothing, a pass later tries again.          *)
Stage ==
    /\ pc = "idle" /\ want # 0
    /\ discover
    /\ ~SameActivation
    /\ count.activations < MaxActivations
    /\ Occurs("activations")
    /\ previous' = (tree # Missing)
    /\ pc' = "staged"
    /\ UNCHANGED <<want, tree, active, current, fileVars, backup, read, hook, attested>>

(* os.replace(skills_root, backup) *)
MoveAside ==
    /\ pc = "staged"
    /\ IF previous THEN backup' = tree /\ tree' = Missing
                   ELSE UNCHANGED <<backup, tree>>
    /\ pc' = "aside"
    /\ UNCHANGED <<want, active, current, fileVars, previous, read, hook,
                   attested, count>>

(* os.replace(staging, skills_root) *)
MoveIn ==
    /\ pc = "aside"
    /\ tree' = InventoryOf[want]
    /\ pc' = "in"
    /\ UNCHANGED <<want, active, current, fileVars, previous, backup, read, hook,
                   attested, count>>

(* Mutant: the backup is left where it is. *)
MoveInFails_BackupKept ==
    /\ pc = "aside"
    /\ Mishaps < MaxMishaps
    /\ Occurs("moves")
    /\ pc' = "idle"
    /\ UNCHANGED <<want, tree, active, current, fileVars, previous, backup, read,
                   hook, attested>>

(* It raises: "finally" removes the staged copy and the backup as well. *)
MoveInFails ==
    /\ pc = "aside"
    /\ Mishaps < MaxMishaps
    /\ Occurs("moves")
    /\ backup' = None
    /\ pc' = "idle"
    /\ UNCHANGED <<want, tree, active, current, fileVars, previous, read, hook, attested>>

RecordActive ==
    /\ pc = "in"
    /\ active' = [doc |-> want, marker |-> count.activations,
                  tree |-> InventoryOf[want]]
    /\ backup' = None
    /\ pc' = "attest"
    /\ UNCHANGED <<want, tree, current, fileVars, previous, read, hook, attested, count>>

(* active.json cannot be replaced: the new directory is removed. *)
RecordFails ==
    /\ pc = "in"
    /\ Mishaps < MaxMishaps
    /\ Occurs("writes")
    /\ tree' = Missing
    /\ pc' = "undo"
    /\ UNCHANGED <<want, active, current, fileVars, previous, backup, read, hook, attested>>

(* Mutant: the backup is removed without being put back. *)
PutBack_Removed ==
    /\ pc = "undo"
    /\ backup' = None
    /\ pc' = "idle"
    /\ UNCHANGED <<want, tree, active, current, fileVars, previous, read, hook,
                   attested, count>>

(* The directory moved aside comes back, and the call raises. *)
PutBack ==
    /\ pc = "undo"
    /\ tree' = IF previous THEN backup ELSE Missing
    /\ backup' = None
    /\ pc' = "idle"
    /\ UNCHANGED <<want, active, current, fileVars, previous, read, hook,
                   attested, count>>

(* attest_inventory reads runtime-current.json; without one it is pending. *)
AttestRead ==
    /\ pc = "attest"
    /\ read' = current
    /\ pc' = IF current = None THEN "idle" ELSE "compare"
    /\ UNCHANGED <<want, tree, active, current, fileVars, previous, backup, hook,
                   attested, count>>

(* Mutant: the last session counts, whatever activation it was started with. *)
Evidence_AnyActivation(o) ==
    /\ o.active.doc = want
    /\ o.tree = tree

(* The session saw this very activation, and the files that are there now. *)
Evidence(o) ==
    /\ o.active = active
    /\ o.tree = tree

(* The evidence is in the history unchanged, and the files are the desired  *)
(* ones, as they are read now.                                              *)
AttestCompare ==
    /\ pc = "compare"
    /\ tree # Missing /\ ~Drifted
    /\ active.doc = want
    /\ read \in history
    /\ Evidence(read)
    /\ attested' = attested \cup
          {[generation |-> Generation(read), active |-> active, tree |-> tree]}
    /\ pc' = "drift"
    /\ read' = None
    /\ UNCHANGED <<want, tree, active, current, fileVars, previous, backup, hook, count>>

(* Pending or invalid: nothing is attested. *)
AttestRefused ==
    /\ pc = "compare"
    /\ \/ tree = Missing \/ Drifted
       \/ active.doc # want
       \/ read \notin history
       \/ ~Evidence(read)
    /\ pc' = "idle"
    /\ read' = None
    /\ UNCHANGED <<want, tree, active, current, fileVars, previous, backup, hook,
                   attested, count>>

(* detect_inventory_drift only reads; the pass is over. *)
DetectDrift ==
    /\ pc = "drift"
    /\ pc' = "idle"
    /\ UNCHANGED <<want, tree, active, current, fileVars, previous, backup, read,
                   hook, attested, count>>

(* The agent process is killed; a backup it leaves is never looked at again. *)
Crash ==
    /\ pc # "idle"
    /\ Mishaps < MaxMishaps
    /\ Occurs("crashes")
    /\ pc' = "idle"
    /\ previous' = FALSE
    /\ backup' = None
    /\ read' = None
    /\ UNCHANGED <<want, tree, active, current, fileVars, hook, attested>>

--------------------------------------------------------------------------------
(* record_managed_runtime_observation, in a hook of a runtime session. *)

HookAt(h, label) == hook[h].at = label

Idle == [at |-> "idle"]

(* The session is new, or an older one whose hook runs once more.  Without  *)
(* active.json the hook raises.                                             *)
HookReadActive(h) ==
    /\ HookAt(h, "idle")
    /\ active # None
    /\ \E s \in 1..count.sessions + 1 :
          /\ s <= MaxSessions
          /\ hook' = [hook EXCEPT ![h] = [at |-> "read", session |-> s, active |-> active]]
          /\ count' = [count EXCEPT !.sessions = IF s > @ THEN s ELSE @]
    /\ UNCHANGED <<want, tree, active, current, fileVars, agentVars, attested>>

(* Without a skills directory it raises, too. *)
HookReadTree(h) ==
    /\ HookAt(h, "read")
    /\ hook' = [hook EXCEPT ![h] =
          IF tree = Missing THEN Idle
          ELSE [at |-> "seen",
                observation |-> [session |-> @.session, active |-> @.active, tree |-> tree]]]
    /\ UNCHANGED <<want, tree, active, current, fileVars, agentVars, attested, count>>

(* Mutant: the file of the generation is opened without "x". *)
Recorded_Never(o) == FALSE

(* The file of the generation exists.  It never has the same content: it    *)
(* holds the process and the time of the hook that wrote it, or less.       *)
Recorded(o) == Generation(o) \in created

(* The history file is created exclusively, or the hook raises              *)
(* runtime_generation_conflict or, as the file is incomplete,               *)
(* runtime_history_invalid.                                                 *)
HookCreate(h) ==
    /\ HookAt(h, "seen")
    /\ LET o == hook[h].observation
       IN  IF Recorded(o)
           THEN /\ hook' = [hook EXCEPT ![h] = Idle]
                /\ UNCHANGED created
           ELSE /\ hook' = [hook EXCEPT ![h].at = "created"]
                /\ created' = created \cup {Generation(o)}
    /\ UNCHANGED <<want, tree, active, current, history, agentVars, attested, count>>

HookWrite(h) ==
    /\ HookAt(h, "created")
    /\ history' = history \cup {hook[h].observation}
    /\ hook' = [hook EXCEPT ![h].at = "recorded"]
    /\ UNCHANGED <<want, tree, active, current, created, agentVars, attested, count>>

(* Mutant: runtime-current.json is written first. *)
Publishable_First(h) == HookAt(h, "created") \/ HookAt(h, "recorded")

Publishable(h) == HookAt(h, "recorded")

(* runtime-current.json is replaced, whoever wrote it last. *)
HookPublish(h) ==
    /\ Publishable(h)
    /\ current' = hook[h].observation
    /\ hook' = [hook EXCEPT ![h] = Idle]
    /\ UNCHANGED <<want, tree, active, fileVars, agentVars, attested, count>>

(* The session ends while its hook runs; a record it had not written stays  *)
(* an empty file.                                                           *)
HookStops(h) ==
    /\ ~HookAt(h, "idle")
    /\ hook' = [hook EXCEPT ![h] = Idle]
    /\ UNCHANGED <<want, tree, active, current, fileVars, agentVars, attested, count>>

(* Somebody edits the files, or puts the activated ones back. *)
Tamper ==
    /\ tree # Missing
    /\ active # None
    /\ Mishaps < MaxMishaps
    /\ Occurs("tampers")
    /\ tree' \in {Foreign, active.tree} \ {tree}
    /\ UNCHANGED <<want, active, current, fileVars, agentVars, hook, attested>>

Next ==
    \/ Receive
    \/ ActivateNothing \/ Stage \/ MoveAside \/ MoveIn \/ MoveInFails
    \/ RecordActive \/ RecordFails \/ PutBack
    \/ AttestRead \/ AttestCompare \/ AttestRefused \/ DetectDrift
    \/ Crash \/ Tamper
    \/ \E h \in Hooks :
          \/ HookReadActive(h) \/ HookReadTree(h) \/ HookCreate(h)
          \/ HookWrite(h) \/ HookPublish(h) \/ HookStops(h)

Spec == Init /\ [][Next]_vars

--------------------------------------------------------------------------------

(* The files and what the processes have read have their formats, and the   *)
(* agent holds a backup only while it replaces the directory.               *)
TypeOK ==
    /\ want \in Docs \cup {0}
    /\ tree \in Trees
    /\ active \in Active \cup {None}
    /\ current \in Observation \cup {None}
    /\ history \subseteq Observation
    /\ {Generation(o) : o \in history} \subseteq created
    /\ pc \in {"idle", "staged", "aside", "in", "undo", "attest", "compare", "drift"}
    /\ previous \in BOOLEAN
    /\ backup \in Trees \cup {None}
    /\ backup # None => pc \in {"aside", "in", "undo"}
    /\ read \in Observation \cup {None}
    /\ read # None <=> pc = "compare"
    /\ \A x \in attested : x.active \in Active /\ x.tree \in Trees

(* Whatever hooks ran meanwhile, an attested generation is a session that   *)
(* recorded, after this very activation, the complete files it installed.   *)
AttestationSound ==
    \A x \in attested :
        /\ x.tree = InventoryOf[x.active.doc]
        /\ \E o \in history :
              Generation(o) = x.generation /\ o.active = x.active /\ o.tree = x.tree

(* The generations that a hook has claimed and may still publish. *)
Pending == {Generation(hook[h].observation) :
              h \in {g \in Hooks : HookAt(g, "created") \/ HookAt(g, "recorded")}}

(* The session was started with the activation that is recorded, and found  *)
(* the files of it.                                                         *)
Witness(o) == o.active = active /\ o.tree = active.tree

Adapter == INSTANCE AgentAdapter WITH
    active   <- IF active = None THEN 0 ELSE active.doc,
    drifted  <- active # None /\ Drifted,
    observed <- IF current = None THEN None ELSE Generation(current),
    current  <- current # None /\ Witness(current),
    used     <- created \ Pending,
    asked    <- IF read = None THEN None
                ELSE [generation |-> Generation(read), current |-> Witness(read)],
    attested <- {[generation |-> x.generation, inventory |-> x.active.doc] : x \in attested}

(* The files and the processes that race on them are the adapter that the   *)
(* reconciler counts on: an activation makes every earlier session stale,   *)
(* no generation is shown twice, and an attestation rests on the session    *)
(* that was shown when it was asked for and on files that are as activated. *)
ImplementsAdapter == Adapter!Spec

(* runtime-current.json never shows what the history does not hold, so an   *)
(* honest session is never refused as forged.                               *)
CurrentIsRecorded == current # None => current \in history

(* A call that failed, unless it was killed or lost the new directory in    *)
(* the move, has undone what it did: while nobody else changes them, the    *)
(* files are the recorded ones, or those that were there at first.          *)
FailedActivationUndone ==
    pc = "idle" /\ count.crashes + count.moves + count.tampers = 0 =>
        IF active = None THEN tree \notin Inventories ELSE ~Drifted

================================================================================
