----------------------------- MODULE FleetIdentity -----------------------------
(***************************************************************************)
(* The identity of a local fleet agent (client.FleetAgentIdentityStore) and *)
(* its registration (client.FleetAgentClient.register): a UUID that is      *)
(* chosen once, and the agent id that the registry issues for it.           *)
(*                                                                          *)
(* Control loops may overlap, and none takes a lock: the identity file is   *)
(* linked where no file is yet, and replaced when the agent id is bound.    *)
(***************************************************************************)
EXTENDS Naturals

CONSTANTS
    Procs,          \* processes that run the control loop
    Installations,  \* installation ids they may have read
    NoAgent,        \* the agent id of an identity that is not bound
    None,           \* no identity
    MaxUUIDs,       \* bound: identities created
    MaxFaults       \* bound: requests lost, writes that fail, processes killed

ASSUME IdentityConstants ==
    /\ NoAgent \notin Nat
    /\ None \notin [installation : Installations, local : Nat, agent : Nat \cup {NoAgent}]
    /\ MaxUUIDs \in Nat /\ MaxFaults \in Nat

VARIABLES
    file,           \* agent-identity.json
    registered,     \* registry: every (installation, UUID) and its agent id
    pc,
    installation,   \* registration.install_id of a process
    identity,       \* the identity it holds
    uuids,          \* UUIDs chosen so far
    faults

vars == <<file, registered, pc, installation, identity, uuids, faults>>

Identity == [installation : Installations, local : Nat, agent : Nat \cup {NoAgent}]

Init ==
    /\ file = None
    /\ registered = {}
    /\ pc = [p \in Procs |-> "idle"]
    /\ installation \in [Procs -> Installations]
    /\ identity = [p \in Procs |-> None]
    /\ uuids = 0
    /\ faults = 0

Goto(p, label) == pc' = [pc EXCEPT ![p] = label]

Holds(p, i) == identity' = [identity EXCEPT ![p] = i]

(* The call raises, or the process ends; the next one reads the             *)
(* installation anew.                                                       *)
Leave(p) ==
    /\ Goto(p, "idle")
    /\ Holds(p, None)
    /\ \E i \in Installations : installation' = [installation EXCEPT ![p] = i]

--------------------------------------------------------------------------------
(* load_or_create *)

(* The stored identity, unless it is of another installation. *)
Loaded(p, label) ==
    IF file.installation = installation[p]
    THEN Goto(p, label) /\ Holds(p, file) /\ UNCHANGED installation
    ELSE Leave(p)

Load(p) ==
    /\ pc[p] = "idle"
    /\ IF file = None
       THEN Goto(p, "create") /\ UNCHANGED <<identity, installation>>
       ELSE Loaded(p, "register")
    /\ UNCHANGED <<file, registered, uuids, faults>>

(* Mutant: os.replace in the place of os.link. *)
Linked_Replaced(new) == new

(* os.link leaves a file that is there as it is. *)
Linked(new) == IF file = None THEN new ELSE file

(* _write_new *)
Create(p) ==
    /\ pc[p] = "create"
    /\ uuids < MaxUUIDs
    /\ uuids' = uuids + 1
    /\ LET new == [installation |-> installation[p], local |-> uuids', agent |-> NoAgent]
       IN  file' = Linked(new) /\ Holds(p, new)
    /\ Goto(p, "reload")
    /\ UNCHANGED <<registered, installation, faults>>

(* Mutant: the identity that was to be written is used as it is. *)
Reload_Own(p) ==
    /\ pc[p] = "reload"
    /\ Goto(p, "register")
    /\ UNCHANGED <<file, registered, installation, identity, uuids, faults>>

(* What is stored counts, whoever wrote it. *)
Reload(p) ==
    /\ pc[p] = "reload"
    /\ Loaded(p, "register")
    /\ UNCHANGED <<file, registered, uuids, faults>>

--------------------------------------------------------------------------------
(* register *)

Key(i) == <<i.installation, i.local>>

(* The registry issues one agent id for an installation and a UUID, and     *)
(* repeats it when it is asked again.                                       *)
Issued(i) ==
    IF \E r \in registered : Key(r) = Key(i)
    THEN registered
    ELSE registered \cup {[i EXCEPT !.agent = i.local]}

AgentOf(i) == (CHOOSE r \in registered' : Key(r) = Key(i)).agent

(* The answer names the UUID that was sent, and an agent id. *)
Register(p) ==
    /\ pc[p] = "register"
    /\ registered' = Issued(identity[p])
    /\ Holds(p, [identity[p] EXCEPT !.agent = AgentOf(identity[p])])
    /\ Goto(p, "bind")
    /\ UNCHANGED <<file, installation, uuids, faults>>

(* The request reaches the registry and its answer is lost. *)
RegisterUnheard(p) ==
    /\ pc[p] = "register"
    /\ faults < MaxFaults
    /\ faults' = faults + 1
    /\ registered' = Issued(identity[p])
    /\ Leave(p)
    /\ UNCHANGED <<file, uuids>>

(* bind_agent loads the identity once more and compares. *)
Bind(p) ==
    /\ pc[p] = "bind"
    /\ IF \/ Key(file) # Key(identity[p])
          \/ file.agent \notin {NoAgent, identity[p].agent}
       THEN Leave(p)
       ELSE /\ Goto(p, IF file.agent = NoAgent THEN "replace" ELSE "bound")
            /\ UNCHANGED <<identity, installation>>
    /\ UNCHANGED <<file, registered, uuids, faults>>

Replace(p) ==
    /\ pc[p] = "replace"
    /\ file' = identity[p]
    /\ Goto(p, "verify")
    /\ UNCHANGED <<registered, installation, identity, uuids, faults>>

(* What is stored is compared with what was to be stored. *)
Verify(p) ==
    /\ pc[p] = "verify"
    /\ IF file = identity[p]
       THEN Goto(p, "bound") /\ UNCHANGED <<identity, installation>>
       ELSE Leave(p)
    /\ UNCHANGED <<file, registered, uuids, faults>>

(* heartbeat and upload_pending_receipts go on only with the identity that  *)
(* is stored; the pass is over after that.                                  *)
Finish(p) ==
    /\ pc[p] = "bound"
    /\ Leave(p)
    /\ UNCHANGED <<file, registered, uuids, faults>>

(* A write fails, or the process is killed. *)
Stop(p) ==
    /\ pc[p] # "idle"
    /\ faults < MaxFaults
    /\ faults' = faults + 1
    /\ Leave(p)
    /\ UNCHANGED <<file, registered, uuids>>

Next ==
    \E p \in Procs :
        \/ Load(p) \/ Create(p) \/ Reload(p)
        \/ Register(p) \/ RegisterUnheard(p)
        \/ Bind(p) \/ Replace(p) \/ Verify(p) \/ Finish(p) \/ Stop(p)

Spec == Init /\ [][Next]_vars

--------------------------------------------------------------------------------

(* The variables hold what their comments say, and a process that is bound  *)
(* holds the identity that is stored.                                       *)
TypeOK ==
    /\ file \in Identity \cup {None}
    /\ registered \subseteq Identity
    /\ pc \in [Procs -> {"idle", "create", "reload", "register", "bind",
                         "replace", "verify", "bound"}]
    /\ installation \in [Procs -> Installations]
    /\ identity \in [Procs -> Identity \cup {None}]
    /\ uuids \in 0..MaxUUIDs
    /\ faults \in 0..MaxFaults
    /\ \A p \in Procs :
          /\ pc[p] \in {"idle", "create"} <=> identity[p] = None
          /\ pc[p] = "bound" => identity[p] = file

(* "persists that UUID atomically and reuses it for the life of the local   *)
(* agent instance" (docs/fleet-wire-contract-v1.md): however many processes *)
(* create, register and bind at once, the stored identity is never lost or  *)
(* replaced by another one, and never loses its agent id.                   *)
IdentityIsKept ==
    [][file # None =>
          /\ file' # None
          /\ Key(file') = Key(file)
          /\ file.agent # NoAgent => file'.agent = file.agent]_vars

(* The registry never hears of a UUID that is not the stored one, so one    *)
(* agent directory never becomes two agents.                                *)
OneAgentRegistered == \A r \in registered : file # None /\ Key(r) = Key(file)

================================================================================
