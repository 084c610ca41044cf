-------------------------- MODULE FleetIdentityProofs --------------------------
(***************************************************************************)
(* Proofs about FleetIdentity: for any number of overlapping control loops, *)
(* installations, faults and identities created, the stored identity is     *)
(* kept and is the only one that the registry ever hears of.                *)
(***************************************************************************)
EXTENDS FleetIdentity, TLAPS

(* Labels of a process that holds an identity, and among them of one that   *)
(* has the agent id, and of one that knows it to be stored.                 *)
Holding == {"register", "bind", "replace", "verify", "bound"}
Answered == {"bind", "replace", "verify", "bound"}
Stored == {"verify", "bound"}

(* Types, as far as the argument needs them. *)
IType ==
    /\ file \in Identity \cup {None}
    /\ registered \subseteq Identity
    /\ pc \in [Procs -> {"idle", "create", "reload"} \cup Holding]
    /\ installation \in [Procs -> Installations]
    /\ identity \in [Procs -> Identity \cup {None}]
    /\ uuids \in 0..MaxUUIDs
    /\ faults \in 0..MaxFaults

(* The agent id of the stored identity is the one issued for its UUID. *)
IFile == file # None => file.agent \in {NoAgent, file.local}

(* The registry knows the stored identity only. *)
IRegistered ==
    \A r \in registered : file # None /\ Key(r) = Key(file) /\ r.agent = r.local

(* What a process holds is the stored identity, but for the agent id. *)
IHeld ==
    \A p \in Procs :
        /\ pc[p] = "reload" => file # None /\ identity[p] # None
        /\ pc[p] \in {"idle", "create"} => identity[p] = None
        /\ pc[p] \in Holding =>
              file # None /\ identity[p] # None /\ Key(identity[p]) = Key(file)
        /\ pc[p] \in Answered => identity[p].agent = identity[p].local
        /\ pc[p] \in Stored => identity[p] = file

IInv == IType /\ IFile /\ IRegistered /\ IHeld

(* A file is identified by its installation, UUID and agent id. *)
LEMMA SameIdentity ==
    ASSUME NEW i \in Identity, NEW j \in Identity, Key(i) = Key(j), i.agent = j.agent
    PROVE  i = j
  BY DEF Identity, Key

(* What a step may do to the file while it keeps the identity in it. *)
KeepsFile ==
    file # None =>
        /\ file' # None
        /\ Key(file') = Key(file)
        /\ file.agent # NoAgent => file'.agent = file.agent

LEMMA InitInv == Init => IInv
  BY IdentityConstants DEF Init, IInv, IType, IFile, IRegistered, IHeld, Holding,
     Answered, Stored, Identity

LEMMA LoadStep ==
    ASSUME IInv, NEW p \in Procs, Load(p)
    PROVE  IInv' /\ KeepsFile
  BY IdentityConstants DEF IInv, IType, IFile, IRegistered, IHeld, KeepsFile,
     Load, Loaded, Leave, Goto, Holds, Holding, Answered, Stored, Identity, Key

LEMMA CreateStep ==
    ASSUME IInv, NEW p \in Procs, Create(p)
    PROVE  IInv' /\ KeepsFile
  BY IdentityConstants DEF IInv, IType, IFile, IRegistered, IHeld, KeepsFile,
     Create, Linked, Goto, Holds, Holding, Answered, Stored, Identity, Key

LEMMA ReloadStep ==
    ASSUME IInv, NEW p \in Procs, Reload(p)
    PROVE  IInv' /\ KeepsFile
  BY IdentityConstants DEF IInv, IType, IFile, IRegistered, IHeld, KeepsFile,
     Reload, Loaded, Leave, Goto, Holds, Holding, Answered, Stored, Identity, Key

LEMMA LeaveStep ==
    ASSUME IInv, NEW p \in Procs, Leave(p), UNCHANGED <<file, registered, uuids>>,
           faults' \in 0..MaxFaults
    PROVE  IInv' /\ KeepsFile
  BY IdentityConstants DEF IInv, IType, IFile, IRegistered, IHeld, KeepsFile,
     Leave, Goto, Holds, Holding, Answered, Stored, Identity, Key

(* What the registry issues keeps what it knows, and answers with the UUID. *)
LEMMA IssuedStep ==
    ASSUME IInv, NEW p \in Procs, pc[p] = "register",
           registered' = Issued(identity[p]), UNCHANGED file
    PROVE  /\ registered' \subseteq Identity
           /\ \A r \in registered' : Key(r) = Key(file) /\ r.agent = r.local
           /\ AgentOf(identity[p]) = identity[p].local
<1>1. identity[p] \in Identity /\ file # None /\ Key(identity[p]) = Key(file)
  BY DEF IInv, IType, IHeld, Holding
<1>2. PICK r \in registered' : Key(r) = Key(identity[p])
  <2>1. CASE \E r \in registered : Key(r) = Key(identity[p])
    BY <2>1 DEF Issued
  <2>2. CASE ~\E r \in registered : Key(r) = Key(identity[p])
    <3> DEFINE new == [identity[p] EXCEPT !.agent = identity[p].local]
    <3>1. new \in registered'
      BY <2>2 DEF Issued
    <3>2. Key(new) = Key(identity[p])
      BY <1>1 DEF Key, Identity
    <3>3. QED
      BY <3>1, <3>2
  <2>3. QED
    BY <2>1, <2>2
<1>3. /\ registered' \subseteq Identity
      /\ \A x \in registered' : Key(x) = Key(file) /\ x.agent = x.local
  BY <1>1 DEF IInv, IType, IRegistered, Issued, Key, Identity
<1>4. AgentOf(identity[p]) = identity[p].local
  BY <1>1, <1>2, <1>3 DEF AgentOf, Key
<1>5. QED
  BY <1>3, <1>4

LEMMA RegisterStep ==
    ASSUME IInv, NEW p \in Procs, Register(p)
    PROVE  IInv' /\ KeepsFile
<1>1. /\ registered' \subseteq Identity
      /\ \A r \in registered' : Key(r) = Key(file) /\ r.agent = r.local
      /\ AgentOf(identity[p]) = identity[p].local
  BY IssuedStep DEF Register
<1>2. QED
  BY <1>1, IdentityConstants DEF IInv, IType, IFile, IRegistered, IHeld, KeepsFile,
     Register, Goto, Holds, Holding, Answered, Stored, Identity, Key

LEMMA RegisterUnheardStep ==
    ASSUME IInv, NEW p \in Procs, RegisterUnheard(p)
    PROVE  IInv' /\ KeepsFile
<1>1. /\ registered' \subseteq Identity
      /\ \A r \in registered' : Key(r) = Key(file) /\ r.agent = r.local
  BY IssuedStep DEF RegisterUnheard
<1>2. QED
  BY <1>1, IdentityConstants DEF IInv, IType, IFile, IRegistered, IHeld, KeepsFile,
     RegisterUnheard, Leave, Goto, Holds, Holding, Answered, Stored, Identity, Key

LEMMA BindStep ==
    ASSUME IInv, NEW p \in Procs, Bind(p)
    PROVE  IInv' /\ KeepsFile
<1>1. CASE Leave(p)
  BY <1>1, LeaveStep DEF Bind, IInv, IType
<1>2. CASE ~Leave(p)
  <2>1. file.agent \in {NoAgent, identity[p].agent} /\ Key(file) = Key(identity[p])
    BY <1>2 DEF Bind
  <2>2. file # None /\ identity[p] # None
    BY DEF Bind, IInv, IHeld, Holding
  <2>3. file.agent # NoAgent => file = identity[p]
    BY <2>1, <2>2, SameIdentity DEF IInv, IType
  <2>4. QED
    BY <1>2, <2>1, <2>2, <2>3 DEF IInv, IType, IFile, IRegistered, IHeld, KeepsFile,
       Bind, Goto, Holding, Answered, Stored, Identity, Key
<1>3. QED
  BY <1>1, <1>2

(* Another process may have bound the identity since it was compared: then  *)
(* it was to the same agent id.                                             *)
LEMMA ReplaceStep ==
    ASSUME IInv, NEW p \in Procs, Replace(p)
    PROVE  IInv' /\ KeepsFile
<1>1. /\ file # None /\ identity[p] \in Identity
      /\ Key(identity[p]) = Key(file)
      /\ identity[p].agent = file.local
  BY DEF Replace, IInv, IType, IHeld, Holding, Answered, Key
<1>2. ASSUME NEW q \in Procs, pc[q] \in Stored
      PROVE  identity[q] = identity[p]
  BY <1>1, <1>2, SameIdentity DEF IInv, IType, IHeld, Stored, Answered, Holding, Key
<1>3. file' # None /\ Key(file') = Key(file) /\ file'.agent = file.local
  BY <1>1, IdentityConstants DEF Replace, Identity, Key
<1>4. KeepsFile
  BY <1>1, <1>3 DEF KeepsFile, IInv, IFile
<1>5. QED
  BY <1>1, <1>2, <1>4, IdentityConstants DEF IInv, IType, IFile, IRegistered, IHeld,
     Replace, Goto, Holding, Answered, Stored, Identity, Key

LEMMA NextStep ==
    ASSUME IInv, [Next]_vars
    PROVE  IInv' /\ (KeepsFile \/ UNCHANGED vars)
<1>1. CASE UNCHANGED vars
  BY <1>1 DEF vars, IInv, IType, IFile, IRegistered, IHeld, Key
<1>2. ASSUME NEW p \in Procs,
             \/ Load(p) \/ Create(p) \/ Reload(p)
             \/ Register(p) \/ RegisterUnheard(p)
             \/ Bind(p) \/ Replace(p) \/ Verify(p) \/ Finish(p) \/ Stop(p)
      PROVE  IInv' /\ KeepsFile
  <2>1. CASE Load(p)
    BY <2>1, LoadStep
  <2>2. CASE Create(p)
    BY <2>2, CreateStep
  <2>3. CASE Reload(p)
    BY <2>3, ReloadStep
  <2>4. CASE Register(p)
    BY <2>4, RegisterStep
  <2>5. CASE RegisterUnheard(p)
    BY <2>5, RegisterUnheardStep
  <2>6. CASE Bind(p)
    BY <2>6, BindStep
  <2>7. CASE Replace(p)
    BY <2>7, ReplaceStep
  <2>8. CASE Verify(p)
    <3>1. CASE Leave(p)
      BY <2>8, <3>1, LeaveStep DEF Verify, IInv, IType
    <3>2. CASE ~Leave(p)
      BY <2>8, <3>2 DEF Verify, Goto, IInv, IType, IFile, IRegistered, IHeld, KeepsFile,
         Holding, Answered, Stored, Key
    <3>3. QED
      BY <3>1, <3>2
  <2>9. CASE Finish(p)
    BY <2>9, LeaveStep DEF Finish, IInv, IType
  <2>10. CASE Stop(p)
    BY <2>10, LeaveStep, IdentityConstants DEF Stop, IInv, IType
  <2>11. QED
    BY <1>2, <2>1, <2>2, <2>3, <2>4, <2>5, <2>6, <2>7, <2>8, <2>9, <2>10
<1>3. QED
  BY <1>1, <1>2 DEF Next

(* The files, the registry and the processes agree in every reachable state *)
(* of any number of control loops.                                          *)
THEOREM Invariance == Spec => []IInv
<1>1. Init => IInv
  BY InitInv
<1>2. IInv /\ [Next]_vars => IInv'
  BY NextStep
<1>3. QED
  BY <1>1, <1>2, PTL DEF Spec

(* The files and the processes hold what they should, and a bound process   *)
(* holds the stored identity.                                               *)
THEOREM TypeCorrect == Spec => []TypeOK
<1>1. IInv => TypeOK
  BY DEF IInv, IType, IHeld, TypeOK, Holding, Stored
<1>2. QED
  BY <1>1, Invariance, PTL

(* The stored identity is never lost or replaced by another one, whatever   *)
(* load_or_create and bind_agent calls overlap.                             *)
THEOREM KeepsIdentity == Spec => IdentityIsKept
<1>1. IInv /\ [Next]_vars => [file # None =>
          /\ file' # None
          /\ Key(file') = Key(file)
          /\ file.agent # NoAgent => file'.agent = file.agent]_vars
  BY NextStep DEF KeepsFile
<1>2. QED
  BY <1>1, Invariance, PTL DEF Spec, IdentityIsKept

(* register is only ever sent with the UUID that is stored. *)
THEOREM RegistersOneAgent == Spec => []OneAgentRegistered
<1>1. IInv => OneAgentRegistered
  BY DEF IInv, IRegistered, OneAgentRegistered
<1>2. QED
  BY <1>1, Invariance, PTL

================================================================================
