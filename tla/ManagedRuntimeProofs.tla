-------------------------- MODULE ManagedRuntimeProofs --------------------------
(***************************************************************************)
(* Proofs about ManagedRuntime: what hooks record, what an attestation      *)
(* rests on, what a failed activation leaves, and that all of it is the     *)
(* adapter the reconciler counts on (AgentAdapter.tla), for any number of   *)
(* hooks, documents, sessions and activations.                              *)
(***************************************************************************)
EXTENDS ManagedRuntime, TLAPS

HookStates ==
    [at : {"idle"}]
    \cup [at : {"read"}, session : Nat, active : Active]
    \cup [at : {"seen", "created", "recorded"}, observation : Observation]

Counts == [activations : Nat, sessions : Nat, tampers : Nat,
           writes : Nat, moves : Nat, crashes : Nat]

ITypes == TypeOK /\ hook \in [Hooks -> HookStates] /\ count \in Counts

(* A runtime generation stands for one observation: hooks of one session    *)
(* that run twice, or at once, never record two.                            *)
GenerationNamesOneObservation ==
    \A r, s \in history : Generation(r) = Generation(s) => r = s

(* A hook that has created the file of its generation is the only one that  *)
(* will write it, and nobody has.                                           *)
IOwned ==
    \A h \in Hooks : HookAt(h, "created") =>
        /\ Generation(hook[h].observation) \in created
        /\ \A o \in history : Generation(o) # Generation(hook[h].observation)
        /\ \A g \in Hooks \ {h} : HookAt(g, "created") =>
              Generation(hook[g].observation) # Generation(hook[h].observation)

(* What a hook is about to publish is in the history. *)
IPublished == \A h \in Hooks : HookAt(h, "recorded") => hook[h].observation \in history

(* A pass works for a document, and attests only what is activated. *)
IPass ==
    /\ pc # "idle" => want \in Docs
    /\ pc \in {"attest", "compare", "drift"} => active \in Active
    /\ active # None => active.tree = InventoryOf[active.doc]

Honest == count.crashes + count.moves + count.tampers = 0

(* The directory the records speak of; at first, none of ours. *)
Right(t) == IF active = None THEN t \notin Inventories ELSE t = active.tree

Replacing == pc \in {"aside", "in", "undo"}

(* While the directory is replaced, the right one is what PutBack puts back. *)
IUndo ==
    /\ Replacing /\ previous => backup \in Trees
    /\ Honest =>
          /\ pc = "staged" => previous = (tree # Missing)
          /\ pc = "in" => tree = InventoryOf[want]
          /\ Replacing => Right(IF previous THEN backup ELSE Missing)
          /\ ~Replacing => Right(tree)

IInv ==
    /\ ITypes
    /\ GenerationNamesOneObservation /\ CurrentIsRecorded /\ AttestationSound
    /\ IOwned /\ IPublished /\ IPass /\ IUndo

--------------------------------------------------------------------------------
(* A step of the agent leaves what hooks hold and record alone. *)
LEMMA RecordsUntouched ==
    ASSUME IInv, UNCHANGED <<current, created, history, hook>>
    PROVE  (GenerationNamesOneObservation /\ CurrentIsRecorded /\ IOwned /\ IPublished)'
BY DEF IInv, GenerationNamesOneObservation, CurrentIsRecorded, IOwned, IPublished, HookAt,
       Generation

(* A step of a hook leaves the agent and the directory alone. *)
LEMMA AgentUntouched ==
    ASSUME IInv, UNCHANGED <<want, tree, active, agentVars>>, Honest' => Honest
    PROVE  (IPass /\ IUndo)'
BY DEF IInv, IPass, IUndo, agentVars, Replacing, Right

(* What was attested stays attested while the history only grows. *)
LEMMA AttestedStays ==
    ASSUME IInv, UNCHANGED attested, history \subseteq history'
    PROVE  AttestationSound'
BY DEF IInv, AttestationSound, Generation

(* A document that can be asked for has an inventory with files of its own. *)
LEMMA InventoriesAreTrees ==
    /\ \A d \in Docs : InventoryOf[d] \in Trees /\ InventoryOf[d] \in Inventories
    /\ Missing \in Trees /\ Missing \notin Inventories
    /\ Foreign \in Trees /\ Foreign \notin Inventories
    /\ None \notin Trees
BY RuntimeConstants DEF Trees, Inventories

(* The bounded events are numbers, and only faults of the agent's own moves *)
(* and files end its honesty.                                               *)
LEMMA Counting ==
    ASSUME count \in Counts,
           NEW w \in {"activations", "sessions", "tampers", "writes", "moves", "crashes"},
           Occurs(w)
    PROVE  /\ count' \in Counts
           /\ Honest' => Honest /\ w \notin {"tampers", "moves", "crashes"}
           /\ count.activations \in Nat
BY DEF Occurs, Counts, Honest

LEMMA InitInv == Init => IInv
<1> SUFFICES ASSUME Init PROVE IInv
  OBVIOUS
<1>1. ITypes
  BY InventoriesAreTrees DEF Init, ITypes, TypeOK, HookStates, Counts
<1>2. GenerationNamesOneObservation /\ CurrentIsRecorded /\ AttestationSound
  BY DEF Init, GenerationNamesOneObservation, CurrentIsRecorded, AttestationSound
<1>3. IOwned /\ IPublished
  BY DEF Init, IOwned, IPublished, HookAt
<1>4. IPass /\ IUndo
  BY InventoriesAreTrees DEF Init, IPass, IUndo, Replacing, Right
<1> QED
  BY <1>1, <1>2, <1>3, <1>4 DEF IInv

LEMMA ReceiveStep ==
    ASSUME IInv, Receive
    PROVE  IInv'
<1>1. ITypes'
  BY DEF IInv, ITypes, TypeOK, Receive, fileVars, agentVars
<1>2. (GenerationNamesOneObservation /\ CurrentIsRecorded /\ IOwned /\ IPublished)'
  BY RecordsUntouched DEF Receive, fileVars
<1>3. AttestationSound'
  BY AttestedStays DEF Receive, fileVars
<1>4. IPass'
  BY DEF IInv, IPass, Receive, agentVars
<1>5. IUndo'
  BY DEF IInv, IUndo, Honest, Replacing, Right, Receive, agentVars
<1> QED
  BY <1>1, <1>2, <1>3, <1>4, <1>5 DEF IInv

LEMMA ActivateNothingStep ==
    ASSUME IInv, ActivateNothing
    PROVE  IInv'
<1>1. ITypes'
  BY DEF IInv, ITypes, TypeOK, ActivateNothing, fileVars
<1>2. (GenerationNamesOneObservation /\ CurrentIsRecorded /\ IOwned /\ IPublished)'
  BY RecordsUntouched DEF ActivateNothing, fileVars
<1>3. AttestationSound'
  BY AttestedStays DEF ActivateNothing, fileVars
<1>4. IPass'
  BY DEF IInv, ITypes, TypeOK, IPass, ActivateNothing, SameActivation
<1>5. IUndo'
  BY DEF IUndo, Replacing, Right, ActivateNothing, SameActivation, Drifted
<1> QED
  BY <1>1, <1>2, <1>3, <1>4, <1>5 DEF IInv

LEMMA StageStep ==
    ASSUME IInv, Stage
    PROVE  IInv'
<1>1. ITypes'
  BY Counting DEF IInv, ITypes, TypeOK, Stage, fileVars
<1>2. (GenerationNamesOneObservation /\ CurrentIsRecorded /\ IOwned /\ IPublished)'
  BY RecordsUntouched DEF Stage, fileVars
<1>3. AttestationSound'
  BY AttestedStays DEF Stage, fileVars
<1>4. IPass'
  BY DEF IInv, ITypes, TypeOK, IPass, Stage
<1>5. IUndo'
  BY Counting DEF IInv, ITypes, IUndo, Replacing, Right, Stage
<1> QED
  BY <1>1, <1>2, <1>3, <1>4, <1>5 DEF IInv

LEMMA MoveAsideStep ==
    ASSUME IInv, MoveAside
    PROVE  IInv'
<1>1. ITypes'
  BY InventoriesAreTrees DEF IInv, ITypes, TypeOK, MoveAside, fileVars
<1>2. (GenerationNamesOneObservation /\ CurrentIsRecorded /\ IOwned /\ IPublished)'
  BY RecordsUntouched DEF MoveAside, fileVars
<1>3. AttestationSound'
  BY AttestedStays DEF MoveAside, fileVars
<1>4. IPass'
  BY DEF IInv, IPass, MoveAside
<1>5. IUndo'
  BY DEF IInv, ITypes, TypeOK, IUndo, Honest, Replacing, Right, MoveAside
<1> QED
  BY <1>1, <1>2, <1>3, <1>4, <1>5 DEF IInv

LEMMA MoveInStep ==
    ASSUME IInv, MoveIn
    PROVE  IInv'
<1>1. ITypes'
  BY InventoriesAreTrees DEF IInv, ITypes, TypeOK, IPass, MoveIn, fileVars
<1>2. (GenerationNamesOneObservation /\ CurrentIsRecorded /\ IOwned /\ IPublished)'
  BY RecordsUntouched DEF MoveIn, fileVars
<1>3. AttestationSound'
  BY AttestedStays DEF MoveIn, fileVars
<1>4. IPass'
  BY DEF IInv, IPass, MoveIn
<1>5. IUndo'
  BY DEF IInv, IUndo, Honest, Replacing, Right, MoveIn
<1> QED
  BY <1>1, <1>2, <1>3, <1>4, <1>5 DEF IInv

LEMMA MoveInFailsStep ==
    ASSUME IInv, MoveInFails
    PROVE  IInv'
<1>1. ITypes'
  BY Counting DEF IInv, ITypes, TypeOK, MoveInFails, fileVars
<1>2. (GenerationNamesOneObservation /\ CurrentIsRecorded /\ IOwned /\ IPublished)'
  BY RecordsUntouched DEF MoveInFails, fileVars
<1>3. AttestationSound'
  BY AttestedStays DEF MoveInFails, fileVars
<1>4. IPass'
  BY DEF IInv, IPass, MoveInFails
<1>5. IUndo'
  BY Counting DEF IInv, ITypes, IUndo, Replacing, MoveInFails
<1> QED
  BY <1>1, <1>2, <1>3, <1>4, <1>5 DEF IInv

LEMMA RecordActiveStep ==
    ASSUME IInv, RecordActive
    PROVE  IInv'
<1>a. want \in Docs /\ InventoryOf[want] \in Trees /\ count.activations \in Nat
  BY InventoriesAreTrees DEF RecordActive, IInv, IPass, ITypes, Counts
<1>b. active' \in Active /\ active'.doc = want /\ active'.tree = InventoryOf[want]
  BY <1>a DEF RecordActive, Active
<1>1. ITypes'
  BY <1>b DEF IInv, ITypes, TypeOK, RecordActive, fileVars
<1>2. (GenerationNamesOneObservation /\ CurrentIsRecorded /\ IOwned /\ IPublished)'
  BY RecordsUntouched DEF RecordActive, fileVars
<1>3. AttestationSound'
  BY AttestedStays DEF RecordActive, fileVars
<1>4. IPass'
  BY <1>a, <1>b DEF IPass, RecordActive
<1>5. IUndo'
  BY <1>b, NoneAssumption DEF IInv, IUndo, Honest, Replacing, Right, RecordActive
<1> QED
  BY <1>1, <1>2, <1>3, <1>4, <1>5 DEF IInv

LEMMA RecordFailsStep ==
    ASSUME IInv, RecordFails
    PROVE  IInv'
<1>1. ITypes'
  BY InventoriesAreTrees, Counting DEF IInv, ITypes, TypeOK, RecordFails, fileVars
<1>2. (GenerationNamesOneObservation /\ CurrentIsRecorded /\ IOwned /\ IPublished)'
  BY RecordsUntouched DEF RecordFails, fileVars
<1>3. AttestationSound'
  BY AttestedStays DEF RecordFails, fileVars
<1>4. IPass'
  BY DEF IInv, IPass, RecordFails
<1>5. IUndo'
  BY Counting DEF IInv, ITypes, IUndo, Replacing, Right, RecordFails
<1> QED
  BY <1>1, <1>2, <1>3, <1>4, <1>5 DEF IInv

LEMMA PutBackStep ==
    ASSUME IInv, PutBack
    PROVE  IInv'
<1>1. ITypes'
  BY InventoriesAreTrees DEF IInv, ITypes, TypeOK, IUndo, Replacing, PutBack, fileVars
<1>2. (GenerationNamesOneObservation /\ CurrentIsRecorded /\ IOwned /\ IPublished)'
  BY RecordsUntouched DEF PutBack, fileVars
<1>3. AttestationSound'
  BY AttestedStays DEF PutBack, fileVars
<1>4. IPass'
  BY DEF IInv, IPass, PutBack
<1>5. IUndo'
  BY DEF IInv, IUndo, Honest, Replacing, Right, PutBack
<1> QED
  BY <1>1, <1>2, <1>3, <1>4, <1>5 DEF IInv

LEMMA AttestReadStep ==
    ASSUME IInv, AttestRead
    PROVE  IInv'
<1>1. ITypes'
  BY DEF IInv, ITypes, TypeOK, AttestRead, fileVars
<1>2. (GenerationNamesOneObservation /\ CurrentIsRecorded /\ IOwned /\ IPublished)'
  BY RecordsUntouched DEF AttestRead, fileVars
<1>3. AttestationSound'
  BY AttestedStays DEF AttestRead, fileVars
<1>4. IPass'
  BY DEF IInv, IPass, AttestRead
<1>5. IUndo'
  BY DEF IInv, IUndo, Honest, Replacing, Right, AttestRead
<1> QED
  BY <1>1, <1>2, <1>3, <1>4, <1>5 DEF IInv

LEMMA AttestCompareStep ==
    ASSUME IInv, AttestCompare
    PROVE  IInv'
<1>1. ITypes'
  BY DEF IInv, ITypes, TypeOK, IPass, AttestCompare, fileVars
<1>2. (GenerationNamesOneObservation /\ CurrentIsRecorded /\ IOwned /\ IPublished)'
  BY RecordsUntouched DEF AttestCompare, fileVars
<1>3. AttestationSound'
  <2>1. /\ active \in Active /\ active.tree = InventoryOf[active.doc]
        /\ tree = active.tree
        /\ read \in history /\ read.active = active /\ read.tree = tree
    BY NoneAssumption DEF AttestCompare, Drifted, Evidence, IInv, IPass, ITypes, TypeOK
  <2>2. history' = history
    BY DEF AttestCompare, fileVars
  <2>3. attested' =
           attested \cup {[generation |-> Generation(read), active |-> active, tree |-> tree]}
    BY DEF AttestCompare
  <2> QED
    BY <2>1, <2>2, <2>3 DEF IInv, AttestationSound, Generation
<1>4. IPass'
  BY DEF IInv, IPass, AttestCompare
<1>5. IUndo'
  BY DEF IInv, IUndo, Honest, Replacing, Right, AttestCompare
<1> QED
  BY <1>1, <1>2, <1>3, <1>4, <1>5 DEF IInv

LEMMA AttestRefusedStep ==
    ASSUME IInv, AttestRefused
    PROVE  IInv'
<1>1. ITypes'
  BY DEF IInv, ITypes, TypeOK, AttestRefused, fileVars
<1>2. (GenerationNamesOneObservation /\ CurrentIsRecorded /\ IOwned /\ IPublished)'
  BY RecordsUntouched DEF AttestRefused, fileVars
<1>3. AttestationSound'
  BY AttestedStays DEF AttestRefused, fileVars
<1>4. IPass'
  BY DEF IInv, IPass, AttestRefused
<1>5. IUndo'
  BY DEF IInv, IUndo, Honest, Replacing, Right, AttestRefused
<1> QED
  BY <1>1, <1>2, <1>3, <1>4, <1>5 DEF IInv

LEMMA DetectDriftStep ==
    ASSUME IInv, DetectDrift
    PROVE  IInv'
<1>1. ITypes'
  BY DEF IInv, ITypes, TypeOK, DetectDrift, fileVars
<1>2. (GenerationNamesOneObservation /\ CurrentIsRecorded /\ IOwned /\ IPublished)'
  BY RecordsUntouched DEF DetectDrift, fileVars
<1>3. AttestationSound'
  BY AttestedStays DEF DetectDrift, fileVars
<1>4. IPass'
  BY DEF IInv, IPass, DetectDrift
<1>5. IUndo'
  BY DEF IInv, IUndo, Honest, Replacing, Right, DetectDrift
<1> QED
  BY <1>1, <1>2, <1>3, <1>4, <1>5 DEF IInv

LEMMA CrashStep ==
    ASSUME IInv, Crash
    PROVE  IInv'
<1>1. ITypes'
  BY Counting DEF IInv, ITypes, TypeOK, Crash, fileVars
<1>2. (GenerationNamesOneObservation /\ CurrentIsRecorded /\ IOwned /\ IPublished)'
  BY RecordsUntouched DEF Crash, fileVars
<1>3. AttestationSound'
  BY AttestedStays DEF Crash, fileVars
<1>4. IPass'
  BY DEF IInv, IPass, Crash
<1>5. IUndo'
  BY Counting DEF IInv, ITypes, IUndo, Crash
<1> QED
  BY <1>1, <1>2, <1>3, <1>4, <1>5 DEF IInv

LEMMA TamperStep ==
    ASSUME IInv, Tamper
    PROVE  IInv'
<1>1. ITypes'
  BY InventoriesAreTrees, Counting DEF IInv, ITypes, TypeOK, Tamper, fileVars, agentVars, Active
<1>2. (GenerationNamesOneObservation /\ CurrentIsRecorded /\ IOwned /\ IPublished)'
  BY RecordsUntouched DEF Tamper, fileVars
<1>3. AttestationSound'
  BY AttestedStays DEF Tamper, fileVars
<1>4. IPass'
  BY DEF IInv, IPass, Tamper, agentVars
<1>5. IUndo'
  BY Counting DEF IInv, ITypes, IUndo, Replacing, Tamper, agentVars
<1> QED
  BY <1>1, <1>2, <1>3, <1>4, <1>5 DEF IInv

LEMMA HookReadActiveStep ==
    ASSUME IInv, NEW h \in Hooks, HookReadActive(h)
    PROVE  IInv'
<1>1. ITypes'
  BY DEF IInv, ITypes, TypeOK, HookStates, Counts, HookReadActive, fileVars, agentVars
<1>2. (GenerationNamesOneObservation /\ CurrentIsRecorded)'
  BY DEF IInv, GenerationNamesOneObservation, CurrentIsRecorded, HookReadActive, fileVars
<1>3. IOwned'
  BY DEF IInv, IOwned, HookAt, HookReadActive, fileVars
<1>4. IPublished'
  BY DEF IInv, IPublished, HookAt, HookReadActive, fileVars
<1>5. AttestationSound'
  BY AttestedStays DEF HookReadActive, fileVars
<1>6. (IPass /\ IUndo)'
  BY AgentUntouched DEF HookReadActive, Honest
<1> QED
  BY <1>1, <1>2, <1>3, <1>4, <1>5, <1>6 DEF IInv

LEMMA HookReadTreeStep ==
    ASSUME IInv, NEW h \in Hooks, HookReadTree(h)
    PROVE  IInv'
<1>1. ITypes'
  BY DEF IInv, ITypes, TypeOK, HookStates, Observation, Idle, HookAt, HookReadTree,
         fileVars, agentVars
<1>2. (GenerationNamesOneObservation /\ CurrentIsRecorded)'
  BY DEF IInv, GenerationNamesOneObservation, CurrentIsRecorded, HookReadTree, fileVars
<1>3. IOwned'
  BY DEF IInv, IOwned, Idle, HookAt, HookReadTree, fileVars
<1>4. IPublished'
  BY DEF IInv, IPublished, Idle, HookAt, HookReadTree, fileVars
<1>5. AttestationSound'
  BY AttestedStays DEF HookReadTree, fileVars
<1>6. (IPass /\ IUndo)'
  BY AgentUntouched DEF HookReadTree, Honest
<1> QED
  BY <1>1, <1>2, <1>3, <1>4, <1>5, <1>6 DEF IInv

LEMMA HookCreateStep ==
    ASSUME IInv, NEW h \in Hooks, HookCreate(h)
    PROVE  IInv'
<1>1. ITypes'
  BY DEF IInv, ITypes, TypeOK, HookStates, Idle, HookAt, HookCreate, agentVars
<1>2. (GenerationNamesOneObservation /\ CurrentIsRecorded)'
  BY DEF IInv, GenerationNamesOneObservation, CurrentIsRecorded, HookCreate
<1>3. IOwned'
  <2> DEFINE o == hook[h].observation
  <2>1. CASE Recorded(o)
    <3>1. /\ hook' = [hook EXCEPT ![h] = Idle] /\ created' = created /\ history' = history
      BY <2>1 DEF HookCreate
    <3> QED
      BY <3>1 DEF IInv, ITypes, IOwned, Idle, HookAt
  <2>2. CASE ~Recorded(o)
    <3>1. /\ hook'[h].at = "created" /\ hook'[h].observation = o
          /\ \A g \in Hooks \ {h} : hook'[g] = hook[g]
          /\ created' = created \cup {Generation(o)} /\ history' = history
      BY <2>2 DEF HookCreate, HookAt, IInv, ITypes, HookStates
    <3>2. \A r \in history : Generation(r) # Generation(o)
      BY <2>2 DEF Recorded, IInv, ITypes, TypeOK
    <3>3. \A g \in Hooks \ {h} : HookAt(g, "created") =>
             Generation(hook[g].observation) # Generation(o)
      BY <2>2 DEF Recorded, IInv, IOwned
    <3> QED
      BY <3>1, <3>2, <3>3 DEF IInv, IOwned, HookAt
  <2> QED
    BY <2>1, <2>2
<1>4. IPublished'
  BY DEF IInv, ITypes, IPublished, HookStates, Idle, HookAt, HookCreate
<1>5. AttestationSound'
  BY AttestedStays DEF HookCreate
<1>6. (IPass /\ IUndo)'
  BY AgentUntouched DEF HookCreate, Honest
<1> QED
  BY <1>1, <1>2, <1>3, <1>4, <1>5, <1>6 DEF IInv

LEMMA HookWriteStep ==
    ASSUME IInv, NEW h \in Hooks, HookWrite(h)
    PROVE  IInv'
<1>1. ITypes'
  BY DEF IInv, ITypes, TypeOK, IOwned, HookStates, HookAt, HookWrite, agentVars
<1>2. (GenerationNamesOneObservation /\ CurrentIsRecorded)'
  <2>1. /\ history' = history \cup {hook[h].observation} /\ current' = current
        /\ \A o \in history : Generation(o) # Generation(hook[h].observation)
    BY DEF HookWrite, IInv, IOwned
  <2>2. \A r, s \in history' : Generation(r) = Generation(s) => r = s
    BY <2>1 DEF IInv, GenerationNamesOneObservation
  <2> QED
    BY <2>1, <2>2 DEF IInv, GenerationNamesOneObservation, CurrentIsRecorded
<1>3. IOwned'
  BY DEF IInv, ITypes, IOwned, HookAt, HookWrite
<1>4. IPublished'
  BY DEF IInv, IPublished, HookAt, HookWrite
<1>5. AttestationSound'
  BY AttestedStays DEF HookWrite
<1>6. (IPass /\ IUndo)'
  BY AgentUntouched DEF HookWrite, Honest
<1> QED
  BY <1>1, <1>2, <1>3, <1>4, <1>5, <1>6 DEF IInv

LEMMA HookPublishStep ==
    ASSUME IInv, NEW h \in Hooks, HookPublish(h)
    PROVE  IInv'
<1>1. ITypes'
  BY DEF IInv, ITypes, TypeOK, HookStates, Idle, HookAt, HookPublish, Publishable,
         fileVars, agentVars
<1>2. (GenerationNamesOneObservation /\ CurrentIsRecorded)'
  BY DEF IInv, GenerationNamesOneObservation, CurrentIsRecorded, IPublished,
         HookPublish, Publishable, fileVars
<1>3. IOwned'
  BY DEF IInv, IOwned, Idle, HookAt, HookPublish, fileVars
<1>4. IPublished'
  BY DEF IInv, IPublished, Idle, HookAt, HookPublish, fileVars
<1>5. AttestationSound'
  BY AttestedStays DEF HookPublish, fileVars
<1>6. (IPass /\ IUndo)'
  BY AgentUntouched DEF HookPublish, Honest
<1> QED
  BY <1>1, <1>2, <1>3, <1>4, <1>5, <1>6 DEF IInv

LEMMA HookStopsStep ==
    ASSUME IInv, NEW h \in Hooks, HookStops(h)
    PROVE  IInv'
<1>1. ITypes'
  BY DEF IInv, ITypes, TypeOK, HookStates, Idle, HookStops, fileVars, agentVars
<1>2. (GenerationNamesOneObservation /\ CurrentIsRecorded)'
  BY DEF IInv, GenerationNamesOneObservation, CurrentIsRecorded, HookStops, fileVars
<1>3. IOwned'
  BY DEF IInv, ITypes, IOwned, Idle, HookAt, HookStops, fileVars
<1>4. IPublished'
  BY DEF IInv, IPublished, Idle, HookAt, HookStops, fileVars
<1>5. AttestationSound'
  BY AttestedStays DEF HookStops, fileVars
<1>6. (IPass /\ IUndo)'
  BY AgentUntouched DEF HookStops, Honest
<1> QED
  BY <1>1, <1>2, <1>3, <1>4, <1>5, <1>6 DEF IInv

LEMMA StepInv == IInv /\ [Next]_vars => IInv'
<1> SUFFICES ASSUME IInv, [Next]_vars PROVE IInv'
  OBVIOUS
<1>1. CASE Receive
  BY <1>1, ReceiveStep
<1>2. CASE ActivateNothing
  BY <1>2, ActivateNothingStep
<1>3. CASE Stage
  BY <1>3, StageStep
<1>4. CASE MoveAside
  BY <1>4, MoveAsideStep
<1>5. CASE MoveIn
  BY <1>5, MoveInStep
<1>6. CASE MoveInFails
  BY <1>6, MoveInFailsStep
<1>7. CASE RecordActive
  BY <1>7, RecordActiveStep
<1>8. CASE RecordFails
  BY <1>8, RecordFailsStep
<1>9. CASE PutBack
  BY <1>9, PutBackStep
<1>10. CASE AttestRead
  BY <1>10, AttestReadStep
<1>11. CASE AttestCompare
  BY <1>11, AttestCompareStep
<1>12. CASE AttestRefused
  BY <1>12, AttestRefusedStep
<1>13. CASE DetectDrift
  BY <1>13, DetectDriftStep
<1>14. CASE Crash
  BY <1>14, CrashStep
<1>15. CASE Tamper
  BY <1>15, TamperStep
<1>16. ASSUME NEW h \in Hooks, HookReadActive(h) PROVE IInv'
  BY <1>16, HookReadActiveStep
<1>17. ASSUME NEW h \in Hooks, HookReadTree(h) PROVE IInv'
  BY <1>17, HookReadTreeStep
<1>18. ASSUME NEW h \in Hooks, HookCreate(h) PROVE IInv'
  BY <1>18, HookCreateStep
<1>19. ASSUME NEW h \in Hooks, HookWrite(h) PROVE IInv'
  BY <1>19, HookWriteStep
<1>20. ASSUME NEW h \in Hooks, HookPublish(h) PROVE IInv'
  BY <1>20, HookPublishStep
<1>21. ASSUME NEW h \in Hooks, HookStops(h) PROVE IInv'
  BY <1>21, HookStopsStep
<1>22. CASE UNCHANGED vars
  <2>1. ITypes'
    BY <1>22 DEF IInv, ITypes, TypeOK, vars, fileVars, agentVars
  <2>2. (GenerationNamesOneObservation /\ CurrentIsRecorded /\ IOwned /\ IPublished)'
    BY <1>22, RecordsUntouched DEF vars, fileVars
  <2>3. AttestationSound'
    BY <1>22, AttestedStays DEF vars, fileVars
  <2>4. (IPass /\ IUndo)'
    BY <1>22, AgentUntouched DEF vars, agentVars, Honest
  <2> QED
    BY <2>1, <2>2, <2>3, <2>4 DEF IInv
<1> QED
  BY <1>1, <1>2, <1>3, <1>4, <1>5, <1>6, <1>7, <1>8,
     <1>9, <1>10, <1>11, <1>12, <1>13, <1>14, <1>15,
     <1>16, <1>17, <1>18, <1>19, <1>20, <1>21, <1>22 DEF Next

--------------------------------------------------------------------------------
LEMMA InvariantHolds == Spec => []IInv
BY InitInv, StepInv, PTL DEF Spec

(* The files and what the processes have read keep their formats, and the   *)
(* agent holds a backup only while it replaces the directory.               *)
THEOREM TypeCorrect == Spec => []TypeOK
BY InvariantHolds, PTL DEF IInv, ITypes

(* Every attestation rests on a complete record that a session made after   *)
(* that very activation, however hooks, passes and faults interleave.       *)
THEOREM AttestationRests == Spec => []AttestationSound
BY InvariantHolds, PTL DEF IInv

(* However many hooks record at once, a generation names one observation.   *)
THEOREM GenerationsAreUnique == Spec => []GenerationNamesOneObservation
BY InvariantHolds, PTL DEF IInv

(* What runtime-current.json shows is always in the history.                *)
THEOREM CurrentInHistory == Spec => []CurrentIsRecorded
BY InvariantHolds, PTL DEF IInv

(* An activation that fails in its own writes puts the directory back.      *)
THEOREM FailureIsUndone == Spec => []FailedActivationUndone
<1>1. IInv => FailedActivationUndone
  <2> SUFFICES ASSUME IInv, pc = "idle",
                      count.crashes + count.moves + count.tampers = 0
               PROVE  IF active = None THEN tree \notin Inventories ELSE ~Drifted
    BY DEF FailedActivationUndone
  <2>1. Right(tree)
    BY DEF IInv, IUndo, Honest, Replacing
  <2> QED
    BY <2>1 DEF Right, Drifted
<1> QED
  BY <1>1, InvariantHolds, PTL

--------------------------------------------------------------------------------
(* The files implement AgentAdapter.                                        *)
(*                                                                          *)
(* Of two hooks that hold a generation, each holds another one: its file    *)
(* was created by one of them.  What a session saw is older than the        *)
(* activation that is under way.                                            *)

Claims(h) == HookAt(h, "created") \/ HookAt(h, "recorded")

IClaims ==
    \A h \in Hooks : Claims(h) =>
        /\ Generation(hook[h].observation) \in created
        /\ \A g \in Hooks \ {h} : Claims(g) =>
              Generation(hook[g].observation) # Generation(hook[h].observation)

Underway == pc \in {"staged", "aside", "in"}

Stamped(a) ==
    /\ a.marker <= count.activations
    /\ Underway => a.marker < count.activations

IStamps ==
    /\ active # None => Stamped(active)
    /\ current # None => Stamped(current.active)
    /\ \A h \in Hooks :
          /\ ~HookAt(h, "idle") => active # None
          /\ HookAt(h, "read") => Stamped(hook[h].active)
          /\ ~HookAt(h, "idle") /\ ~HookAt(h, "read") => Stamped(hook[h].observation.active)

AInv == IClaims /\ IStamps

(* The fields of what a hook holds. *)
LEMMA HookHolds ==
    ASSUME ITypes, NEW h \in Hooks
    PROVE  /\ HookAt(h, "read") => hook[h].active \in Active /\ hook[h].session \in Nat
           /\ ~HookAt(h, "idle") /\ ~HookAt(h, "read") =>
                 hook[h].observation \in Observation /\ hook[h].observation.active \in Active
           /\ hook[h].at \in {"idle", "read", "seen", "created", "recorded"}
BY DEF ITypes, HookStates, HookAt, Observation

(* A step of the agent that stages and records nothing makes no mark younger. *)
LEMMA StampsKept ==
    ASSUME IInv, AInv, UNCHANGED <<active, current, created, hook>>,
           count'.activations = count.activations, Underway' => Underway
    PROVE  AInv'
<1>1. IClaims'
  BY DEF AInv, IClaims, Claims, HookAt, Generation
<1>2. IStamps'
  BY DEF AInv, IStamps, Stamped, HookAt
<1> QED
  BY <1>1, <1>2 DEF AInv

LEMMA InitClaims == Init => AInv
BY DEF Init, AInv, IClaims, IStamps, Claims, HookAt

LEMMA StageClaims ==
    ASSUME IInv, AInv, Stage
    PROVE  AInv'
<1>1. IClaims'
  BY DEF AInv, IClaims, Claims, HookAt, Generation, Stage, fileVars
<1>2. /\ count'.activations = count.activations + 1 /\ count.activations \in Nat
      /\ UNCHANGED <<active, current, hook>>
  BY DEF IInv, ITypes, Counts, Stage, Occurs
<1>3. \A a \in Active : Stamped(a) => a.marker < count'.activations
  BY <1>2 DEF Stamped, Active
<1>4. /\ active # None => active \in Active
      /\ current # None => current.active \in Active
  BY DEF IInv, ITypes, TypeOK, Observation
<1>5. IStamps'
  <2>1. (active # None => Stamped(active))'
    BY <1>2, <1>3, <1>4 DEF AInv, IStamps, Stamped, Active
  <2>2. (current # None => Stamped(current.active))'
    BY <1>2, <1>3, <1>4 DEF AInv, IStamps, Stamped, Active
  <2>3. ASSUME NEW h \in Hooks PROVE (HookAt(h, "read") => Stamped(hook[h].active))'
    BY <1>2, <1>3, HookHolds DEF IInv, AInv, IStamps, Stamped, Active, HookAt
  <2>4. ASSUME NEW h \in Hooks
        PROVE  (~HookAt(h, "idle") /\ ~HookAt(h, "read") => Stamped(hook[h].observation.active))'
    BY <1>2, <1>3, HookHolds DEF IInv, AInv, IStamps, Stamped, Active, HookAt
  <2>5. ASSUME NEW h \in Hooks PROVE (~HookAt(h, "idle") => active # None)'
    BY <1>2 DEF AInv, IStamps, HookAt
  <2> QED
    BY <2>1, <2>2, <2>3, <2>4, <2>5 DEF IStamps
<1> QED
  BY <1>1, <1>5 DEF AInv

LEMMA RecordedActive ==
    ASSUME IInv, RecordActive
    PROVE  active' \in Active /\ active'.doc = want /\ active' # None
<1>1. want \in Docs /\ InventoryOf[want] \in Trees /\ count.activations \in Nat
  BY InventoriesAreTrees DEF RecordActive, IInv, IPass, ITypes, Counts
<1> QED
  BY <1>1, NoneAssumption DEF RecordActive, Active

LEMMA RecordActiveClaims ==
    ASSUME IInv, AInv, RecordActive
    PROVE  AInv'
<1>1. IClaims'
  BY DEF AInv, IClaims, Claims, HookAt, Generation, RecordActive, fileVars
<1>2. /\ active' # None
      /\ active'.marker = count.activations /\ count.activations \in Nat
      /\ UNCHANGED <<current, hook, count>>
      /\ ~Underway'
  BY RecordedActive DEF IInv, ITypes, Counts, RecordActive, Underway
<1>3. IStamps'
  BY <1>2 DEF AInv, IStamps, Stamped, HookAt
<1> QED
  BY <1>1, <1>3 DEF AInv

(* A step of a hook: only its own state and the shown file change.          *)
LEMMA HookClaims ==
    ASSUME IInv, AInv, NEW h \in Hooks,
           \/ HookReadActive(h) \/ HookReadTree(h) \/ HookCreate(h)
           \/ HookWrite(h) \/ HookPublish(h) \/ HookStops(h)
    PROVE  AInv'
<1>a. \A g \in Hooks \ {h} : hook'[g] = hook[g]
  BY DEF IInv, ITypes, HookReadActive, HookReadTree, HookCreate, HookWrite, HookPublish,
         HookStops
<1>b. /\ UNCHANGED <<active, pc>> /\ count'.activations = count.activations
      /\ created \subseteq created'
  BY DEF IInv, ITypes, Counts, HookReadActive, HookReadTree, HookCreate, HookWrite,
         HookPublish, HookStops, fileVars, agentVars
<1>1. CASE HookReadActive(h)
  <2>1. hook'[h].at = "read" /\ hook'[h].active = active /\ active # None
    BY <1>1 DEF HookReadActive, IInv, ITypes
  <2>2. UNCHANGED <<current, created>>
    BY <1>1 DEF HookReadActive, fileVars
  <2>3. IClaims'
    BY <1>a, <2>1, <2>2 DEF AInv, IClaims, Claims, HookAt, Generation
  <2>4. IStamps'
    BY <1>a, <1>b, <2>1, <2>2 DEF AInv, IStamps, Stamped, HookAt, Underway
  <2> QED
    BY <2>3, <2>4 DEF AInv
<1>2. CASE HookReadTree(h)
  <2>1. /\ hook[h].at = "read"
        /\ \/ hook'[h].at = "idle"
           \/ hook'[h].at = "seen" /\ hook'[h].observation.active = hook[h].active
    BY <1>2 DEF HookReadTree, HookAt, IInv, ITypes, Idle
  <2>2. UNCHANGED <<current, created>>
    BY <1>2 DEF HookReadTree, fileVars
  <2>3. IClaims'
    BY <1>a, <2>1, <2>2 DEF AInv, IClaims, Claims, HookAt, Generation
  <2>4. IStamps'
    BY <1>a, <1>b, <2>1, <2>2 DEF AInv, IStamps, Stamped, HookAt, Underway
  <2> QED
    BY <2>3, <2>4 DEF AInv
<1>3. CASE HookCreate(h) /\ Recorded(hook[h].observation)
  <2>1. hook'[h].at = "idle" /\ UNCHANGED <<current, created>>
    BY <1>3 DEF HookCreate, IInv, ITypes, Idle
  <2>3. IClaims'
    BY <1>a, <2>1 DEF AInv, IClaims, Claims, HookAt, Generation
  <2>4. IStamps'
    BY <1>a, <1>b, <2>1 DEF AInv, IStamps, Stamped, HookAt, Underway
  <2> QED
    BY <2>3, <2>4 DEF AInv
<1>4. CASE HookCreate(h) /\ ~Recorded(hook[h].observation)
  <2>1. /\ hook[h].at = "seen"
        /\ hook'[h].at = "created" /\ hook'[h].observation = hook[h].observation
        /\ created' = created \cup {Generation(hook[h].observation)}
        /\ UNCHANGED current
    BY <1>4 DEF HookCreate, HookAt, IInv, ITypes, HookStates
  <2>2. \A g \in Hooks \ {h} : Claims(g) =>
           Generation(hook[g].observation) # Generation(hook[h].observation)
    BY <1>4 DEF Recorded, AInv, IClaims
  <2>3. IClaims'
    BY <1>a, <2>1, <2>2 DEF AInv, IClaims, Claims, HookAt, Generation
  <2>4. IStamps'
    BY <1>a, <1>b, <2>1 DEF AInv, IStamps, Stamped, HookAt, Underway
  <2> QED
    BY <2>3, <2>4 DEF AInv
<1>5. CASE HookWrite(h)
  <2>1. /\ hook[h].at = "created"
        /\ hook'[h].at = "recorded" /\ hook'[h].observation = hook[h].observation
        /\ UNCHANGED <<created, current>>
    BY <1>5 DEF HookWrite, HookAt, IInv, ITypes, HookStates
  <2>3. IClaims'
    BY <1>a, <2>1 DEF AInv, IClaims, Claims, HookAt, Generation
  <2>4. IStamps'
    BY <1>a, <1>b, <2>1 DEF AInv, IStamps, Stamped, HookAt, Underway
  <2> QED
    BY <2>3, <2>4 DEF AInv
<1>6. CASE HookPublish(h)
  <2>1. /\ hook[h].at = "recorded" /\ hook'[h].at = "idle"
        /\ current' = hook[h].observation /\ UNCHANGED created
    BY <1>6 DEF HookPublish, Publishable, HookAt, IInv, ITypes, Idle, fileVars
  <2>3. IClaims'
    BY <1>a, <2>1 DEF AInv, IClaims, Claims, HookAt, Generation
  <2>4. IStamps'
    BY <1>a, <1>b, <2>1 DEF AInv, IStamps, Stamped, HookAt, Underway
  <2> QED
    BY <2>3, <2>4 DEF AInv
<1>7. CASE HookStops(h)
  <2>1. hook'[h].at = "idle" /\ UNCHANGED <<current, created>>
    BY <1>7 DEF HookStops, IInv, ITypes, Idle, fileVars
  <2>3. IClaims'
    BY <1>a, <2>1 DEF AInv, IClaims, Claims, HookAt, Generation
  <2>4. IStamps'
    BY <1>a, <1>b, <2>1 DEF AInv, IStamps, Stamped, HookAt, Underway
  <2> QED
    BY <2>3, <2>4 DEF AInv
<1> QED
  BY <1>1, <1>2, <1>3, <1>4, <1>5, <1>6, <1>7

LEMMA StepClaims == IInv /\ AInv /\ [Next]_vars => AInv'
<1> SUFFICES ASSUME IInv, AInv, [Next]_vars PROVE AInv'
  OBVIOUS
<1>1. CASE Stage
  BY <1>1, StageClaims
<1>2. CASE RecordActive
  BY <1>2, RecordActiveClaims
<1>3. ASSUME NEW h \in Hooks,
             \/ HookReadActive(h) \/ HookReadTree(h) \/ HookCreate(h)
             \/ HookWrite(h) \/ HookPublish(h) \/ HookStops(h)
      PROVE  AInv'
  BY <1>3, HookClaims
<1>4. CASE \/ Receive \/ ActivateNothing \/ MoveAside \/ MoveIn \/ MoveInFails
           \/ RecordFails \/ PutBack \/ AttestRead \/ AttestCompare \/ AttestRefused
           \/ DetectDrift \/ Crash \/ Tamper \/ UNCHANGED vars
  <2>1. UNCHANGED <<active, current, created, hook>>
    BY <1>4 DEF Receive, ActivateNothing, MoveAside, MoveIn, MoveInFails, RecordFails,
       PutBack, AttestRead, AttestCompare, AttestRefused, DetectDrift, Crash, Tamper, vars,
       fileVars, agentVars
  <2>2. count'.activations = count.activations
    BY <1>4 DEF Receive, ActivateNothing, MoveAside, MoveIn, MoveInFails, RecordFails,
       PutBack, AttestRead, AttestCompare, AttestRefused, DetectDrift, Crash, Tamper, vars,
       Occurs, IInv, ITypes, Counts
  <2>3. Underway' => Underway
    BY <1>4 DEF Receive, ActivateNothing, MoveAside, MoveIn, MoveInFails, RecordFails,
       PutBack, AttestRead, AttestCompare, AttestRefused, DetectDrift, Crash, Tamper, vars,
       agentVars, Underway
  <2> QED
    BY <2>1, <2>2, <2>3, StampsKept
<1> QED
  BY <1>1, <1>2, <1>3, <1>4 DEF Next

--------------------------------------------------------------------------------
(* What the reconciler sees of the files. *)

(* A step that leaves all of it alone. *)
LEMMA Unseen ==
    ASSUME UNCHANGED <<active, current, created, hook, read, attested>>,
           (active # None /\ Drifted)' = (active # None /\ Drifted)
    PROVE  UNCHANGED Adapter!vars
<1>1. Pending' = Pending
  BY DEF Pending, HookAt, Generation
<1> QED
  BY <1>1 DEF Adapter!vars, Adapter!runtimeVars, Generation, Witness

(* Files that come or go are a disturbance, or are of no interest. *)
LEMMA FilesChange ==
    ASSUME IInv, UNCHANGED <<active, current, created, hook, read, attested>>
    PROVE  [Adapter!Next]_Adapter!vars
<1>1. CASE (active # None /\ Drifted)' = (active # None /\ Drifted)
  BY <1>1, Unseen
<1>2. CASE (active # None /\ Drifted)' # (active # None /\ Drifted)
  <2>1. active # None /\ active.doc \in Docs /\ active.doc # 0
    BY <1>2, RuntimeConstants DEF Drifted, IInv, ITypes, TypeOK, Active
  <2>2. Pending' = Pending
    BY DEF Pending, HookAt, Generation
  <2>3. (active # None /\ Drifted)' = ~(active # None /\ Drifted)
    BY <1>2
  <2>4. Adapter!Disturb
    BY <2>1, <2>2, <2>3 DEF Adapter!Disturb, Adapter!runtimeVars, Generation, Witness
  <2> QED
    BY <2>4 DEF Adapter!Next
<1> QED
  BY <1>1, <1>2

LEMMA RecordActiveSeen ==
    ASSUME IInv, AInv, RecordActive
    PROVE  Adapter!Activate
<1>1. /\ read = None /\ read' = None
      /\ UNCHANGED <<current, created, hook, attested>>
  BY DEF RecordActive, fileVars, IInv, ITypes, TypeOK
<1>2. active' # None /\ active'.doc \in Docs
  BY RecordedActive DEF RecordActive, IInv, IPass
<1>3. current # None => current.active # active'
  <2>1. current # None => current.active.marker < count.activations
                          /\ current.active.marker \in Nat
    BY DEF RecordActive, AInv, IStamps, Stamped, Underway, IInv, ITypes, TypeOK, Observation,
           Active
  <2>2. active'.marker = count.activations /\ count.activations \in Nat
    BY DEF RecordActive, IInv, ITypes, Counts
  <2> QED
    BY <2>1, <2>2
<1>4. Pending' = Pending
  BY <1>1 DEF Pending, HookAt, Generation
<1> QED
  BY <1>1, <1>2, <1>3, <1>4 DEF Adapter!Activate, Witness, Generation

(* What is asked of a session is a question. *)
LEMMA QuestionsAsked ==
    ASSUME NEW o \in Observation
    PROVE  /\ Generation(o) \in Nat \X Nat
           /\ [generation |-> Generation(o), current |-> Witness(o)] \in Question
<1>1. Generation(o) \in Nat \X Nat
  BY DEF Generation, Observation, Active
<1>2. Witness(o) \in BOOLEAN
  BY DEF Witness
<1> QED
  BY <1>1, <1>2 DEF Question

LEMMA AttestReadSeen ==
    ASSUME IInv, AttestRead, current # None
    PROVE  Adapter!Ask
<1>1. /\ read = None /\ read' = current
      /\ UNCHANGED <<tree, active, current, created, hook, attested>>
  BY DEF AttestRead, fileVars, IInv, ITypes, TypeOK
<1>2. active # None /\ active.doc \in Docs /\ active.doc # 0
  BY NoneAssumption, RuntimeConstants DEF AttestRead, IInv, IPass, Active
<1>3. Generation(current) # None
  BY NoneAssumption DEF Generation, IInv, ITypes, TypeOK, Observation, Active
<1>4. Pending' = Pending
  BY <1>1 DEF Pending, HookAt, Generation
<1>5. (IF read = None THEN None
       ELSE [generation |-> Generation(read), current |-> Witness(read)])' =
      [generation |-> Generation(current), current |-> Witness(current)]
  BY <1>1 DEF Generation, Witness
<1> QED
  BY <1>1, <1>2, <1>3, <1>4, <1>5
  DEF Adapter!Ask, Adapter!runtimeVars, Drifted, Witness, Generation

LEMMA AttestCompareSeen ==
    ASSUME IInv, AttestCompare
    PROVE  Adapter!Attest
<1>1. /\ read # None /\ read' = None
      /\ UNCHANGED <<tree, active, current, created, hook>>
  BY DEF AttestCompare, fileVars, IInv, ITypes, TypeOK
<1>2. active # None /\ ~Drifted /\ Witness(read)
  BY NoneAssumption DEF AttestCompare, Evidence, Witness, Drifted, IInv, IPass
<1>3. Pending' = Pending
  BY <1>1 DEF Pending, HookAt, Generation
<1>4. attested' = attested \cup
          {[generation |-> Generation(read), active |-> active, tree |-> tree]}
  BY DEF AttestCompare
<1>5. {[generation |-> x.generation, inventory |-> x.active.doc] : x \in attested'} =
      {[generation |-> x.generation, inventory |-> x.active.doc] : x \in attested}
      \cup {[generation |-> Generation(read), inventory |-> active.doc]}
  <2> DEFINE n == [generation |-> Generation(read), active |-> active, tree |-> tree]
  <2>1. n.generation = Generation(read) /\ n.active = active
    OBVIOUS
  <2>2. attested' = attested \cup {n}
    BY <1>4
  <2> HIDE DEF n
  <2> QED
    BY <2>1, <2>2
<1>6. [generation |-> Generation(read), current |-> Witness(read)] # None
  <2>1. read \in Observation
    BY <1>1 DEF IInv, ITypes, TypeOK
  <2>2. [generation |-> Generation(read), current |-> Witness(read)] \in Question
    BY <2>1, QuestionsAsked
  <2> QED
    BY <2>2, NoneAssumption
<1> QED
  BY <1>1, <1>2, <1>3, <1>5, <1>6
  DEF Adapter!Attest, Adapter!runtimeVars, Drifted, Witness, Generation

(* The question is dropped. *)
LEMMA ReadDropped ==
    ASSUME IInv, UNCHANGED <<tree, active, current, created, hook, attested>>,
           read' = None
    PROVE  [Adapter!Next]_Adapter!vars
<1>1. CASE read = None
  BY <1>1, Unseen DEF Drifted
<1>2. CASE read # None
  <2>1. [generation |-> Generation(read), current |-> Witness(read)] # None
    <3>1. read \in Observation
      BY <1>2 DEF IInv, ITypes, TypeOK
    <3>2. [generation |-> Generation(read), current |-> Witness(read)] \in Question
      BY <3>1, QuestionsAsked
    <3> QED
      BY <3>2, NoneAssumption
  <2>2. Pending' = Pending
    BY DEF Pending, HookAt, Generation
  <2>3. Adapter!Refuse
    BY <1>2, <2>1, <2>2 DEF Adapter!Refuse, Adapter!runtimeVars, Drifted, Witness, Generation
  <2> QED
    BY <2>3 DEF Adapter!Next
<1> QED
  BY <1>1, <1>2

(* A hook that claims nothing before and after its step is not seen. *)
LEMMA HookReads ==
    ASSUME IInv, NEW h \in Hooks, HookReadActive(h) \/ HookReadTree(h)
    PROVE  UNCHANGED Adapter!vars
<1>1. UNCHANGED <<tree, active, current, created, read, attested>>
  BY DEF HookReadActive, HookReadTree, fileVars, agentVars
<1>2. /\ \A g \in Hooks \ {h} : hook'[g] = hook[g]
      /\ hook[h].at \in {"idle", "read"} /\ hook'[h].at \in {"idle", "read", "seen"}
  BY DEF HookReadActive, HookReadTree, HookAt, Idle, IInv, ITypes
<1>3. Pending' = Pending
  BY <1>2 DEF Pending, HookAt, Generation
<1> QED
  BY <1>1, <1>3 DEF Adapter!vars, Adapter!runtimeVars, Drifted, Generation, Witness

(* The generation that is created is claimed in the same step. *)
LEMMA HookCreates ==
    ASSUME IInv, AInv, NEW h \in Hooks, HookCreate(h) \/ HookWrite(h)
    PROVE  UNCHANGED Adapter!vars
<1>1. UNCHANGED <<tree, active, current, read, attested>>
  BY DEF HookCreate, HookWrite, agentVars
<1>2. \A g \in Hooks \ {h} : hook'[g] = hook[g]
  BY DEF HookCreate, HookWrite, IInv, ITypes
<1>3. (created \ Pending)' = created \ Pending
  <2>1. CASE HookCreate(h) /\ Recorded(hook[h].observation)
    <3>1. hook[h].at = "seen" /\ hook'[h].at = "idle" /\ created' = created
      BY <2>1 DEF HookCreate, HookAt, IInv, ITypes, Idle
    <3>2. Pending' = Pending
      BY <3>1, <1>2 DEF Pending, HookAt, Generation
    <3> QED
      BY <3>1, <3>2
  <2>2. CASE HookCreate(h) /\ ~Recorded(hook[h].observation)
    <3>1. PICK n : n = Generation(hook[h].observation)
      OBVIOUS
    <3>2. /\ hook[h].at = "seen" /\ hook'[h].at = "created"
          /\ hook'[h].observation = hook[h].observation
          /\ created' = created \cup {n} /\ n \notin created
      BY <2>2, <3>1 DEF HookCreate, HookAt, IInv, ITypes, HookStates, Recorded
    <3>3. Pending' = Pending \cup {n}
      BY <3>1, <3>2, <1>2 DEF Pending, HookAt, Generation
    <3> QED
      BY <3>2, <3>3
  <2>3. CASE HookWrite(h)
    <3>1. /\ hook[h].at = "created" /\ hook'[h].at = "recorded"
          /\ hook'[h].observation = hook[h].observation
          /\ created' = created
      BY <2>3 DEF HookWrite, HookAt, IInv, ITypes, HookStates
    <3>2. Pending' = Pending
      BY <3>1, <1>2 DEF Pending, HookAt, Generation
    <3> QED
      BY <3>1, <3>2
  <2> QED
    BY <2>1, <2>2, <2>3
<1> QED
  BY <1>1, <1>3 DEF Adapter!vars, Adapter!runtimeVars, Drifted, Generation, Witness

(* The generation that is shown was claimed by nobody else, and never shown. *)
LEMMA HookPublishes ==
    ASSUME IInv, AInv, NEW h \in Hooks, HookPublish(h)
    PROVE  Adapter!Observe
<1>a. PICK n : n = Generation(hook[h].observation)
  OBVIOUS
<1>1. /\ UNCHANGED <<tree, active, created, read, attested>>
      /\ current' = hook[h].observation
      /\ hook[h].at = "recorded" /\ hook'[h].at = "idle"
      /\ \A g \in Hooks \ {h} : hook'[g] = hook[g]
  BY DEF HookPublish, Publishable, HookAt, Idle, fileVars, agentVars, IInv, ITypes
<1>2. hook[h].observation \in Observation
  BY <1>1, HookHolds DEF IInv, HookAt
<1>3. n \in created /\ n \in Pending
  BY <1>a, <1>1 DEF AInv, IClaims, Claims, Pending, HookAt
<1>4. Pending' = Pending \ {n}
  <2>1. \A g \in Hooks \ {h} : Claims(g) => Generation(hook[g].observation) # n
    BY <1>a, <1>1 DEF AInv, IClaims, Claims, HookAt
  <2> QED
    BY <1>a, <1>1, <2>1 DEF Pending, Claims, HookAt, Generation
<1>5. (created \ Pending)' = (created \ Pending) \cup {n}
  BY <1>1, <1>3, <1>4
<1>6. n # None /\ current' # None
  BY <1>a, <1>1, <1>2, QuestionsAsked, NoneAssumption
<1>7. active # None /\ active.doc # 0
  <2>1. active # None
    BY <1>1 DEF AInv, IStamps, HookAt
  <2> QED
    BY <2>1, RuntimeConstants DEF IInv, ITypes, TypeOK, Active
<1>8. Generation(current') = n
  BY <1>a, <1>1
<1>9. n \notin (created \ Pending) \cup {None}
  BY <1>3, <1>6
<1> QED
  BY <1>1, <1>5, <1>6, <1>7, <1>8, <1>9 DEF Adapter!Observe, Drifted, Generation, Witness

(* What a hook that stops had claimed is never shown. *)
LEMMA HookLost ==
    ASSUME IInv, NEW h \in Hooks, HookStops(h)
    PROVE  Adapter!Lose
<1>1. /\ UNCHANGED <<tree, active, current, created, read, attested>>
      /\ hook'[h].at = "idle"
      /\ \A g \in Hooks \ {h} : hook'[g] = hook[g]
  BY DEF HookStops, Idle, fileVars, agentVars, IInv, ITypes
<1>2. Pending' \subseteq Pending
  BY <1>1 DEF Pending, HookAt, Generation
<1>3. (created \ Pending) \subseteq (created \ Pending)'
  BY <1>1, <1>2
<1> QED
  BY <1>1, <1>3 DEF Adapter!Lose, Drifted, Generation, Witness

LEMMA StepSeen == IInv /\ AInv /\ [Next]_vars => [Adapter!Next]_Adapter!vars
<1> SUFFICES ASSUME IInv, AInv, [Next]_vars PROVE [Adapter!Next]_Adapter!vars
  OBVIOUS
<1>1. CASE RecordActive
  BY <1>1, RecordActiveSeen DEF Adapter!Next
<1>2. CASE AttestRead
  <2>1. CASE current # None
    BY <1>2, <2>1, AttestReadSeen DEF Adapter!Next
  <2>2. CASE current = None
    BY <1>2, <2>2, ReadDropped DEF AttestRead, fileVars
  <2> QED
    BY <2>1, <2>2
<1>3. CASE AttestCompare
  BY <1>3, AttestCompareSeen DEF Adapter!Next
<1>4. CASE AttestRefused \/ Crash
  BY <1>4, ReadDropped DEF AttestRefused, Crash, fileVars
<1>5. CASE \/ Receive \/ ActivateNothing \/ Stage \/ MoveAside \/ MoveIn \/ MoveInFails
           \/ RecordFails \/ PutBack \/ DetectDrift \/ Tamper \/ UNCHANGED vars
  <2>1. UNCHANGED <<active, current, created, hook, read, attested>>
    BY <1>5 DEF Receive, ActivateNothing, Stage, MoveAside, MoveIn, MoveInFails, RecordFails,
       PutBack, DetectDrift, Tamper, vars, fileVars, agentVars
  <2> QED
    BY <2>1, FilesChange
<1>6. ASSUME NEW h \in Hooks, HookReadActive(h) \/ HookReadTree(h)
      PROVE  [Adapter!Next]_Adapter!vars
  BY <1>6, HookReads
<1>7. ASSUME NEW h \in Hooks, HookCreate(h) \/ HookWrite(h)
      PROVE  [Adapter!Next]_Adapter!vars
  BY <1>7, HookCreates
<1>8. ASSUME NEW h \in Hooks, HookPublish(h)
      PROVE  [Adapter!Next]_Adapter!vars
  BY <1>8, HookPublishes DEF Adapter!Next
<1>9. ASSUME NEW h \in Hooks, HookStops(h)
      PROVE  [Adapter!Next]_Adapter!vars
  BY <1>9, HookLost DEF Adapter!Next
<1> QED
  BY <1>1, <1>2, <1>3, <1>4, <1>5, <1>6, <1>7, <1>8, <1>9 DEF Next

LEMMA InitAdapter == Init => Adapter!Init
BY DEF Init, Adapter!Init, Drifted, Pending, HookAt

(* What hooks, passes and faults do to the files is what the reconciler is  *)
(* promised of an adapter: nothing seen before an activation counts after   *)
(* it, no generation is shown twice, and an attestation rests on the one    *)
(* that was shown when it was asked for.                                    *)
THEOREM AdapterImplemented == Spec => ImplementsAdapter
<1>1. Init => IInv /\ AInv
  BY InitInv, InitClaims
<1>2. (IInv /\ AInv) /\ [Next]_vars => (IInv /\ AInv)'
  BY StepInv, StepClaims
<1>3. (IInv /\ AInv) /\ [Next]_vars => [Adapter!Next]_Adapter!vars
  BY StepSeen
<1> QED
  BY <1>1, <1>2, <1>3, InitAdapter, PTL DEF Spec, ImplementsAdapter, Adapter!Spec

================================================================================
