----------------------------- MODULE FleetReconciler ----------------------------
(***************************************************************************)
(* The reconciler of a fleet agent (fleet/reconciler.py): it takes a signed *)
(* desired state, installs every pack of it, activates the whole inventory, *)
(* attests the runtime and reports each milestone of each delivery attempt. *)
(*                                                                          *)
(* A desired state is named by its control epoch (the server signs one per  *)
(* epoch), an attempt by the epoch and the pack.  The spool is used through *)
(* what ReceiptLedger promises; the adapter through what reconcile can see  *)
(* of it: the active inventory, whether it drifted, and the inventory and   *)
(* generation the running runtime was last observed with.                   *)
(*                                                                          *)
(* Every receipt is a step of its own, so a process may die between any two *)
(* of them.  Procs has more than one member where run-once invocations may  *)
(* overlap: the code takes no lock.                                         *)
(***************************************************************************)
EXTENDS Naturals, Sequences, SequencesExt

CONSTANTS
    Packs,              \* pack ids of every desired state
    Procs,              \* processes that run the reconciler
    AutoModes,          \* values auto_activate may have, a set of BOOLEANs
    Replay,             \* may an older document be delivered again?
    MaxEpoch,           \* bound: desired states published
    MaxStops,           \* bound: processes killed and append calls that fail
    MaxFaults,          \* bound: adapter calls that fail
    MaxDrifts,          \* bound: times the active files are tampered with
    MaxStarts           \* bound: starts of a runtime that changes nothing

ASSUME ReconcilerConstants ==
    /\ IsFiniteSet(Packs)
    /\ AutoModes \subseteq BOOLEAN
    /\ Replay \in BOOLEAN
    /\ {MaxEpoch, MaxStops, MaxFaults, MaxDrifts, MaxStarts} \subseteq Nat

VARIABLES
    published,      \* server: epoch of the newest desired state
    epoch,          \* reconcile-state.json: control_epoch
    reported,       \* receipts of every attempt, in sequence order
    active,         \* adapter: epoch of the active inventory, 0 for none
    drifted,        \* adapter: the skills directory is not what was activated
    lost,           \* adapter: an inventory is active and there is no skills
                    \* directory
    runtime,        \* adapter: runtime-current.json: generation last observed
                    \* (0: none yet), and whether with the active inventory
    pc,             \* what a process does once its outbox is empty
    doc,            \* desired state it works on
    auto,           \* its auto_activate
    seen,           \* already_seen: the epoch was recorded by an earlier pass
    todo,           \* items of the install loop still to do
    installed,      \* packs installed in this pass
    attestation,    \* what attest_inventory returned: generation, inventory
    outbox,         \* receipts the code spools before it does anything else
    count           \* bounded events so far

adapterVars == <<active, drifted, lost, runtime>>
procVars == <<pc, doc, auto, seen, todo, installed, attestation, outbox>>
vars == <<published, epoch, reported, adapterVars, procVars, count>>

Docs == 1..MaxEpoch
Attempts == Docs \X Packs

FailureEvents == {"FAILED_RETRYABLE", "FAILED_TERMINAL"}
InstallEvents == {"MANIFEST_VERIFIED", "ARTIFACT_VERIFIED", "INSTALL_COMMITTED"}
RuntimeEvents == {"ACTIVATION_PENDING", "RUNTIME_ATTESTED", "DRIFT_DETECTED"}
EventTypes == {"DESIRED_SEEN"} \cup InstallEvents \cup RuntimeEvents \cup FailureEvents

(* The runtime generation and the inventory, by its epoch, that a receipt   *)
(* claims; only receipts on a running runtime claim any.                    *)
Claim == [gen : Nat, inventory : Nat]
NoClaim == [gen |-> 0, inventory |-> 0]

Event == [type : EventTypes, claim : Claim]
Receipt == [pack : Packs, type : EventTypes, claim : Claim]

(* desired["items"], in the order of the document. *)
items == SetToSeq(Packs)

(* One receipt of the given type for every item. *)
ForAllItems(t, c) ==
    [i \in DOMAIN items |-> [pack |-> items[i], type |-> t, claim |-> c]]

ForItem(k, types) ==
    [i \in DOMAIN types |-> [pack |-> k, type |-> types[i], claim |-> NoClaim]]

last_event_type(a) == IF reported[a] = <<>> THEN "" ELSE Last(reported[a]).type

last_runtime_generation(a) ==
    IF reported[a] = <<>> THEN 0 ELSE Last(reported[a]).claim.gen

Occurs(what) == count' = [count EXCEPT ![what] = @ + 1]

--------------------------------------------------------------------------------

Init ==
    /\ published = 0
    /\ epoch = 0
    /\ reported = [a \in Attempts |-> <<>>]
    /\ active = 0
    /\ drifted = FALSE
    /\ lost = FALSE
    /\ runtime = [gen |-> 0, current |-> FALSE]
    /\ pc = [p \in Procs |-> "idle"]
    /\ doc = [p \in Procs |-> 0]
    /\ auto = [p \in Procs |-> FALSE]
    /\ seen = [p \in Procs |-> FALSE]
    /\ todo = [p \in Procs |-> <<>>]
    /\ installed = [p \in Procs |-> {}]
    /\ attestation = [p \in Procs |-> NoClaim]
    /\ outbox = [p \in Procs |-> <<>>]
    /\ count = [stops |-> 0, faults |-> 0, drifts |-> 0, starts |-> 0]

(* The server signs a desired state with the next control epoch. *)
Publish ==
    /\ published < MaxEpoch
    /\ published' = published + 1
    /\ UNCHANGED <<epoch, reported, adapterVars, procVars, count>>

(* What a heartbeat may return. *)
Delivered == IF Replay THEN 1..published ELSE {published} \ {0}

(* Mutant: only the recorded epoch is known, not its order. *)
_check_epoch_AnyOther(d) == d # epoch

(* Mutant: the recorded epoch is installed once more. *)
_check_epoch_NotLower(d) == d >= epoch

(* _check_epoch refuses a lower epoch and knows the recorded one again. *)
_check_epoch(d) == d > epoch

(* adapter.discover looks at the active inventory's files and raises, which *)
(* aborts the pass, when their directory is not there.                      *)
discover == ~lost

(* A higher epoch starts the install loop, with no item installed yet. *)
Begin(p, d) ==
    /\ pc[p] = "idle"
    /\ discover
    /\ _check_epoch(d)
    /\ doc' = [doc EXCEPT ![p] = d]
    /\ \E mode \in AutoModes : auto' = [auto EXCEPT ![p] = mode]
    /\ todo' = [todo EXCEPT ![p] = items]
    /\ pc' = [pc EXCEPT ![p] = "next"]
    /\ UNCHANGED <<published, epoch, reported, adapterVars, seen, installed,
                   attestation, outbox, count>>

(* Mutants: a failed attempt is resumed; nothing is ever resumed. *)
Resumable_FailedToo(d) == TRUE \in AutoModes
Resumable_Never(d) == TRUE \notin AutoModes

(* Only automatic activation resumes, and only while no attempt of the      *)
(* document has failed.                                                     *)
Resumable(d) ==
    /\ TRUE \in AutoModes
    /\ \A k \in Packs : last_event_type(<<d, k>>) \notin FailureEvents

(* The recorded epoch again: its inventory is attested, never activated. *)
Resume(p, d) ==
    /\ pc[p] = "idle"
    /\ discover
    /\ d = epoch
    /\ Resumable(d)
    /\ doc' = [doc EXCEPT ![p] = d]
    /\ seen' = [seen EXCEPT ![p] = TRUE]
    /\ auto' = [auto EXCEPT ![p] = TRUE]
    /\ pc' = [pc EXCEPT ![p] = "attest"]
    /\ UNCHANGED <<published, epoch, reported, adapterVars, todo, installed,
                   attestation, outbox, count>>

(* The process is about to run the code after its last receipt. *)
At(p, label) == pc[p] = label /\ outbox[p] = <<>>

Then(p, label, receipts) ==
    /\ pc' = [pc EXCEPT ![p] = label]
    /\ outbox' = [outbox EXCEPT ![p] = receipts]

(* The next item is announced before its revision is installed. *)
NextItem(p) ==
    /\ At(p, "next")
    /\ todo[p] # <<>>
    /\ Then(p, "install", ForItem(Head(todo[p]), <<"DESIRED_SEEN">>))
    /\ UNCHANGED <<published, epoch, reported, adapterVars, doc, auto, seen,
                   todo, installed, attestation, count>>

(* install_revision and verify_revision succeed. *)
InstallItem(p) ==
    /\ At(p, "install")
    /\ Then(p, "next", ForItem(Head(todo[p]),
            <<"MANIFEST_VERIFIED", "ARTIFACT_VERIFIED", "INSTALL_COMMITTED">>))
    /\ todo' = [todo EXCEPT ![p] = Tail(@)]
    /\ installed' = [installed EXCEPT ![p] = @ \cup {Head(todo[p])}]
    /\ UNCHANGED <<published, epoch, reported, adapterVars, doc, auto, seen,
                   attestation, count>>

(* One of them raises, or the archive is not the signed one. *)
InstallItemFails(p) ==
    /\ At(p, "install")
    /\ count.faults < MaxFaults
    /\ Occurs("faults")
    /\ \E failure \in {<<"FAILED_RETRYABLE">>, <<"FAILED_TERMINAL">>,
                       <<"MANIFEST_VERIFIED", "FAILED_TERMINAL">>} :
          Then(p, "next", ForItem(Head(todo[p]), failure))
    /\ todo' = [todo EXCEPT ![p] = Tail(@)]
    /\ UNCHANGED <<published, epoch, reported, adapterVars, doc, auto, seen,
                   installed, attestation>>

(* Mutant: a failed peer pack does not hold the activation back. *)
AllInstalled_Some(p) == todo[p] = <<>>

AllInstalled(p) == todo[p] = <<>> /\ installed[p] = Packs

(* Mutant: only the packs that failed are closed. *)
PeersClosed_None(p) == <<>>

(* One receipt for each pack that was installed, in some order. *)
PeersClosed(p) ==
    LET peers == SetToSeq(installed[p])
    IN  [i \in DOMAIN peers |-> [pack |-> peers[i], type |-> "FAILED_RETRYABLE", claim |-> NoClaim]]

(* Some pack was not installed: the attempts of the others are closed too. *)
CloseInstalled(p) ==
    /\ At(p, "next")
    /\ todo[p] = <<>> /\ installed[p] # Packs
    /\ Then(p, "finish", PeersClosed(p))
    /\ UNCHANGED <<published, epoch, reported, adapterVars, doc, auto, seen,
                   todo, installed, attestation, count>>

(* All installed and activation is left to the operator. *)
LeavePending(p) ==
    /\ At(p, "next")
    /\ AllInstalled(p)
    /\ ~auto[p]
    /\ Then(p, "finish", ForAllItems("ACTIVATION_PENDING", NoClaim))
    /\ UNCHANGED <<published, epoch, reported, adapterVars, doc, auto, seen,
                   todo, installed, attestation, count>>

(* adapter.activate_inventory succeeds: the runtime's files are replaced    *)
(* and no runtime has been observed with them.  The inventory that is       *)
(* active already, and untouched, is left as it is.                         *)
Activate(p) ==
    /\ At(p, "next")
    /\ AllInstalled(p)
    /\ auto[p]
    /\ active' = doc[p]
    /\ drifted' = FALSE
    /\ lost' = FALSE
    /\ runtime' = IF active = doc[p] /\ ~drifted THEN runtime
                  ELSE [runtime EXCEPT !.current = FALSE]
    /\ Then(p, "attest", ForAllItems("ACTIVATION_PENDING", NoClaim))
    /\ UNCHANGED <<published, epoch, reported, doc, auto, seen, todo,
                   installed, attestation, count>>

(* The activation exchanges the skills directory for another: it moves the  *)
(* old one away, moves the new one in and records active.json.              *)
Exchanges(p) ==
    /\ At(p, "next")
    /\ AllInstalled(p)
    /\ auto[p]
    /\ active # 0
    /\ active # doc[p] \/ drifted

(* An exchange that stops half way leaves no directory, when the second     *)
(* move fails or is not reached, or one that the old active.json may not    *)
(* describe. Nothing puts the old one back: the clean-up deletes the backup.*)
HalfExchanged(p) ==
    /\ Exchanges(p)
    /\ drifted' \in BOOLEAN
    /\ lost' \in BOOLEAN
    /\ lost' => drifted'
    /\ UNCHANGED <<active, runtime>>

(* activate_inventory raises, before the exchange, after having undone it,  *)
(* or half way.                                                             *)
ActivateFails(p) ==
    /\ At(p, "next")
    /\ AllInstalled(p)
    /\ auto[p]
    /\ count.faults < MaxFaults
    /\ Occurs("faults")
    /\ \E t \in FailureEvents : Then(p, "finish", ForAllItems(t, NoClaim))
    /\ UNCHANGED adapterVars \/ HalfExchanged(p)
    /\ UNCHANGED <<published, epoch, reported, doc, auto, seen, todo,
                   installed, attestation>>

(* attest_inventory compares the active inventory with the desired one, its *)
(* files with what was activated, and both with the last observed runtime.  *)
Unobserved(p) ==
    /\ active # 0
    /\ \/ runtime.gen = 0
       \/ active = doc[p] /\ ~drifted /\ ~runtime.current

Attestable(p) == active = doc[p] /\ ~drifted /\ runtime.current

Attest(p) ==
    /\ At(p, "attest")
    /\ Attestable(p)
    /\ attestation' = [attestation EXCEPT ![p] =
                          [gen |-> runtime.gen, inventory |-> active]]
    /\ Then(p, "drift", ForAllItems("RUNTIME_ATTESTED", attestation'[p]))
    /\ UNCHANGED <<published, epoch, reported, adapterVars, doc, auto, seen,
                   todo, installed, count>>

(* runtime_attestation_pending: not a failure, a later pass asks again. *)
AttestPending(p) ==
    /\ At(p, "attest")
    /\ Unobserved(p)
    /\ Then(p, "finish", <<>>)
    /\ UNCHANGED <<published, epoch, reported, adapterVars, doc, auto, seen,
                   todo, installed, attestation, count>>

(* Another inventory is active, or none, or its files were changed; a       *)
(* directory that is not there is taken for a passing failure.              *)
AttestInvalid(p) ==
    /\ At(p, "attest")
    /\ ~Attestable(p) /\ ~Unobserved(p)
    /\ Then(p, "finish",
            ForAllItems(IF lost THEN "FAILED_RETRYABLE" ELSE "FAILED_TERMINAL", NoClaim))
    /\ UNCHANGED <<published, epoch, reported, adapterVars, doc, auto, seen,
                   todo, installed, attestation, count>>

(* The files are looked at once more after the attestation is reported. *)
DetectDrift(p) ==
    /\ At(p, "drift")
    /\ Then(p, "finish",
            IF drifted \/ active # doc[p]
            THEN ForAllItems("DRIFT_DETECTED", attestation[p]) ELSE <<>>)
    /\ UNCHANGED <<published, epoch, reported, adapterVars, doc, auto, seen,
                   todo, installed, attestation, count>>

(* attest_inventory or detect_inventory_drift raises something else. *)
RuntimeCallFails(p) ==
    /\ At(p, "attest") \/ At(p, "drift")
    /\ count.faults < MaxFaults
    /\ Occurs("faults")
    /\ \E t \in FailureEvents : Then(p, "finish", ForAllItems(t, NoClaim))
    /\ UNCHANGED <<published, epoch, reported, adapterVars, doc, auto, seen,
                   todo, installed, attestation>>

(* Mutant: what the pass had still to spool is kept for the next one. *)
Leave_OutboxKept(p) ==
    /\ pc' = [pc EXCEPT ![p] = "idle"]
    /\ doc' = [doc EXCEPT ![p] = 0]
    /\ auto' = [auto EXCEPT ![p] = FALSE]
    /\ seen' = [seen EXCEPT ![p] = FALSE]
    /\ todo' = [todo EXCEPT ![p] = <<>>]
    /\ installed' = [installed EXCEPT ![p] = {}]
    /\ attestation' = [attestation EXCEPT ![p] = NoClaim]
    /\ UNCHANGED outbox

(* The process is out of reconcile: what it had in memory is gone. *)
Leave(p) ==
    /\ Then(p, "idle", <<>>)
    /\ doc' = [doc EXCEPT ![p] = 0]
    /\ auto' = [auto EXCEPT ![p] = FALSE]
    /\ seen' = [seen EXCEPT ![p] = FALSE]
    /\ todo' = [todo EXCEPT ![p] = <<>>]
    /\ installed' = [installed EXCEPT ![p] = {}]
    /\ attestation' = [attestation EXCEPT ![p] = NoClaim]

(* _result: only now is the epoch recorded, whatever became of the items. *)
Finish(p) ==
    /\ At(p, "finish")
    /\ epoch' = IF seen[p] THEN epoch ELSE doc[p]
    /\ Leave(p)
    /\ UNCHANGED <<published, reported, adapterVars, count>>

--------------------------------------------------------------------------------
(* _spool_receipt: build and append, one receipt at a time. *)

Appended(a, r) ==
    [reported EXCEPT ![a] = Append(@, [type |-> r.type, claim |-> r.claim])]

(* Mutant: every pass attests. *)
AlreadyAttested_Never(p, r) == FALSE

(* A resumed pass does not attest the same generation twice in a row. *)
AlreadyAttested(p, r) ==
    LET a == <<doc[p], r.pack>>
    IN  /\ seen[p]
        /\ r.type = "RUNTIME_ATTESTED"
        /\ last_event_type(a) = "RUNTIME_ATTESTED"
        /\ last_runtime_generation(a) = r.claim.gen

Spool(p) ==
    /\ outbox[p] # <<>>
    /\ LET r == Head(outbox[p])
       IN  reported' = IF AlreadyAttested(p, r) THEN reported
                       ELSE Appended(<<doc[p], r.pack>>, r)
    /\ outbox' = [outbox EXCEPT ![p] = Tail(@)]
    /\ UNCHANGED <<published, epoch, adapterVars, pc, doc, auto, seen, todo,
                   installed, attestation, count>>

(* append raises, before or after the receipt was linked.  Within the try   *)
(* blocks that is one more failure to report; in their handlers and outside *)
(* of them it ends the pass, and the epoch is not recorded.                 *)
SpoolFails(p) ==
    /\ outbox[p] # <<>>
    /\ count.stops < MaxStops
    /\ Occurs("stops")
    /\ LET r == Head(outbox[p])
       IN  /\ ~AlreadyAttested(p, r)
           /\ reported' \in {reported, Appended(<<doc[p], r.pack>>, r)}
           /\ \/ /\ r.type \in InstallEvents
                 /\ Then(p, "next", ForItem(r.pack, <<"FAILED_RETRYABLE">>))
                 /\ installed' = [installed EXCEPT ![p] = @ \ {r.pack}]
                 /\ UNCHANGED <<doc, auto, seen, todo, attestation>>
              \/ /\ r.type \in RuntimeEvents /\ auto[p]
                 /\ Then(p, "finish", ForAllItems("FAILED_RETRYABLE", NoClaim))
                 /\ UNCHANGED <<doc, auto, seen, todo, installed, attestation>>
              \/ /\ r.type \notin InstallEvents
                 /\ ~(r.type \in RuntimeEvents /\ auto[p])
                 /\ Leave(p)
    /\ UNCHANGED <<published, epoch, adapterVars>>

(* The process is killed, perhaps in the middle of an activation. *)
Crash(p) ==
    /\ pc[p] # "idle"
    /\ count.stops < MaxStops
    /\ Occurs("stops")
    /\ Leave(p)
    /\ UNCHANGED adapterVars \/ HalfExchanged(p)
    /\ UNCHANGED <<published, epoch, reported>>

--------------------------------------------------------------------------------

(* A session of the vendor runtime is recorded as the one last observed:    *)
(* with the active inventory, unless its hook found other files, or found   *)
(* them before they were put back or activated.  A start that lets          *)
(* attest_inventory get on is always possible while the skills directory is *)
(* there, without which the hook raises; the others are bounded.            *)
RuntimeStart ==
    /\ active # 0
    /\ \/ /\ ~lost /\ ~runtime.current /\ (runtime.gen = 0 \/ ~drifted)
          /\ UNCHANGED count
          /\ runtime' = [gen |-> runtime.gen + 1, current |-> ~drifted]
       \/ /\ count.starts < MaxStarts
          /\ Occurs("starts")
          /\ \E current \in BOOLEAN :
                runtime' = [gen |-> runtime.gen + 1, current |-> current]
    /\ UNCHANGED <<published, epoch, reported, active, drifted, lost, procVars>>

(* Somebody changes the active files, or puts them back. *)
Tamper ==
    /\ active # 0
    /\ count.drifts < MaxDrifts
    /\ Occurs("drifts")
    /\ drifted' = ~drifted
    /\ lost' = FALSE
    /\ UNCHANGED <<published, epoch, reported, active, runtime, procVars>>

Step(p) ==
    \/ NextItem(p) \/ InstallItem(p) \/ InstallItemFails(p)
    \/ CloseInstalled(p) \/ LeavePending(p) \/ Activate(p) \/ ActivateFails(p)
    \/ Attest(p) \/ AttestPending(p) \/ AttestInvalid(p)
    \/ DetectDrift(p) \/ RuntimeCallFails(p)
    \/ Spool(p) \/ Finish(p)

Next ==
    \/ Publish \/ RuntimeStart \/ Tamper
    \/ \E p \in Procs :
          \/ \E d \in Delivered : Begin(p, d) \/ Resume(p, d)
          \/ Step(p) \/ SpoolFails(p) \/ Crash(p)

Spec == Init /\ [][Next]_vars

(* The operator runs the control loop again and again, a process that runs  *)
(* gets on, and a runtime is started after each activation.                 *)
Fairness ==
    /\ \A p \in Procs :
          /\ WF_vars(Step(p))
          /\ WF_vars(\E d \in Delivered : Begin(p, d) \/ Resume(p, d))
    /\ WF_vars(RuntimeStart)

FairSpec == Spec /\ Fairness

--------------------------------------------------------------------------------

(* The variables hold what their comments say; a process that is not in     *)
(* reconcile holds nothing, and no item is both installed and to do.        *)
TypeOK ==
    /\ published \in 0..MaxEpoch
    /\ epoch \in 0..published
    /\ active \in 0..published
    /\ drifted \in BOOLEAN
    /\ lost \in BOOLEAN /\ (lost => drifted /\ active # 0)
    /\ runtime \in [gen : Nat, current : BOOLEAN]
    /\ \A a \in Attempts : \A i \in DOMAIN reported[a] : reported[a][i] \in Event
    /\ pc \in [Procs -> {"idle", "next", "install", "attest", "drift", "finish"}]
    /\ \A p \in Procs :
          /\ doc[p] \in 0..published
          /\ {auto[p], seen[p]} \subseteq BOOLEAN
          /\ installed[p] \subseteq Packs \ ToSet(todo[p])
          /\ attestation[p] \in Claim
          /\ ToSet(outbox[p]) \subseteq Receipt
          /\ pc[p] = "idle" =>
                doc[p] = 0 /\ todo[p] = <<>> /\ installed[p] = {} /\ outbox[p] = <<>>

(* state-machine.json, ordered_success_path: whatever crashed or failed in  *)
(* between, an attempt is attested only after one pass that announced it,   *)
(* verified manifest and archive, committed it and reported it as pending.  *)
MilestonesReached ==
    \A a \in Attempts : \A i \in DOMAIN reported[a] :
        reported[a][i].type = "RUNTIME_ATTESTED" =>
            LET starts == {j \in 1..i : reported[a][j].type = "DESIRED_SEEN"}
                path == <<"DESIRED_SEEN", "MANIFEST_VERIFIED",
                          "ARTIFACT_VERIFIED", "INSTALL_COMMITTED",
                          "ACTIVATION_PENDING">>
            IN  /\ starts # {}
                /\ i > Max(starts) + 4
                /\ \A n \in 1..5 : reported[a][Max(starts) + n - 1].type = path[n]

(* Heartbeats do not pile up attestations: two in a row are of different    *)
(* runtime generations, also when the passes between them were killed.      *)
NoRepeatedAttestation ==
    \A a \in Attempts : \A i \in 2..Len(reported[a]) :
        /\ reported[a][i - 1].type = "RUNTIME_ATTESTED"
        /\ reported[a][i].type = "RUNTIME_ATTESTED"
        =>
            reported[a][i - 1].claim.gen # reported[a][i].claim.gen

(* A recorded epoch is never installed again, so by then each attempt of it *)
(* has been carried past its installation or closed as failed.              *)
RecordedMeansReported ==
    epoch # 0 =>
        \A k \in Packs :
            last_event_type(<<epoch, k>>) \in RuntimeEvents \cup FailureEvents

(* An inventory is activated only when every pack of it is committed.  The  *)
(* code decides that pack by pack, over passes that fail and are repeated.  *)
ActivationFollowsInstall ==
    [][active' # active =>
          \A k \in Packs : last_event_type(<<active', k>>) = "INSTALL_COMMITTED"]_vars

(* The two promises below hold as long as no pass was killed or left by a   *)
(* failing append: only _result records the epoch.                          *)
EveryPassEnded == count.stops = 0

(* A document is activated as a whole or not, so when one attempt of it has *)
(* failed, no attempt of it is left open once reconcile returns.            *)
FailureClosesAll ==
    EveryPassEnded /\ (\A p \in Procs : pc[p] = "idle") =>
        \A d \in Docs :
            (\E k \in Packs : last_event_type(<<d, k>>) \in FailureEvents) =>
                \A k \in Packs : last_event_type(<<d, k>>) \in FailureEvents

(* "lower epochs fail closed" (docs/fleet-wire-contract-v1.md): once a      *)
(* document has been acted on, no older one is reported on or activated.    *)
ActedOn(d) == \E k \in Packs : reported[<<d, k>>] # <<>>

LowerEpochsFailClosed ==
    [][EveryPassEnded =>
          /\ active' >= active
          /\ \A d, e \in Docs :
                d < e /\ ActedOn(e) =>
                    \A k \in Packs : reported'[<<d, k>>] = reported[<<d, k>>]]_vars

(* "drift_attestation_inventory_matches_desired"                            *)
(* (contract.validate_receipt_against_desired): a drift receipt claims      *)
(* another inventory than the desired state it reports on.                  *)
DriftClaimsOtherInventory ==
    \A d \in Docs, k \in Packs : \A i \in DOMAIN reported[<<d, k>>] :
        reported[<<d, k>>][i].type = "DRIFT_DETECTED" =>
            reported[<<d, k>>][i].claim.inventory # d

(* To the server, each attempt walks the path of DeliveryAttempt.           *)
Attempt == INSTANCE DeliveryAttempt WITH
    stage <- [a \in Attempts |-> [type |-> last_event_type(a), gen |-> last_runtime_generation(a)]],
    stopped <- ~EveryPassEnded

(* What is spooled, by whichever passes, crashes and failing appends, reads *)
(* as the state machine of the wire contract (state-machine.json, attempt): *)
(* no milestone is skipped, nothing follows a failure, a second attestation *)
(* is of another generation, a drift follows the attestation it speaks of.  *)
ImplementsAttempt == Attempt!AttemptSpec

(* The newest document is brought to an end: every pack attested, or the    *)
(* attempt given up, unless a newer document takes its place. An activation *)
(* that stops half way may leave the agent without a skills directory; then *)
(* discover raises in every later pass and no document is dealt with until  *)
(* somebody puts the directory back.                                        *)
Settled(d) ==
    \/ \A k \in Packs : last_event_type(<<d, k>>) \in {"RUNTIME_ATTESTED", "DRIFT_DETECTED"}
    \/ \E k \in Packs : last_event_type(<<d, k>>) \in FailureEvents

NewestSettles ==
    <>[]discover =>
        \A d \in Docs : (published = d) ~> (published > d \/ Settled(d))

================================================================================
