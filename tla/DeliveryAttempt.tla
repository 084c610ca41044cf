---------------------------- MODULE DeliveryAttempt ----------------------------
(***************************************************************************)
(* What the server reads from the receipts of one agent: every delivery     *)
(* attempt walks the ordered success path of contracts/fleet/v1/            *)
(* state-machine.json one milestone at a time, may be given up at any       *)
(* milestone, and once attested may be attested again, by another runtime   *)
(* generation, or overlaid by a drift that names the attested one.          *)
(*                                                                          *)
(* Only a reconcile that was stopped half-way may announce an attempt again.*)
(* FleetReconciler.tla implements this module.                              *)
(***************************************************************************)
EXTENDS Naturals, Sequences

CONSTANT Attempts   \* delivery attempts, named by the server

VARIABLES
    stage,          \* newest event of each attempt and the generation it names
    stopped         \* was a pass killed, or ended by a failing append?

(* The part of the success path an agent reports up to the attestation. *)
Path == <<"DESIRED_SEEN", "MANIFEST_VERIFIED", "ARTIFACT_VERIFIED",
          "INSTALL_COMMITTED", "ACTIVATION_PENDING">>

Failures == {"FAILED_RETRYABLE", "FAILED_TERMINAL"}

Over == {""} \cup Failures

At(t, g) == [type |-> t, gen |-> g]

AttemptInit ==
    /\ stage = [a \in Attempts |-> At("", 0)]
    /\ stopped = FALSE

Report(a, t, g) == stage' = [stage EXCEPT ![a] = At(t, g)]

(* An attempt is announced once, and once more by a pass that starts over. *)
Announce(a) ==
    /\ stage[a].type = "" \/ stopped
    /\ Report(a, Path[1], 0)

Advance(a) ==
    \E n \in 2..5 : stage[a].type = Path[n - 1] /\ Report(a, Path[n], 0)

(* The generations that the newest events name: the runtime chooses them.   *)
Generations(s) == {s[a].gen : a \in Attempts}

(* The first attestation, one after a drift, or one of another generation.  *)
Attest(a) ==
    /\ stage[a].type \in {Path[5], "DRIFT_DETECTED", "RUNTIME_ATTESTED"}
    /\ \E g \in Generations(stage') :
          /\ stage[a].type = "RUNTIME_ATTESTED" => stage[a].gen # g
          /\ Report(a, "RUNTIME_ATTESTED", g)

(* Drift is an overlay on the attestation just reported. *)
Drift(a) ==
    /\ stage[a].type = "RUNTIME_ATTESTED"
    /\ Report(a, "DRIFT_DETECTED", stage[a].gen)

(* An attempt that was announced is given up; nothing follows its failure. *)
GiveUp(a) ==
    /\ stage[a].type \notin Over
    /\ \E t \in Failures : Report(a, t, 0)

Receive(a) == Announce(a) \/ Advance(a) \/ Attest(a) \/ Drift(a) \/ GiveUp(a)

(* The pass may be stopped with its last receipt spooled or not. *)
AttemptNext ==
    /\ stopped' \in {stopped, TRUE}
    /\ \/ UNCHANGED stage
       \/ \E a \in Attempts : stage'[a] # stage[a] /\ Receive(a)

AttemptSpec == AttemptInit /\ [][AttemptNext]_<<stage, stopped>>
================================================================================
