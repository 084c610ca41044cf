------------------------------ MODULE AgentAdapter ------------------------------
(***************************************************************************)
(* What a vendor adapter is to the reconciler (fleet/adapter.py, protocol   *)
(* InventoryAgentAdapter): one inventory is active, its files may be        *)
(* changed by another hand, sessions of the runtime are observed, and an    *)
(* inventory is attested by a session that was observed with it.            *)
(*                                                                          *)
(* ManagedRuntime.tla implements this module with files and processes.      *)
(* FleetReconciler.tla takes these steps for the adapter's, with activation *)
(* and with question and answer of an attestation in one step each.         *)
(***************************************************************************)
EXTENDS Naturals

CONSTANTS
    Docs,       \* desired states
    None        \* no generation, no question

VARIABLES
    active,     \* document whose inventory is active, 0 for none
    drifted,    \* its files are not those that were activated
    observed,   \* runtime generation observed last, or None
    current,    \* it was observed with the active inventory, as activated
    used,       \* generations that will not be observed again
    asked,      \* what the attestation that is asked for goes by
    attested    \* history: what was attested

runtimeVars == <<observed, current, used>>
vars == <<active, drifted, runtimeVars, asked, attested>>

Init ==
    /\ active = 0
    /\ drifted = FALSE
    /\ observed = None
    /\ current = FALSE
    /\ used = {}
    /\ asked = None
    /\ attested = {}

(* An inventory is put in place of the active one, or that one once more.   *)
(* No session has been observed with what is active from now on.            *)
Activate ==
    /\ asked = None
    /\ active' \in Docs
    /\ drifted' \in BOOLEAN
    /\ current' = FALSE
    /\ UNCHANGED <<observed, used, asked, attested>>

(* A session is observed, under a generation never observed before: with    *)
(* the active inventory, or with what was there when the session looked.    *)
Observe ==
    /\ active # 0
    /\ observed' \notin used \cup {None}
    /\ current' \in BOOLEAN
    /\ used' = used \cup {observed'}
    /\ UNCHANGED <<active, drifted, asked, attested>>

(* A session ends before it is observed. *)
Lose ==
    /\ used \subseteq used'
    /\ UNCHANGED <<active, drifted, observed, current, asked, attested>>

(* The files are changed, or are the activated ones again. *)
Disturb ==
    /\ active # 0
    /\ drifted' = ~drifted
    /\ UNCHANGED <<active, runtimeVars, asked, attested>>

(* The adapter is asked to attest, and takes the session observed last.     *)
Ask ==
    /\ active # 0 /\ observed # None
    /\ asked = None
    /\ asked' = [generation |-> observed, current |-> current]
    /\ UNCHANGED <<active, drifted, runtimeVars, attested>>

(* It attests what is active only while the files are as activated, and     *)
(* only if that session was observed with them.                             *)
Attest ==
    /\ asked # None /\ asked.current
    /\ ~drifted
    /\ attested' = attested \cup {[generation |-> asked.generation, inventory |-> active]}
    /\ asked' = None
    /\ UNCHANGED <<active, drifted, runtimeVars>>

(* The attestation is refused, or whoever asked for it has gone. *)
Refuse ==
    /\ asked # None
    /\ asked' = None
    /\ UNCHANGED <<active, drifted, runtimeVars, attested>>

Next == Activate \/ Observe \/ Lose \/ Disturb \/ Ask \/ Attest \/ Refuse

Spec == Init /\ [][Next]_vars

================================================================================
