----------------------------- MODULE ReceiptLedger -----------------------------
(***************************************************************************)
(* What the receipt spool of a fleet agent promises its callers: receipts   *)
(* are appended one at a time with a sequence number above every earlier    *)
(* one of their attempt, they stay pending until they are retired, and the  *)
(* newest event of an attempt is remembered even after it is retired.       *)
(*                                                                          *)
(* ReceiptSpool.tla, the files the code keeps, implements this module.      *)
(***************************************************************************)
EXTENDS Naturals

CONSTANTS
    Attempts,   \* delivery attempts, named by the server
    Types,      \* event types a client may report
    Gens,       \* runtime generations
    NoType,     \* the type of the newest event of an attempt that has none
    NoGen       \* the runtime generation of an event that carries none

VARIABLES
    pending,    \* the receipts waiting for upload
    last        \* the newest event of every attempt

(* One receipt: its unique event id and the fields its ordering depends on. *)
Receipt == [id : Nat, attempt : Attempts, seq : Nat \ {0},
            type : Types, gen : Gens \cup {NoGen}]

(* The newest event of an attempt; seq is 0 when there was none. *)
EventState == [seq : Nat, type : Types \cup {NoType}, gen : Gens \cup {NoGen}]

EventOf(r) == [seq |-> r.seq, type |-> r.type, gen |-> r.gen]

LedgerInit ==
    /\ pending \in SUBSET Receipt
    /\ last \in [Attempts -> EventState]
    /\ \A r \in pending : r.seq <= last[r.attempt].seq

Append(r) ==
    /\ r.seq > last[r.attempt].seq
    /\ pending' = pending \cup {r}
    /\ last' = [last EXCEPT ![r.attempt] = EventOf(r)]

Retire(r) ==
    /\ pending' = pending \ {r}
    /\ UNCHANGED last

LedgerNext ==
    \/ \E r \in pending' \ pending : r \in Receipt /\ Append(r)
    \/ \E r \in pending : Retire(r)

LedgerSpec == LedgerInit /\ [][LedgerNext]_<<pending, last>>
================================================================================
