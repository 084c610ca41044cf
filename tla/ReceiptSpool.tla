------------------------------ MODULE ReceiptSpool ------------------------------
(***************************************************************************)
(* The offline receipt spool of a fleet agent (fleet/spool.py) and the      *)
(* sequence numbers that ReceiptBuilder (fleet/receipts.py) takes from it.  *)
(*                                                                          *)
(* The spool is a directory: one file per receipt and sequence-state.json,  *)
(* which outlives the receipts.  An append links the receipt's file and     *)
(* then records its number; an acknowledgement records the number and then  *)
(* unlinks the file.  A process may stop between any two of those steps.    *)
(***************************************************************************)
EXTENDS Naturals, FiniteSets, FiniteSetsExt

CONSTANTS
    Attempts, Types, Gens,  \* as in ReceiptLedger
    NoType, NoGen,
    NoReceipt,              \* no operation is under way
    MaxEvents,              \* bound: receipts, an older client's included
    MaxIOErrors             \* bound: file operations that fail

VARIABLES
    files,      \* the evt_*.json files
    seqState,   \* sequence-state.json; seq 0 stands for an absent attempt
    open,       \* attempts with a live ReceiptBuilder
    builder,    \* ReceiptBuilder._sequence of every open attempt
    appending,  \* receipt linked by an append that has not recorded it yet
    acking,     \* receipts an acknowledge call has still to retire
    acked,      \* receipt recorded by it and not unlinked yet
    nextId,     \* source of event ids (uuid4 in the code)
    issued,     \* history: every receipt ever linked
    ioErrors    \* history: failed file operations

vars == <<files, seqState, open, builder, appending, acking, acked,
          nextId, issued, ioErrors>>

Receipt == [id : Nat, attempt : Attempts, seq : Nat \ {0},
            type : Types, gen : Gens \cup {NoGen}]

EventState == [seq : Nat, type : Types \cup {NoType}, gen : Gens \cup {NoGen}]

ASSUME SpoolConstants ==
    /\ NoType \notin Types
    /\ NoGen \notin Gens
    /\ NoReceipt \notin Receipt
    /\ MaxEvents \in Nat
    /\ MaxIOErrors \in Nat

NoEvent == [seq |-> 0, type |-> NoType, gen |-> NoGen]

(* First non-empty of two optional values: "a or b" of the code. *)
OrElse(a, b, none) == IF a # none THEN a ELSE b

--------------------------------------------------------------------------------
(* What the spool tells its callers about an attempt: sequence-state.json   *)
(* merged with the files still present.                                     *)

FilesOf(a) == {r \in files : r.attempt = a}

Seqs(a) == {seqState[a].seq} \cup {r.seq : r \in FilesOf(a)}

(* Mutant: receipts linked but not recorded are not counted. *)
last_event_sequence_RecordOnly(a) == seqState[a].seq

last_event_sequence(a) == Max(Seqs(a))

(* The recorded event counts only when no file is newer; a field missing    *)
(* there (schema 1 and 2 had none) comes from the file of the same number.  *)
_last_event_state(a) ==
    LET seq    == last_event_sequence(a)
        newest == {r \in FilesOf(a) : r.seq = seq}
        known  == IF seqState[a].seq = seq THEN seqState[a]
                  ELSE [NoEvent EXCEPT !.seq = seq]
    IN  IF newest = {} THEN known
        ELSE LET r == CHOOSE x \in newest : TRUE
             IN  [seq  |-> seq,
                  type |-> OrElse(known.type, r.type, NoType),
                  gen  |-> OrElse(known.gen, r.gen, NoGen)]

(* Mutant: a recorded number without type or generation is left as it is. *)
_record_event_sequence_NotEnriched(r) ==
    IF r.seq <= seqState[r.attempt].seq THEN seqState
    ELSE [seqState EXCEPT ![r.attempt] =
             [seq |-> r.seq, type |-> r.type, gen |-> r.gen]]

(* sequence-state.json after a receipt's number is recorded in it. *)
_record_event_sequence(r) ==
    LET cur == seqState[r.attempt]
        new == IF r.seq > cur.seq
               THEN [seq |-> r.seq, type |-> r.type, gen |-> r.gen]
               ELSE [seq  |-> r.seq,
                     type |-> OrElse(cur.type, r.type, NoType),
                     gen  |-> OrElse(cur.gen, r.gen, NoGen)]
    IN  IF r.seq < cur.seq THEN seqState
        ELSE [seqState EXCEPT ![r.attempt] = new]

(* A recorded event that would contradict the receipt makes the code raise. *)
sequence_event_conflict(r) ==
    LET cur == seqState[r.attempt]
    IN  /\ r.seq = cur.seq
        /\ \/ cur.type # NoType /\ cur.type # r.type
           \/ cur.gen # NoGen /\ cur.gen # r.gen

--------------------------------------------------------------------------------

(* The spool an agent starts with: empty, or one an older client left, whose *)
(* state file knew numbers (schema 1) or numbers and types (schema 2) only. *)
Init ==
    /\ \E legacy \in SUBSET Attempts, type \in [Attempts -> Types],
          gen \in [Attempts -> Gens \cup {NoGen}] :
          /\ issued = {[id |-> 0, attempt |-> a, seq |-> 1,
                        type |-> type[a], gen |-> gen[a]] : a \in legacy}
          /\ files \in SUBSET issued
          /\ \E schema \in {1, 2} :
                seqState = [a \in Attempts |->
                    IF a \in legacy
                    THEN [seq  |-> 1,
                          type |-> IF schema = 1 THEN NoType ELSE type[a],
                          gen  |-> NoGen]
                    ELSE NoEvent]
    /\ open = {}
    /\ builder = [a \in Attempts |-> 0]
    /\ appending = NoReceipt
    /\ acking = {}
    /\ acked = NoReceipt
    /\ nextId = 1
    /\ ioErrors = 0

(* No call of the spool is under way. *)
Idle == appending = NoReceipt /\ acking = {}

(* Mutants: starting_event_seq is left at its default, or is the next number. *)
OpenBuilder_FromZero(a) ==
    /\ Idle /\ a \notin open
    /\ open' = open \cup {a}
    /\ builder' = [builder EXCEPT ![a] = 0]
    /\ UNCHANGED <<files, seqState, appending, acking, acked,
                   nextId, issued, ioErrors>>
OpenBuilder_NextNumber(a) ==
    /\ Idle /\ a \notin open
    /\ open' = open \cup {a}
    /\ builder' = [builder EXCEPT ![a] = last_event_sequence(a) + 1]
    /\ UNCHANGED <<files, seqState, appending, acking, acked,
                   nextId, issued, ioErrors>>

(* The reconciler opens one ReceiptBuilder per attempt and pass. *)
OpenBuilder(a) ==
    /\ Idle
    /\ a \notin open
    /\ open' = open \cup {a}
    /\ builder' = [builder EXCEPT ![a] = last_event_sequence(a)]
    /\ UNCHANGED <<files, seqState, appending, acking, acked,
                   nextId, issued, ioErrors>>

(* Mutant: build numbers the receipt before it counts it. *)
BuildAndLink_CountedLate(a, t, g) ==
    /\ Idle /\ a \in open /\ Cardinality(issued) < MaxEvents
    /\ LET r == [id |-> nextId, attempt |-> a, seq |-> builder[a],
                 type |-> t, gen |-> g]
       IN  files' = files \cup {r} /\ issued' = issued \cup {r} /\ appending' = r
    /\ builder' = [builder EXCEPT ![a] = @ + 1]
    /\ nextId' = nextId + 1
    /\ UNCHANGED <<seqState, open, acking, acked, ioErrors>>

(* build takes the next number; append links the complete file. *)
BuildAndLink(a, t, g) ==
    /\ Idle
    /\ a \in open
    /\ Cardinality(issued) < MaxEvents
    /\ LET r == [id |-> nextId, attempt |-> a, seq |-> builder[a] + 1,
                 type |-> t, gen |-> g]
       IN  /\ files' = files \cup {r}
           /\ issued' = issued \cup {r}
           /\ appending' = r
    /\ builder' = [builder EXCEPT ![a] = @ + 1]
    /\ nextId' = nextId + 1
    /\ UNCHANGED <<seqState, open, acking, acked, ioErrors>>

(* The number is taken and append fails before the link. *)
BuildAndFail(a) ==
    /\ Idle
    /\ a \in open
    /\ ioErrors < MaxIOErrors
    /\ builder' = [builder EXCEPT ![a] = @ + 1]
    /\ ioErrors' = ioErrors + 1
    /\ UNCHANGED <<files, seqState, open, appending, acking, acked,
                   nextId, issued>>

(* append replaces sequence-state.json and returns. *)
RecordAppended ==
    /\ appending # NoReceipt
    /\ seqState' = _record_event_sequence(appending)
    /\ appending' = NoReceipt
    /\ UNCHANGED <<files, open, builder, acking, acked,
                   nextId, issued, ioErrors>>

(* append raises after the link: the receipt is spooled, not recorded. *)
RecordFails ==
    /\ appending # NoReceipt
    /\ ioErrors < MaxIOErrors
    /\ ioErrors' = ioErrors + 1
    /\ appending' = NoReceipt
    /\ UNCHANGED <<files, seqState, open, builder, acking, acked,
                   nextId, issued>>

(* The client uploads, and acknowledges, after reconcile has returned and   *)
(* its builders are gone (client.FleetAgentClient.run_once).                *)
StartAcknowledge(S) ==
    /\ Idle
    /\ open = {}
    /\ S # {}
    /\ acking' = S
    /\ UNCHANGED <<files, seqState, open, builder, appending, acked,
                   nextId, issued, ioErrors>>

(* The next receipt in the order of the ids, which start with the attempt   *)
(* and the number; its number is recorded before the file goes.             *)
AcknowledgeRecord(r) ==
    /\ acked = NoReceipt
    /\ \A x \in acking : x.attempt = r.attempt => r.seq <= x.seq
    /\ seqState' = _record_event_sequence(r)
    /\ acked' = r
    /\ UNCHANGED <<files, open, builder, appending, acking,
                   nextId, issued, ioErrors>>

AcknowledgeUnlink ==
    /\ acked # NoReceipt
    /\ files' = files \ {acked}
    /\ acking' = acking \ {acked}
    /\ acked' = NoReceipt
    /\ UNCHANGED <<seqState, open, builder, appending,
                   nextId, issued, ioErrors>>

(* acknowledge raises and leaves the rest of its receipts. *)
AcknowledgeFails ==
    /\ acking # {}
    /\ ioErrors < MaxIOErrors
    /\ ioErrors' = ioErrors + 1
    /\ acking' = {}
    /\ acked' = NoReceipt
    /\ UNCHANGED <<files, seqState, open, builder, appending,
                   nextId, issued>>

(* The process ends, of its own accord or killed between two steps. *)
Stop ==
    /\ open' = {}
    /\ builder' = [a \in Attempts |-> 0]
    /\ appending' = NoReceipt
    /\ acking' = {}
    /\ acked' = NoReceipt
    /\ UNCHANGED <<files, seqState, nextId, issued, ioErrors>>

Next ==
    \/ \E a \in Attempts : OpenBuilder(a) \/ BuildAndFail(a)
    \/ \E a \in Attempts, t \in Types, g \in Gens \cup {NoGen} :
          BuildAndLink(a, t, g)
    \/ RecordAppended
    \/ RecordFails
    \/ \E S \in SUBSET files : StartAcknowledge(S)
    \/ \E r \in acking : AcknowledgeRecord(r)
    \/ AcknowledgeUnlink
    \/ AcknowledgeFails
    \/ Stop

Spec == Init /\ [][Next]_vars

--------------------------------------------------------------------------------

(* The variables hold what their comments say, and a call works only on     *)
(* receipts that are still in the spool.                                    *)
TypeOK ==
    /\ files \subseteq issued
    /\ issued \subseteq Receipt
    /\ seqState \in [Attempts -> EventState]
    /\ open \subseteq Attempts
    /\ builder \in [Attempts -> Nat]
    /\ appending \in files \cup {NoReceipt}
    /\ acking \subseteq files
    /\ acked \in acking \cup {NoReceipt}
    /\ nextId \in Nat \ {0}
    /\ ioErrors \in 0..MaxIOErrors

(* No two receipts of an attempt ever carry the same number, whatever was   *)
(* acknowledged, lost or interrupted in between: append and acknowledge     *)
(* keep enough in the directory for the next ReceiptBuilder to start above  *)
(* every number used (reconciler._receipt_builder).                         *)
SequenceNeverReused ==
    \A r, s \in issued :
        r.attempt = s.attempt /\ r.seq = s.seq => r = s

(* _record_event_sequence never raises sequence_event_conflict, which would *)
(* stop every later append and acknowledge of the attempt for good: what is *)
(* recorded for a number agrees with every receipt that has that number.    *)
NoSequenceConflict == \A r \in issued : ~sequence_event_conflict(r)

(* While no file operation fails, the numbers of an attempt leave no gap, at *)
(* whatever step the process is stopped.                                    *)
GapOnlyAfterIOError ==
    ioErrors = 0 =>
        \A r \in issued : r.seq > 1 =>
            \E s \in issued : s.attempt = r.attempt /\ s.seq = r.seq - 1

(* The directory implements the abstract spool: each link of a receipt file *)
(* is an append above every number of its attempt, each unlink retires one  *)
(* receipt, and no other step, no crash and no failed write changes the     *)
(* pending receipts or the newest event of an attempt.                      *)
Ledger == INSTANCE ReceiptLedger WITH
              pending <- files,
              last <- [a \in Attempts |-> _last_event_state(a)]

ImplementsLedger == Ledger!LedgerSpec

================================================================================
