----------------------------- MODULE ReceiptUpload -----------------------------
(***************************************************************************)
(* How a fleet agent gets its spooled receipts to the registry              *)
(* (client.FleetAgentClient.upload_pending_receipts, over                   *)
(* service_client.request_json): it sends the oldest ones in a batch, and   *)
(* retires from the spool what the answer lets it retire, until the spool   *)
(* is empty or an answer stops it.                                          *)
(*                                                                          *)
(* Requests and answers get lost, and a request that the client has given   *)
(* up may still reach the registry.  The spool is used through what         *)
(* ReceiptLedger promises.  The registry, which is not in this repository,  *)
(* is modelled from the answers the client distinguishes.                   *)
(***************************************************************************)
EXTENDS Naturals, FiniteSets, FiniteSetsExt

CONSTANTS
    Attempts,       \* delivery attempts, ordered as their ids are
    Procs,          \* processes that run the control loop
    Nobody,         \* receiver of the answer to an abandoned request
    NoReply,
    BatchLimit,     \* receipts in a batch (100)
    MaxTries,       \* HTTP requests for one batch (3 by default)
    MaxReceipts,    \* bound: receipts appended
    MaxGaps,        \* bound: numbers that were taken and never spooled
    MaxFaults,      \* bound: requests or answers that fail
    MaxRefused,     \* bound: receipts whose content the registry refuses
    MaxVague,       \* bound: stale_attempt answers that name no receipt
    MaxCrashes      \* bound: processes killed while they upload

ASSUME UploadConstants ==
    /\ Attempts \subseteq Nat
    /\ Nobody \notin Procs
    /\ BatchLimit \in Nat \ {0}
    /\ MaxTries \in Nat \ {0}
    /\ {MaxReceipts, MaxGaps, MaxFaults, MaxRefused, MaxVague, MaxCrashes} \subseteq Nat

VARIABLES
    appended,   \* history: every receipt ever spooled
    pending,    \* the receipts in the spool
    accepted,   \* registry: receipts it has taken
    stale,      \* registry: attempts it takes no more receipts of
    refused,    \* registry: receipts whose content it will never take
    wire,       \* requests on their way to the registry
    pc,         \* where a process is in upload_pending_receipts
    batch,      \* the receipts it has sent
    tries,      \* HTTP requests it has made for them
    reply,      \* the answer it has received
    acking,     \* receipts it has still to retire
    missed,     \* one of them was gone when its turn came
    count       \* bounded events so far

registryVars == <<accepted, stale, refused>>
procVars == <<pc, batch, tries, reply, acking, missed>>
vars == <<appended, pending, registryVars, wire, procVars, count>>

Receipt == [attempt : Attempts, seq : Nat \ {0}]

Refusals == {"rejected", "conflict"}

Answer == [outcome : {"accepted", "sequence_gap", "stale_attempt"} \cup Refusals,
           rejected : SUBSET Receipt]

Occurs(what) == count' = [count EXCEPT ![what] = @ + 1]

(* The first unused number of an attempt. *)
NextSeq(a) == Max({0} \cup {r.seq : r \in {x \in appended : x.attempt = a}}) + 1

(* Some receipt before r was never spooled. *)
AfterGap(r, known) ==
    r.seq > 1 /\ [r EXCEPT !.seq = @ - 1] \notin known

--------------------------------------------------------------------------------

Init ==
    /\ appended = {}
    /\ pending = {}
    /\ accepted = {}
    /\ stale = {}
    /\ refused = {}
    /\ wire = {}
    /\ pc = [p \in Procs |-> "idle"]
    /\ batch = [p \in Procs |-> {}]
    /\ tries = [p \in Procs |-> 0]
    /\ reply = [p \in Procs |-> NoReply]
    /\ acking = [p \in Procs |-> {}]
    /\ missed = [p \in Procs |-> FALSE]
    /\ count = [gaps |-> 0, faults |-> 0, vague |-> 0, crashes |-> 0]

(* The reconciler of a process appends; a failed append may skip a number.  *)
Append(p, a) ==
    /\ pc[p] = "idle"
    /\ Cardinality(appended) < MaxReceipts
    /\ \E skip \in 0..1 :
          /\ count.gaps + skip <= MaxGaps
          /\ count' = [count EXCEPT !.gaps = @ + skip]
          /\ LET r == [attempt |-> a, seq |-> NextSeq(a) + skip]
             IN  /\ appended' = appended \cup {r}
                 /\ pending' = pending \cup {r}
    /\ UNCHANGED <<registryVars, wire, procVars>>

--------------------------------------------------------------------------------
(* The client. *)

Goto(p, label) == pc' = [pc EXCEPT ![p] = label]

(* The requests on the wire once p no longer waits for its own: that one    *)
(* never arrives, or does so later.                                         *)
Abandoned(p) ==
    LET own == {m \in wire : m.to = p}
    IN  {wire \ own} \cup
        {(wire \ own) \cup {[m EXCEPT !.to = Nobody]} : m \in own}

(* upload_pending_receipts returns or raises. *)
Leave(p) ==
    /\ Goto(p, "idle")
    /\ batch' = [batch EXCEPT ![p] = {}]
    /\ tries' = [tries EXCEPT ![p] = 0]
    /\ reply' = [reply EXCEPT ![p] = NoReply]
    /\ acking' = [acking EXCEPT ![p] = {}]
    /\ missed' = [missed EXCEPT ![p] = FALSE]

Start(p) ==
    /\ pc[p] = "idle"
    /\ pending # {}
    /\ Goto(p, "read")
    /\ UNCHANGED <<appended, pending, registryVars, wire, batch, tries, reply,
                   acking, missed, count>>

(* Mutant: the newest receipt of an attempt comes first. *)
Before_Newest(r, s) ==
    \/ r.attempt < s.attempt
    \/ r.attempt = s.attempt /\ r.seq > s.seq

(* The order of ReceiptSpool._all_pending. *)
Before(r, s) ==
    \/ r.attempt < s.attempt
    \/ r.attempt = s.attempt /\ r.seq < s.seq

(* Mutant: the spool is read once, before the loop. *)
Oldest_ReadOnce(p) ==
    IF batch[p] # {} THEN batch[p]
    ELSE {r \in pending : Cardinality({s \in pending : Before(s, r)}) < BatchLimit}

(* spool.pending(limit=100) *)
Oldest(p) ==
    {r \in pending : Cardinality({s \in pending : Before(s, r)}) < BatchLimit}

Send(p) ==
    /\ pc[p] = "read"
    /\ pending # {}
    /\ batch' = [batch EXCEPT ![p] = Oldest(p)]
    /\ wire' = wire \cup {[to |-> p, batch |-> batch'[p]]}
    /\ tries' = [tries EXCEPT ![p] = 1]
    /\ Goto(p, "wait")
    /\ UNCHANGED <<appended, pending, registryVars, reply, acking, missed, count>>

Done(p) ==
    /\ pc[p] = "read"
    /\ pending = {}
    /\ Leave(p)
    /\ UNCHANGED <<appended, pending, registryVars, wire, count>>

(* A file that another process unlinks while they are read makes pending    *)
(* raise.                                                                   *)
ReadFails(p) ==
    /\ pc[p] = "read"
    /\ \E q \in Procs \ {p} : pc[q] = "ack"
    /\ Leave(p)
    /\ UNCHANGED <<appended, pending, registryVars, wire, count>>

(* Mutant: one request too many. *)
TriesLeft_OneMore(p) == tries[p] <= MaxTries

TriesLeft(p) == tries[p] < MaxTries

(* No connection, or HTTP 429 or 5xx: the same body is sent once more.      *)
Retry(p) ==
    /\ pc[p] = "wait"
    /\ TriesLeft(p)
    /\ count.faults < MaxFaults
    /\ Occurs("faults")
    /\ \E w \in Abandoned(p) : wire' = w \cup {[to |-> p, batch |-> batch[p]]}
    /\ tries' = [tries EXCEPT ![p] = @ + 1]
    /\ reply' = [reply EXCEPT ![p] = NoReply]
    /\ UNCHANGED <<appended, pending, registryVars, pc, batch, acking, missed>>

(* The tries are used up, or the answer does not come in time.              *)
GiveUp(p) ==
    /\ pc[p] = "wait"
    /\ count.faults < MaxFaults
    /\ Occurs("faults")
    /\ wire' \in Abandoned(p)
    /\ Leave(p)
    /\ UNCHANGED <<appended, pending, registryVars>>

(* Mutants: a stale answer retires the whole batch, or nothing. *)
Retirable_Batch(p) ==
    CASE reply[p].outcome \in {"accepted", "stale_attempt"} -> batch[p]
      [] OTHER                                              -> {}
Retirable_Accepted(p) ==
    IF reply[p].outcome = "accepted" THEN batch[p] ELSE {}

(* What the answer lets the client retire: a batch is accepted as a whole,  *)
(* and of attempts that are no longer wanted, what was rejected.  Any other *)
(* answer ends the upload with every receipt still in the spool.            *)
Retirable(p) ==
    CASE reply[p].outcome = "accepted"      -> batch[p]
      [] reply[p].outcome = "stale_attempt" -> reply[p].rejected
      [] OTHER                              -> {}

Receive(p) ==
    /\ pc[p] = "wait"
    /\ reply[p] # NoReply
    /\ Retirable(p) # {}
    /\ acking' = [acking EXCEPT ![p] = Retirable(p)]
    /\ reply' = [reply EXCEPT ![p] = NoReply]
    /\ Goto(p, "ack")
    /\ UNCHANGED <<appended, pending, registryVars, wire, batch, tries, missed, count>>

(* The loop ends and every receipt stays in the spool. *)
ReceiveRefusal(p) ==
    /\ pc[p] = "wait"
    /\ reply[p] # NoReply
    /\ Retirable(p) = {}
    /\ Leave(p)
    /\ UNCHANGED <<appended, pending, registryVars, wire, count>>

(* spool.acknowledge unlinks the next file, or finds it gone. *)
Acknowledge(p, r) ==
    /\ pc[p] = "ack"
    /\ \A x \in acking[p] : x.attempt = r.attempt => r.seq <= x.seq
    /\ pending' = pending \ {r}
    /\ acking' = [acking EXCEPT ![p] = @ \ {r}]
    /\ missed' = [missed EXCEPT ![p] = @ \/ r \notin pending]
    /\ UNCHANGED <<appended, registryVars, wire, pc, batch, tries, reply, count>>

(* All were there: the next batch.  Else fleet_receipt_spool_ack_mismatch.  *)
Acknowledged(p) ==
    /\ pc[p] = "ack"
    /\ acking[p] = {}
    /\ IF missed[p] THEN Leave(p)
       ELSE Goto(p, "read") /\ UNCHANGED <<batch, tries, reply, acking, missed>>
    /\ UNCHANGED <<appended, pending, registryVars, wire, count>>

(* The process is killed, or acknowledge raises. *)
Crash(p) ==
    /\ pc[p] # "idle"
    /\ count.crashes < MaxCrashes
    /\ Occurs("crashes")
    /\ wire' \in Abandoned(p)
    /\ Leave(p)
    /\ UNCHANGED <<appended, pending, registryVars>>

--------------------------------------------------------------------------------
(* The registry: a batch is taken whole or not at all. *)

StaleIn(B) == {r \in B \ accepted : r.attempt \in stale}

Gaps(B) == {r \in B \ accepted : AfterGap(r, accepted \cup B)}

RefusedIn(B) == (B \cap refused) \ accepted

(* The answer is about the first event that cannot be taken; whether its    *)
(* attempt is still wanted is looked at before its content and its number.  *)
First(S) == CHOOSE r \in S : \A s \in S \ {r} : Before(r, s)

Answers(B) ==
    LET failing == StaleIn(B) \cup RefusedIn(B) \cup Gaps(B)
        first == First(failing)
    IN  IF failing = {} THEN {[outcome |-> "accepted", rejected |-> {}]}
        ELSE IF first \in StaleIn(B)
        THEN [outcome : {"stale_attempt"}, rejected : SUBSET StaleIn(B)]
        ELSE [outcome : IF first \in RefusedIn(B) THEN Refusals ELSE {"sequence_gap"},
              rejected : {{first}}]

Handle(m) ==
    /\ \E answer \in Answers(m.batch) :
          LET vague == answer.outcome = "stale_attempt" /\ answer.rejected = {}
          IN  /\ vague => count.vague < MaxVague
              /\ count' = [count EXCEPT !.vague = IF vague THEN @ + 1 ELSE @]
              /\ accepted' = IF answer.outcome = "accepted"
                             THEN accepted \cup m.batch ELSE accepted
              /\ reply' = IF m.to = Nobody THEN reply
                          ELSE [reply EXCEPT ![m.to] = answer]
    /\ wire' = wire \ {m}
    /\ UNCHANGED <<appended, pending, stale, refused, pc, batch, tries, acking, missed>>

(* A newer desired state takes the place of an attempt. *)
Supersede(a) ==
    /\ a \notin stale
    /\ stale' = stale \cup {a}
    /\ UNCHANGED <<appended, pending, accepted, refused, wire, procVars, count>>

(* A receipt has a content the registry does not take: what it claims does  *)
(* not fit the desired state it speaks of, say.                             *)
Refuse(r) ==
    /\ r \notin accepted \cup refused
    /\ Cardinality(refused) < MaxRefused
    /\ refused' = refused \cup {r}
    /\ UNCHANGED <<appended, pending, accepted, stale, wire, procVars, count>>

--------------------------------------------------------------------------------

Step(p) ==
    \/ Start(p) \/ Send(p) \/ Done(p) \/ Receive(p) \/ ReceiveRefusal(p)
    \/ (\E r \in acking[p] : Acknowledge(p, r)) \/ Acknowledged(p)

Next ==
    \/ \E a \in Attempts : Supersede(a) \/ \E p \in Procs : Append(p, a)
    \/ \E p \in Procs :
          Step(p) \/ ReadFails(p) \/ Retry(p) \/ GiveUp(p) \/ Crash(p)
    \/ \E m \in wire : Handle(m)
    \/ \E r \in appended : Refuse(r)

Spec == Init /\ [][Next]_vars

(* The control loop runs again and again, a process that runs gets on, and  *)
(* the registry answers a request whose sender waits.                       *)
Fairness ==
    \A p \in Procs :
        /\ WF_vars(Step(p))
        /\ WF_vars(\E m \in wire : m.to = p /\ Handle(m))

FairSpec == Spec /\ Fairness

--------------------------------------------------------------------------------

(* The variables hold what their comments say; a process that is not in     *)
(* upload_pending_receipts has nothing to send or to retire, and only a     *)
(* process that waits has a request on the wire.                            *)
TypeOK ==
    /\ appended \subseteq Receipt
    /\ pending \subseteq appended
    /\ accepted \subseteq appended
    /\ stale \subseteq Attempts
    /\ refused \subseteq appended \ accepted
    /\ pc \in [Procs -> {"idle", "read", "wait", "ack"}]
    /\ \A m \in wire :
          /\ m.batch # {} /\ m.batch \subseteq appended
          /\ m.to # Nobody => pc[m.to] = "wait" /\ m.batch = batch[m.to]
    /\ \A p \in Procs :
          /\ acking[p] \subseteq batch[p]
          /\ tries[p] \in 0..MaxTries
          /\ reply[p] \in Answer \cup {NoReply}
          /\ pc[p] = "idle" => batch[p] = {}
          /\ pc[p] # "ack" => acking[p] = {} /\ ~missed[p]

(* No receipt leaves the spool that the registry still wants: whatever is   *)
(* lost, repeated or late, and whoever uploads at the same time, a receipt  *)
(* is gone only if it was accepted or its attempt is not wanted any more.   *)
RetiredIsSettled ==
    \A r \in appended \ pending : r \in accepted \/ r.attempt \in stale

(* While the spool has no gap, the batches on the wire, late ones included, *)
(* have none that the registry would answer with sequence_gap: batches are  *)
(* cut, retired and repeated in an order that never skips a receipt.        *)
BatchesLeaveNoGap ==
    count.gaps = 0 =>
        \A m \in wire : \A r \in Gaps(m.batch) : r.attempt \in stale

(* One process never finds a receipt gone that it was told to retire, so it *)
(* never raises fleet_receipt_spool_ack_mismatch, at any point of a repeat. *)
RetiresWhatIsPending == \A p \in Procs : acking[p] \subseteq pending

(* An attempt of which the registry does not take every receipt: a number   *)
(* of it was never spooled, or the content of one is refused.               *)
Blocked(a) ==
    \E r \in appended : r.attempt = a /\ (r \in refused \/ AfterGap(r, appended))

(* The spool drains, provided that every such attempt is superseded in the  *)
(* end: a receipt that is refused for good stays at the head of the spool   *)
(* and nothing behind it is taken, of whatever attempt.                     *)
SpoolDrains ==
    <>[](\A a \in Attempts : Blocked(a) => a \in stale) => <>[](pending = {})

================================================================================
