------------------------- MODULE FleetReconcilerProofs --------------------------
(***************************************************************************)
(* Proofs about FleetReconciler, for any number of packs, documents,        *)
(* crashes, failures, drifts and runtime starts.  With one process at a     *)
(* time: the invariant IInv of every pass, Unkilled as long as no pass was  *)
(* killed, MInv on the order of the milestones, and LInv, with which every  *)
(* step is one of DeliveryAttempt.  With any number of processes: OInv, on  *)
(* what a pass holds whatever the others do, and the steps left to it.      *)
(***************************************************************************)
EXTENDS FleetReconciler, FiniteSetTheorems, TLAPS

OneProcess == \A p, q \in Procs : p = q

(* Once the outbox of p is spooled, the last receipt of pack k has a type   *)
(* in T: the last one of the outbox, or the last reported.                  *)
After(p, k, T) ==
    /\ (\A i \in 1..Len(outbox[p]) : outbox[p][i].pack # k) =>
          last_event_type(<<doc[p], k>>) \in T
    /\ \A i \in 1..Len(outbox[p]) :
          /\ outbox[p][i].pack = k
          /\ \A j \in (i + 1)..Len(outbox[p]) : outbox[p][j].pack # k
          => outbox[p][i].type \in T

Closed == RuntimeEvents \cup FailureEvents
Unfailed == (EventTypes \cup {""}) \ FailureEvents
Labels == {"idle", "next", "install", "attest", "drift", "finish"}

ITypes ==
    /\ published \in 0..MaxEpoch /\ epoch \in 0..published /\ active \in 0..published
    /\ drifted \in BOOLEAN /\ runtime \in [gen : Nat, current : BOOLEAN]
    /\ lost \in BOOLEAN /\ (lost => drifted /\ active # 0)
    /\ reported \in [Attempts -> Seq(Event)]
    /\ pc \in [Procs -> Labels]
    /\ doc \in [Procs -> 0..published]
    /\ auto \in [Procs -> BOOLEAN] /\ seen \in [Procs -> BOOLEAN]
    /\ todo \in [Procs -> Seq(Packs)]
    /\ installed \in [Procs -> SUBSET Packs]
    /\ attestation \in [Procs -> Claim]
    /\ outbox \in [Procs -> Seq(Receipt)]
    /\ count \in [stops : Nat, faults : Nat, drifts : Nat, starts : Nat]
    /\ \A p \in Procs :
          IF pc[p] = "idle"
          THEN doc[p] = 0 /\ todo[p] = <<>> /\ installed[p] = {} /\ outbox[p] = <<>> /\ ~seen[p]
          ELSE doc[p] # 0

(* Items are done once, and a pack is installed or to do, not both. *)
IItems ==
    \A p \in Procs :
        /\ \A i, j \in 1..Len(todo[p]) : todo[p][i] = todo[p][j] => i = j
        /\ \A i \in 1..Len(todo[p]) : todo[p][i] \notin installed[p]

(* What the receipts to be spooled are about, at each point of a pass. *)
OutboxOK(p, i) ==
    LET r == outbox[p][i]
    IN  /\ r.type \in RuntimeEvents => pc[p] \in {"attest", "drift", "finish"}
        /\ r.type = "RUNTIME_ATTESTED" <=> pc[p] = "drift"
        /\ pc[p] = "attest" => r.type = "ACTIVATION_PENDING"
        /\ pc[p] = "finish" => r.type \in Closed
        /\ pc[p] = "install" =>
              todo[p] # <<>> /\ r.pack = Head(todo[p]) /\ r.type = "DESIRED_SEEN"
        /\ pc[p] = "next" =>
              /\ r.type \in InstallEvents \cup FailureEvents
              /\ \A j \in 1..Len(todo[p]) : todo[p][j] # r.pack
              /\ \A j \in 1..Len(outbox[p]) : outbox[p][j].pack = r.pack
        /\ pc[p] \in {"attest", "drift", "finish"} =>
              \A j \in 1..Len(outbox[p]) : outbox[p][j].pack = r.pack => i = j

IOutbox == \A p \in Procs : \A i \in 1..Len(outbox[p]) : OutboxOK(p, i)

(* How far the attempts of the document are. *)
PassOK(p) ==
    /\ pc[p] \in {"next", "install"} =>
          /\ ~seen[p]
          /\ \A k \in installed[p] : After(p, k, {"INSTALL_COMMITTED"})
          /\ \A k \in Packs \ installed[p] :
                (\A i \in 1..Len(todo[p]) : todo[p][i] # k) => After(p, k, FailureEvents)
    /\ pc[p] = "install" => todo[p] # <<>>
    /\ pc[p] \in {"attest", "drift", "finish"} => \A k \in Packs : After(p, k, Closed)
    /\ pc[p] # "idle" => IF seen[p] THEN doc[p] = epoch ELSE doc[p] > epoch

IPass == \A p \in Procs : PassOK(p)

(* A first attestation follows a receipt of another kind. *)
IFirst ==
    \A p \in Procs : ~seen[p] =>
        /\ pc[p] = "attest" => \A k \in Packs : After(p, k, {"ACTIVATION_PENDING"})
        /\ pc[p] = "drift" => \A i \in 1..Len(outbox[p]) :
              last_event_type(<<doc[p], outbox[p][i].pack>>) = "ACTIVATION_PENDING"

IInv ==
    /\ ITypes /\ IItems /\ IOutbox /\ IPass /\ IFirst
    /\ RecordedMeansReported /\ NoRepeatedAttestation

(* The rest holds while no pass was killed. An attempt has failed if all of *)
(* its document's have.                                                     *)
AllOrNone(d) ==
    \/ \A k \in Packs : last_event_type(<<d, k>>) \in FailureEvents
    \/ \A k \in Packs : last_event_type(<<d, k>>) \in Unfailed

IOver == \A d \in Docs : (\A p \in Procs : doc[p] # d) => AllOrNone(d)

(* Of documents above the recorded one, only the one that a pass works on   *)
(* has been reported on.                                                    *)
IFresh ==
    \A d \in Docs, k \in Packs :
        d > epoch /\ (\A p \in Procs : doc[p] # d) => reported[<<d, k>>] = <<>>

(* Nor has an item that is still to do; its attempt is not over before it   *)
(* is installed.                                                            *)
ToDoOK(p) ==
    /\ pc[p] = "next" => \A i \in 1..Len(todo[p]) : reported[<<doc[p], todo[p][i]>>] = <<>>
    /\ pc[p] = "install" =>
          /\ \A i \in 2..Len(todo[p]) : reported[<<doc[p], todo[p][i]>>] = <<>>
          /\ last_event_type(<<doc[p], Head(todo[p])>>) \in Unfailed

(* Nothing is spooled for an attempt that has failed, or will have.         *)
OpenOK(p) ==
    /\ pc[p] \in {"attest", "drift"} => \A k \in Packs : After(p, k, Unfailed)
    /\ pc[p] = "finish" =>
          \/ \A k \in Packs : After(p, k, FailureEvents)
          \/ \A k \in Packs : After(p, k, Unfailed)
    /\ \A i \in 1..Len(outbox[p]) :
          last_event_type(<<doc[p], outbox[p][i].pack>>) \in Unfailed
    /\ \A i, j \in 1..Len(outbox[p]) :
          i < j /\ outbox[p][i].pack = outbox[p][j].pack =>
              outbox[p][i].type \notin FailureEvents

(* "A failed attempt is terminal in Fleet Wire" (_resume_inventory_activation): *)
(* nothing more is reported of it.                                          *)
FailureIsTerminal ==
    \A a \in Attempts : \A i \in 1..Len(reported[a]) - 1 :
        reported[a][i].type \notin FailureEvents

(* Nothing is reported of a failed attempt, however many documents, failing *)
(* calls and passes follow, resumed ones included.                          *)
FailureStays == EveryPassEnded => FailureIsTerminal

IActive == active <= epoch \/ \E p \in Procs : active = doc[p]

Unkilled ==
    /\ IOver /\ IFresh /\ IActive /\ FailureIsTerminal
    /\ \A p \in Procs : ToDoOK(p) /\ OpenOK(p)

--------------------------------------------------------------------------------
(* Sequences *)

(* A finite set in some order: all of it, and nothing twice. *)
LEMMA InSomeOrder ==
    ASSUME NEW S, IsFiniteSet(S)
    PROVE  /\ SetToSeq(S) \in Seq(S)
           /\ \A x \in S : \E i \in 1..Len(SetToSeq(S)) : SetToSeq(S)[i] = x
           /\ \A i, j \in 1..Len(SetToSeq(S)) : SetToSeq(S)[i] = SetToSeq(S)[j] => i = j
<1> DEFINE n == Cardinality(S)
<1>1. n \in Nat /\ \E f \in [1..n -> S] : IsInjective(f)
  BY FS_CardinalityType DEF ExistsBijection, Bijection, Injection, IsInjective
<1> DEFINE f == SetToSeq(S)
<1>2. f \in [1..n -> S] /\ IsInjective(f)
  BY <1>1 DEF SetToSeq
<1>3. f \in Injection(1..n, S)
  BY <1>2 DEF Injection
<1>4. IsFiniteSet(1..n) /\ Cardinality(1..n) = n
  BY <1>1, FS_Interval
<1>5. f \in Surjection(1..n, S)
  BY <1>3, <1>4, FS_Injection
<1>6. f \in Seq(S) /\ Len(f) = n
  BY <1>1, <1>2
<1> QED
  BY <1>2, <1>5, <1>6 DEF Surjection, IsInjective

LEMMA Items ==
    /\ items \in Seq(Packs)
    /\ \A k \in Packs : \E i \in 1..Len(items) : items[i] = k
    /\ \A i, j \in 1..Len(items) : items[i] = items[j] => i = j
BY InSomeOrder, ReconcilerConstants DEF items

LEMMA HeadTail ==
    ASSUME NEW S, NEW q \in Seq(S), q # <<>>
    PROVE  /\ Head(q) \in S /\ Head(q) = q[1] /\ 1 \in 1..Len(q)
           /\ Tail(q) \in Seq(S) /\ Len(Tail(q)) = Len(q) - 1
           /\ \A i \in 1..(Len(q) - 1) : Tail(q)[i] = q[i + 1]
OBVIOUS

LEMMA Back ==
    ASSUME NEW S, NEW q \in Seq(S), NEW e \in S
    PROVE  /\ Append(q, e) \in Seq(S) /\ Append(q, e) # <<>>
           /\ Len(Append(q, e)) = Len(q) + 1
           /\ Append(q, e)[Len(q) + 1] = e
           /\ \A i \in 1..Len(q) : Append(q, e)[i] = q[i]
<1>1. Append(q, e) \in Seq(S) /\ Len(Append(q, e)) = Len(q) + 1 /\ Len(q) \in Nat
  OBVIOUS
<1>2. Append(q, e) # <<>>
  BY <1>1
<1>3. Append(q, e)[Len(q) + 1] = e
  OBVIOUS
<1>4. \A i \in 1..Len(q) : Append(q, e)[i] = q[i]
  OBVIOUS
<1> QED
  BY <1>1, <1>2, <1>3, <1>4

(* A receipt for every item. *)
LEMMA ForAll ==
    ASSUME NEW t \in EventTypes, NEW c \in Claim
    PROVE  /\ ForAllItems(t, c) \in Seq(Receipt)
           /\ \A i \in 1..Len(ForAllItems(t, c)) :
                 ForAllItems(t, c)[i].type = t /\ ForAllItems(t, c)[i].pack = items[i]
           /\ Len(ForAllItems(t, c)) = Len(items)
<1> DEFINE n == Len(items)
<1>1. n \in Nat /\ DOMAIN items = 1..n /\ \A i \in 1..n : items[i] \in Packs
  BY Items
<1>2. ForAllItems(t, c) = [i \in 1..n |-> [pack |-> items[i], type |-> t, claim |-> c]]
  BY <1>1 DEF ForAllItems
<1>3. ForAllItems(t, c) \in [1..n -> Receipt]
  BY <1>1, <1>2 DEF Receipt
<1>4. ForAllItems(t, c) \in Seq(Receipt) /\ Len(ForAllItems(t, c)) = n
  BY <1>1, <1>2, <1>3
<1> QED
  BY <1>2, <1>4

LEMMA AfterNothing ==
    ASSUME NEW p, NEW k, NEW T, outbox[p] = <<>>
    PROVE  After(p, k, T) <=> last_event_type(<<doc[p], k>>) \in T
BY DEF After

LEMMA AfterAll ==
    ASSUME NEW p, NEW k \in Packs, NEW T, NEW t \in EventTypes, t \in T, NEW c \in Claim,
           outbox'[p] = ForAllItems(t, c)
    PROVE  After(p, k, T)'
<1>1. \E i \in 1..Len(items) : items[i] = k
  BY Items
<1> QED
  BY <1>1, ForAll DEF After

LEMMA AfterKept ==
    ASSUME NEW p, NEW k, NEW T, After(p, k, T),
           outbox'[p] = outbox[p], doc'[p] = doc[p], reported' = reported
    PROVE  After(p, k, T)'
BY DEF After, last_event_type

(* Appending a receipt makes it the last of its attempt, and of no other. *)
LEMMA LastAppended ==
    ASSUME reported \in [Attempts -> Seq(Event)], NEW a \in Attempts, NEW r \in Receipt,
           reported' = Appended(a, r)
    PROVE  /\ reported' \in [Attempts -> Seq(Event)]
           /\ last_event_type(a)' = r.type
           /\ Len(reported'[a]) = Len(reported[a]) + 1
           /\ reported'[a][Len(reported[a]) + 1] = [type |-> r.type, claim |-> r.claim]
           /\ \A i \in 1..Len(reported[a]) : reported'[a][i] = reported[a][i]
           /\ \A b \in Attempts \ {a} :
                 reported'[b] = reported[b] /\ last_event_type(b)' = last_event_type(b)
<1> DEFINE e == [type |-> r.type, claim |-> r.claim]
<1>1. e \in Event
  BY DEF Event, Receipt
<1>2. reported' = [reported EXCEPT ![a] = Append(@, e)]
  BY DEF Appended
<1>3. reported'[a] = Append(reported[a], e) /\ reported[a] \in Seq(Event)
  BY <1>2
<1>4. /\ Len(reported'[a]) = Len(reported[a]) + 1 /\ reported'[a] # <<>>
      /\ reported'[a][Len(reported[a]) + 1] = e
      /\ \A i \in 1..Len(reported[a]) : reported'[a][i] = reported[a][i]
  BY <1>1, <1>3, Back
<1>5. last_event_type(a)' = r.type
  BY <1>4 DEF last_event_type, Last
<1>6. \A b \in Attempts \ {a} : reported'[b] = reported[b]
  BY <1>2
<1> QED
  BY <1>1, <1>2, <1>4, <1>5, <1>6 DEF last_event_type

LEMMA LastType ==
    ASSUME reported \in [Attempts -> Seq(Event)], NEW a \in Attempts
    PROVE  /\ last_event_type(a) \in EventTypes \cup {""}
           /\ reported[a] = <<>> <=> last_event_type(a) = ""
           /\ reported[a] # <<>> =>
                 /\ reported[a][Len(reported[a])].type = last_event_type(a)
                 /\ reported[a][Len(reported[a])].claim.gen = last_runtime_generation(a)
<1>1. reported[a] \in Seq(Event)
  OBVIOUS
<1>2. CASE reported[a] = <<>>
  BY <1>2 DEF last_event_type
<1>3. CASE reported[a] # <<>>
  <2>1. Last(reported[a]) = reported[a][Len(reported[a])] /\ Last(reported[a]) \in Event
    BY <1>1, <1>3 DEF Last
  <2>2. last_event_type(a) = Last(reported[a]).type /\ last_event_type(a) \in EventTypes
    BY <1>3, <2>1 DEF last_event_type, Event
  <2>3. "" \notin EventTypes
    BY DEF EventTypes, InstallEvents, RuntimeEvents, FailureEvents
  <2>4. last_runtime_generation(a) = Last(reported[a]).claim.gen
    BY <1>3 DEF last_runtime_generation
  <2> QED
    BY <1>3, <2>1, <2>2, <2>3, <2>4
<1> QED
  BY <1>2, <1>3

(* Spooling a receipt, or passing over a repeated attestation, leaves what  *)
(* an attempt comes to unchanged.                                           *)
LEMMA AfterSpooled ==
    ASSUME NEW p \in Procs, NEW k \in Packs, NEW T,
           NEW q \in Seq(Receipt), q # <<>>, NEW r, r = Head(q), NEW d \in Docs,
           outbox[p] = q, outbox'[p] = Tail(q), doc[p] = d, doc'[p] = d,
           reported \in [Attempts -> Seq(Event)],
           reported' = IF AlreadyAttested(p, r) THEN reported ELSE Appended(<<d, r.pack>>, r),
           After(p, k, T)
    PROVE  After(p, k, T)'
<1> DEFINE a == <<d, r.pack>>
           b == <<d, k>>
<1>1. /\ r \in Receipt /\ r = q[1] /\ 1 \in 1..Len(q)
      /\ Len(outbox'[p]) = Len(q) - 1 /\ Len(q) \in Nat
      /\ \A i \in 1..(Len(q) - 1) : outbox'[p][i] = q[i + 1]
  BY HeadTail
<1>2. a \in Attempts /\ b \in Attempts
  BY <1>1 DEF Attempts, Receipt
<1>3. last_event_type(a)' = r.type
  <2>1. CASE AlreadyAttested(p, r)
    <3>1. r.type = "RUNTIME_ATTESTED" /\ last_event_type(a) = "RUNTIME_ATTESTED"
      BY <2>1 DEF AlreadyAttested
    <3>2. reported' = reported
      BY <2>1
    <3> QED
      BY <3>1, <3>2 DEF last_event_type
  <2>2. CASE ~AlreadyAttested(p, r)
    <3>1. reported' = Appended(a, r)
      BY <2>2
    <3> QED
      BY <1>1, <1>2, <3>1, LastAppended
  <2> QED
    BY <2>1, <2>2
<1>4. k # r.pack => last_event_type(b)' = last_event_type(b)
  <2>1. k # r.pack => a # b
    OBVIOUS
  <2>2. CASE reported' = reported
    BY <2>2 DEF last_event_type
  <2>3. CASE reported' = Appended(a, r)
    BY <1>1, <1>2, <2>1, <2>3, LastAppended
  <2> QED
    BY <2>2, <2>3
<1>5. \A i \in 1..Len(outbox'[p]) : outbox'[p][i] = q[i + 1] /\ i + 1 \in 1..Len(q)
  BY <1>1
<1>6. \A i \in 2..Len(q) : i - 1 \in 1..Len(outbox'[p]) /\ outbox'[p][i - 1] = q[i]
  BY <1>1
<1>7. ASSUME \A i \in 1..Len(outbox'[p]) : outbox'[p][i].pack # k
      PROVE  last_event_type(b)' \in T
  <2>1. \A i \in 2..Len(q) : q[i].pack # k
    BY <1>6, <1>7
  <2>2. CASE r.pack = k
    <3>1. q[1].pack = k /\ \A j \in (1 + 1)..Len(q) : q[j].pack # k
      BY <1>1, <2>1, <2>2
    <3>2. q[1].type \in T
      BY <1>1, <3>1 DEF After
    <3>3. a = b
      BY <2>2
    <3> QED
      BY <1>1, <1>3, <3>2, <3>3
  <2>3. CASE r.pack # k
    BY <1>1, <1>4, <2>1, <2>3 DEF After
  <2> QED
    BY <2>2, <2>3
<1>8. ASSUME NEW i \in 1..Len(outbox'[p]), outbox'[p][i].pack = k,
             \A j \in (i + 1)..Len(outbox'[p]) : outbox'[p][j].pack # k
      PROVE  outbox'[p][i].type \in T
  <2>1. \A j \in (i + 2)..Len(q) : q[j].pack # k
    <3> SUFFICES ASSUME NEW j \in (i + 2)..Len(q) PROVE q[j].pack # k
      OBVIOUS
    <3>1. j \in 2..Len(q) /\ j - 1 \in (i + 1)..Len(outbox'[p])
      BY <1>1
    <3> QED
      BY <1>6, <1>8, <3>1
  <2>2. i + 1 \in 1..Len(q) /\ q[i + 1] = outbox'[p][i] /\ (i + 1) + 1 = i + 2
    BY <1>5
  <2> QED
    BY <1>8, <2>1, <2>2 DEF After
<1> QED
  BY <1>7, <1>8 DEF After
--------------------------------------------------------------------------------
(* What several actions have in common *)

LEMMA Constants ==
    /\ NoClaim \in Claim /\ FailureEvents \subseteq EventTypes /\ RuntimeEvents \subseteq EventTypes
    /\ InstallEvents \subseteq EventTypes /\ "DESIRED_SEEN" \in EventTypes
    /\ Closed = {"FAILED_RETRYABLE", "FAILED_TERMINAL", "ACTIVATION_PENDING",
                 "RUNTIME_ATTESTED", "DRIFT_DETECTED"}
    /\ MaxEpoch \in Nat
BY ReconcilerConstants DEF NoClaim, Claim, FailureEvents, RuntimeEvents, InstallEvents, EventTypes,
   Closed

LEMMA ReportsUntouched ==
    ASSUME IInv, UNCHANGED <<epoch, reported>>
    PROVE  (RecordedMeansReported /\ NoRepeatedAttestation)'
BY DEF IInv, RecordedMeansReported, NoRepeatedAttestation, last_event_type

(* The process leaves reconcile. *)
LEMMA ToIdle ==
    ASSUME OneProcess, IInv, NEW p \in Procs, Leave(p)
    PROVE  /\ (IItems /\ IOutbox /\ IPass /\ IFirst)'
           /\ pc' \in [Procs -> Labels] /\ doc' \in [Procs -> 0..published]
           /\ auto' \in [Procs -> BOOLEAN] /\ seen' \in [Procs -> BOOLEAN]
           /\ todo' \in [Procs -> Seq(Packs)] /\ installed' \in [Procs -> SUBSET Packs]
           /\ attestation' \in [Procs -> Claim] /\ outbox' \in [Procs -> Seq(Receipt)]
           /\ pc'[p] = "idle" /\ doc'[p] = 0 /\ todo'[p] = <<>> /\ installed'[p] = {}
           /\ outbox'[p] = <<>> /\ ~seen'[p]
<1>1. \A q \in Procs : q = p
  BY DEF OneProcess
<1>2. /\ pc' \in [Procs -> Labels] /\ doc' \in [Procs -> 0..published]
      /\ auto' \in [Procs -> BOOLEAN] /\ seen' \in [Procs -> BOOLEAN]
      /\ todo' \in [Procs -> Seq(Packs)] /\ installed' \in [Procs -> SUBSET Packs]
      /\ attestation' \in [Procs -> Claim] /\ outbox' \in [Procs -> Seq(Receipt)]
      /\ pc'[p] = "idle" /\ doc'[p] = 0 /\ todo'[p] = <<>> /\ installed'[p] = {}
      /\ outbox'[p] = <<>> /\ ~seen'[p]
  BY Constants DEF IInv, ITypes, Leave, Then, Labels
<1>3. Len(todo'[p]) = 0 /\ Len(outbox'[p]) = 0
  BY <1>2
<1>4. (IItems /\ IOutbox)'
  BY <1>1, <1>2, <1>3 DEF IItems, IOutbox, OutboxOK
<1>5. (IPass /\ IFirst)'
  BY <1>1, <1>2, <1>3 DEF IPass, PassOK, IFirst
<1> QED
  BY <1>2, <1>4, <1>5

(* A receipt for every item, and the pass is about to end. *)
LEMMA ToFinish ==
    ASSUME OneProcess, IInv, NEW p \in Procs, pc[p] # "idle",
           NEW t \in Closed \ {"RUNTIME_ATTESTED"}, NEW c \in Claim,
           Then(p, "finish", ForAllItems(t, c)),
           UNCHANGED <<epoch, doc, seen, todo, installed>>
    PROVE  /\ (IItems /\ IOutbox /\ IPass /\ IFirst)'
           /\ pc' \in [Procs -> Labels] /\ outbox' \in [Procs -> Seq(Receipt)]
           /\ pc'[p] = "finish" /\ outbox'[p] = ForAllItems(t, c)
<1>1. \A q \in Procs : q = p
  BY DEF OneProcess
<1>2. t \in EventTypes
  BY Constants DEF Closed
<1>3. /\ pc' \in [Procs -> Labels] /\ outbox' \in [Procs -> Seq(Receipt)]
      /\ pc'[p] = "finish" /\ outbox'[p] = ForAllItems(t, c)
  BY <1>2, ForAll DEF IInv, ITypes, Then, Labels
<1>4. IItems'
  BY DEF IInv, IItems
<1>5. IOutbox'
  <2>1. \A i \in 1..Len(outbox'[p]) : outbox'[p][i].type = t /\ outbox'[p][i].pack = items[i]
    BY <1>2, <1>3, ForAll
  <2>2. \A i, j \in 1..Len(outbox'[p]) : outbox'[p][i].pack = outbox'[p][j].pack => i = j
    BY <1>2, <1>3, <2>1, ForAll, Items
  <2> QED
    BY <1>1, <1>3, <2>1, <2>2 DEF IOutbox, OutboxOK
<1>6. IPass'
  <2>1. \A k \in Packs : After(p, k, Closed)'
    BY <1>2, <1>3, AfterAll
  <2> QED
    BY <1>1, <1>3, <2>1 DEF IInv, IPass, PassOK
<1>7. IFirst'
  BY <1>1, <1>3 DEF IFirst
<1> QED
  BY <1>3, <1>4, <1>5, <1>6, <1>7

(* A receipt is reported. *)
LEMMA Reporting ==
    ASSUME OneProcess, IInv, NEW p \in Procs, outbox[p] # <<>>,
           NEW r, r = Head(outbox[p]), NEW d, d = doc[p],
           NEW e, e = epoch, epoch' = e,
           ~AlreadyAttested(p, r), reported' = Appended(<<d, r.pack>>, r)
    PROVE  /\ (RecordedMeansReported /\ NoRepeatedAttestation)'
           /\ reported' \in [Attempts -> Seq(Event)]
<1> DEFINE a == <<d, r.pack>>
<1>1. /\ outbox[p] \in Seq(Receipt) /\ r \in Receipt /\ r = outbox[p][1] /\ 1 \in 1..Len(outbox[p])
      /\ reported \in [Attempts -> Seq(Event)]
  <2>1. outbox[p] \in Seq(Receipt) /\ reported \in [Attempts -> Seq(Event)]
    BY DEF IInv, ITypes
  <2> QED
    BY <2>1, HeadTail
<1>2. d \in Docs /\ pc[p] # "idle" /\ e \in Nat /\ pc[p] \in Labels
  BY Constants DEF IInv, ITypes, Docs
<1>3. a \in Attempts
  BY <1>1, <1>2 DEF Attempts, Receipt
<1>4. /\ reported' \in [Attempts -> Seq(Event)] /\ last_event_type(a)' = r.type
      /\ Len(reported'[a]) = Len(reported[a]) + 1
      /\ reported'[a][Len(reported[a]) + 1] = [type |-> r.type, claim |-> r.claim]
      /\ \A i \in 1..Len(reported[a]) : reported'[a][i] = reported[a][i]
      /\ \A b \in Attempts \ {a} :
            reported'[b] = reported[b] /\ last_event_type(b)' = last_event_type(b)
  BY <1>1, <1>3, LastAppended
<1>5. RecordedMeansReported'
  <2> SUFFICES ASSUME e # 0, NEW k \in Packs
               PROVE  last_event_type(<<e, k>>)' \in Closed
    BY DEF RecordedMeansReported, Closed, last_event_type
  <2>1. e \in Docs
    BY Constants DEF IInv, ITypes, Docs
  <2>2. <<e, k>> \in Attempts
    BY <2>1 DEF Attempts
  <2>3. CASE <<e, k>> = a
    <3>1. seen[p]
      BY <1>2, <2>3 DEF IInv, IPass, PassOK
    <3>2. pc[p] \in {"attest", "drift", "finish"}
      BY <1>2, <3>1 DEF IInv, IPass, PassOK, Labels
    <3>3. r.type \in Closed
      BY <1>1, <3>2, Constants DEF IInv, IOutbox, OutboxOK
    <3> QED
      BY <1>4, <2>3, <3>3
  <2>4. CASE <<e, k>> # a
    <3>1. last_event_type(<<e, k>>) \in Closed
      BY DEF IInv, RecordedMeansReported, Closed
    <3> QED
      BY <1>4, <2>2, <2>4, <3>1
  <2> QED
    BY <2>3, <2>4
<1>6. NoRepeatedAttestation'
  <2> SUFFICES ASSUME NEW b \in Attempts, NEW i \in 2..Len(reported'[b]),
                      reported'[b][i - 1].type = "RUNTIME_ATTESTED",
                      reported'[b][i].type = "RUNTIME_ATTESTED"
               PROVE  reported'[b][i - 1].claim.gen # reported'[b][i].claim.gen
    BY DEF NoRepeatedAttestation
  <2>1. CASE b # a
    <3>1. reported'[b] = reported[b]
      BY <1>4, <2>1
    <3> QED
      BY <3>1 DEF IInv, NoRepeatedAttestation
  <2>2. CASE b = a /\ i <= Len(reported[a])
    <3>1. reported[a] \in Seq(Event) /\ i - 1 \in 1..Len(reported[a]) /\ i \in 2..Len(reported[a])
      BY <1>1, <1>3, <2>2
    <3>a. \A n \in 1..Len(reported[a]) : reported'[b][n] = reported[a][n]
      BY <1>4, <2>2
    <3>b. i \in 1..Len(reported[a])
      BY <3>1
    <3>2. reported'[b][i - 1] = reported[a][i - 1] /\ reported'[b][i] = reported[a][i]
      BY <3>1, <3>a, <3>b
    <3> QED
      BY <1>3, <3>1, <3>2 DEF IInv, NoRepeatedAttestation
  <2>3. CASE b = a /\ i > Len(reported[a])
    <3>0. /\ Len(reported'[b]) = Len(reported[a]) + 1 /\ Len(reported[a]) \in Nat
          /\ i \in 2..Len(reported'[b])
      BY <1>1, <1>3, <1>4, <2>3
    <3>a. i = Len(reported[a]) + 1 /\ Len(reported[a]) >= 1
      BY <3>0, <2>3
    <3>b. reported[a] # <<>>
      BY <3>a
    <3>1. /\ i = Len(reported[a]) + 1 /\ i - 1 \in 1..Len(reported[a])
          /\ i - 1 = Len(reported[a]) /\ reported[a] # <<>>
      BY <3>0, <3>a, <3>b
    <3>2. r.type = "RUNTIME_ATTESTED" /\ reported'[b][i].claim = r.claim
      BY <1>4, <2>3, <3>1
    <3>3. reported'[b][i - 1] = reported[a][Len(reported[a])]
      <4>1. \A n \in 1..Len(reported[a]) : reported'[b][n] = reported[a][n]
        BY <1>4, <2>3
      <4>2. reported'[b][i - 1] = reported[a][i - 1]
        BY <3>1, <4>1
      <4> QED
        BY <3>1, <4>2
    <3>4. last_event_type(a) = "RUNTIME_ATTESTED"
          /\ reported'[b][i - 1].claim.gen = last_runtime_generation(a)
      BY <1>1, <1>3, <3>1, <3>3, LastType
    <3>5. pc[p] = "drift"
      <4>1. r = outbox[p][1] /\ 1 \in 1..Len(outbox[p])
        BY <1>1
      <4>2. OutboxOK(p, 1)
        BY <4>1 DEF IInv, IOutbox
      <4> QED
        BY <3>2, <4>1, <4>2 DEF OutboxOK
    <3>6. seen[p]
      BY <1>1, <3>4, <3>5 DEF IInv, IFirst
    <3> QED
      BY <3>2, <3>4, <3>6 DEF AlreadyAttested
  <2>4. i \in Nat /\ Len(reported[a]) \in Nat
    BY <1>1, <1>3
  <2> QED
    BY <2>1, <2>2, <2>3, <2>4
<1> QED
  BY <1>4, <1>5, <1>6

(* Receipts for one item. *)
LEMMA ForOne ==
    ASSUME NEW h \in Packs, NEW types \in Seq(EventTypes)
    PROVE  /\ ForItem(h, types) \in Seq(Receipt) /\ Len(ForItem(h, types)) = Len(types)
           /\ \A i \in 1..Len(types) :
                 ForItem(h, types)[i].pack = h /\ ForItem(h, types)[i].type = types[i]
<1> DEFINE n == Len(types)
<1>1. n \in Nat /\ DOMAIN types = 1..n /\ \A i \in 1..n : types[i] \in EventTypes
  OBVIOUS
<1>2. ForItem(h, types) = [i \in 1..n |-> [pack |-> h, type |-> types[i], claim |-> NoClaim]]
  BY <1>1 DEF ForItem
<1>3. ForItem(h, types) \in [1..n -> Receipt]
  BY <1>1, <1>2, Constants DEF Receipt
<1>4. ForItem(h, types) \in Seq(Receipt) /\ Len(ForItem(h, types)) = n
  <2>1. ForItem(h, types) \in Seq(Receipt)
    BY <1>1, <1>3
  <2>2. DOMAIN ForItem(h, types) = 1..n
    BY <1>2
  <2>3. Len(ForItem(h, types)) \in Nat /\ DOMAIN ForItem(h, types) = 1..Len(ForItem(h, types))
    BY <2>1
  <2> QED
    BY <1>1, <2>1, <2>2, <2>3
<1> QED
  BY <1>2, <1>4

LEMMA AfterOne ==
    ASSUME NEW p \in Procs, NEW h \in Packs, NEW types \in Seq(EventTypes), types # <<>>,
           outbox'[p] = ForItem(h, types), doc' = doc, reported' = reported
    PROVE  /\ \A T : types[Len(types)] \in T => After(p, h, T)'
           /\ \A k \in Packs \ {h} : \A T :
                 last_event_type(<<doc[p], k>>) \in T => After(p, k, T)'
<1>1. /\ Len(outbox'[p]) = Len(types) /\ Len(types) \in Nat /\ Len(types) \in 1..Len(types)
      /\ \A i \in 1..Len(types) : outbox'[p][i].pack = h /\ outbox'[p][i].type = types[i]
  BY ForOne
<1>2. ASSUME NEW T, types[Len(types)] \in T PROVE After(p, h, T)'
  <2>1. ASSUME NEW i \in 1..Len(types), \A j \in (i + 1)..Len(types) : outbox'[p][j].pack # h
        PROVE  i = Len(types)
    BY <1>1, <2>1
  <2> QED
    BY <1>1, <1>2, <2>1 DEF After
<1>3. ASSUME NEW k \in Packs \ {h}, NEW T, last_event_type(<<doc[p], k>>) \in T
      PROVE  After(p, k, T)'
  BY <1>1, <1>3 DEF After, last_event_type
<1> QED
  BY <1>2, <1>3

LEMMA PassUntouched ==
    ASSUME IInv, UNCHANGED <<epoch, reported, procVars>>
    PROVE  (IItems /\ IOutbox /\ IPass /\ IFirst /\ RecordedMeansReported /\ NoRepeatedAttestation)'
<1>1. (IItems /\ IOutbox)'
  BY DEF IInv, IItems, IOutbox, OutboxOK, procVars
<1>2. \A p \in Procs, k \in Packs : \A T : After(p, k, T) => After(p, k, T)'
  BY AfterKept DEF procVars
<1>3. IPass'
  BY <1>2 DEF IInv, ITypes, IPass, PassOK, procVars
<1>4. IFirst'
  BY <1>2 DEF IInv, IFirst, procVars, last_event_type
<1> QED
  BY <1>1, <1>3, <1>4, ReportsUntouched

--------------------------------------------------------------------------------
(* Every step keeps the invariant *)

LEMMA PublishStep ==
    ASSUME IInv, Publish PROVE IInv'
<1>1. ITypes'
  BY Constants DEF IInv, ITypes, Publish, adapterVars, procVars
<1> QED
  BY <1>1, PassUntouched DEF Publish, IInv

LEMMA RuntimeStartStep ==
    ASSUME IInv, RuntimeStart PROVE IInv'
<1>1. ITypes'
  <2>1. PICK c \in BOOLEAN : runtime' = [gen |-> runtime.gen + 1, current |-> c]
    BY DEF IInv, ITypes, RuntimeStart
  <2>2. /\ runtime' \in [gen : Nat, current : BOOLEAN] /\ drifted' \in BOOLEAN
        /\ lost' \in BOOLEAN /\ (lost' => drifted' /\ active' # 0)
    <3>1. UNCHANGED <<active, drifted, lost>>
      BY DEF RuntimeStart
    <3> QED
      BY <2>1, <3>1 DEF IInv, ITypes
  <2>3. count' \in [stops : Nat, faults : Nat, drifts : Nat, starts : Nat]
    <3>1. count \in [stops : Nat, faults : Nat, drifts : Nat, starts : Nat]
      BY DEF IInv, ITypes
    <3> QED
      BY <3>1 DEF RuntimeStart, Occurs
  <2> QED
    BY <2>2, <2>3 DEF IInv, ITypes, RuntimeStart, procVars
<1> QED
  BY <1>1, PassUntouched DEF RuntimeStart, IInv

LEMMA TamperStep ==
    ASSUME IInv, Tamper PROVE IInv'
<1>1. ITypes'
  <2>1. /\ runtime' \in [gen : Nat, current : BOOLEAN] /\ drifted' \in BOOLEAN
        /\ lost' \in BOOLEAN /\ (lost' => drifted' /\ active' # 0)
    BY DEF IInv, ITypes, Tamper
  <2>2. count' \in [stops : Nat, faults : Nat, drifts : Nat, starts : Nat]
    <3>1. count \in [stops : Nat, faults : Nat, drifts : Nat, starts : Nat]
      BY DEF IInv, ITypes
    <3> QED
      BY <3>1 DEF Tamper, Occurs
  <2> QED
    BY <2>1, <2>2 DEF IInv, ITypes, Tamper, procVars
<1> QED
  BY <1>1, PassUntouched DEF Tamper, IInv

LEMMA BeginStep ==
    ASSUME OneProcess, IInv, NEW p \in Procs, NEW d \in Delivered, Begin(p, d) PROVE IInv'
<1>1. \A q \in Procs : q = p
  BY DEF OneProcess
<1>2. d \in 1..published /\ d > epoch /\ pc[p] = "idle"
  BY DEF Begin, _check_epoch, Delivered, IInv, ITypes
<1>3. /\ todo'[p] = items /\ pc'[p] = "next" /\ doc'[p] = d /\ ~seen'[p]
      /\ installed'[p] = {} /\ outbox'[p] = <<>> /\ epoch' = epoch
  BY <1>2 DEF Begin, IInv, ITypes
<1>4. ITypes'
  <2>1. /\ todo' \in [Procs -> Seq(Packs)] /\ pc' \in [Procs -> Labels]
        /\ doc' \in [Procs -> 0..published] /\ auto' \in [Procs -> BOOLEAN]
    BY <1>2, Items, ReconcilerConstants DEF Begin, IInv, ITypes, Labels
  <2> QED
    BY <1>1, <1>2, <1>3, <2>1 DEF Begin, IInv, ITypes, adapterVars
<1>5. IItems'
  <2>1. \A i, j \in 1..Len(todo'[p]) : todo'[p][i] = todo'[p][j] => i = j
    BY <1>3, Items
  <2> QED
    BY <1>1, <1>3, <2>1 DEF IItems
<1>6. IOutbox'
  BY <1>1, <1>3 DEF IOutbox, OutboxOK
<1>7. IPass'
  <2>1. \A k \in Packs : \E i \in 1..Len(todo'[p]) : todo'[p][i] = k
    BY <1>3, Items
  <2> QED
    BY <1>1, <1>2, <1>3, <2>1 DEF IPass, PassOK
<1>8. IFirst'
  BY <1>1, <1>3 DEF IFirst
<1> QED
  BY <1>4, <1>5, <1>6, <1>7, <1>8, ReportsUntouched DEF Begin, IInv

LEMMA ResumeStep ==
    ASSUME OneProcess, IInv, NEW p \in Procs, NEW d \in Delivered, Resume(p, d) PROVE IInv'
<1>1. \A q \in Procs : q = p
  BY DEF OneProcess
<1>2. d \in 1..published /\ d = epoch /\ pc[p] = "idle"
  BY DEF Resume, Delivered, IInv, ITypes
<1>3. /\ todo'[p] = <<>> /\ pc'[p] = "attest" /\ doc'[p] = d /\ seen'[p]
      /\ installed'[p] = {} /\ outbox'[p] = <<>> /\ epoch' = epoch /\ reported' = reported
  BY <1>2 DEF Resume, IInv, ITypes
<1>4. ITypes'
  <2>1. /\ pc' \in [Procs -> Labels] /\ seen' \in [Procs -> BOOLEAN]
        /\ doc' \in [Procs -> 0..published] /\ auto' \in [Procs -> BOOLEAN]
    BY <1>2 DEF Resume, IInv, ITypes, Labels
  <2> QED
    BY <1>1, <1>2, <1>3, <2>1 DEF Resume, IInv, ITypes, adapterVars
<1>5. IItems'
  BY <1>1, <1>3 DEF IItems
<1>6. IOutbox'
  BY <1>1, <1>3 DEF IOutbox, OutboxOK
<1>7. IPass'
  <2>1. \A k \in Packs : last_event_type(<<d, k>>) \in Closed
    BY <1>2 DEF IInv, RecordedMeansReported, Closed
  <2>2. \A k \in Packs : After(p, k, Closed)'
    <3>1. Len(outbox'[p]) = 0
      BY <1>3
    <3>2. ASSUME NEW k \in Packs, NEW T, last_event_type(<<d, k>>) \in T
          PROVE  After(p, k, T)'
      <4>1. reported'[<<doc'[p], k>>] = reported[<<d, k>>]
        BY <1>3
      <4>2. last_event_type(<<doc[p], k>>)' = last_event_type(<<d, k>>)
        BY <4>1 DEF last_event_type
      <4> QED
        BY <3>1, <3>2, <4>2 DEF After
    <3> QED
      BY <2>1, <3>2
  <2> QED
    BY <1>1, <1>2, <1>3, <2>2 DEF IPass, PassOK
<1>8. IFirst'
  BY <1>1, <1>3 DEF IFirst
<1> QED
  BY <1>4, <1>5, <1>6, <1>7, <1>8, ReportsUntouched DEF Resume, IInv

LEMMA NextItemStep ==
    ASSUME OneProcess, IInv, NEW p \in Procs, NextItem(p) PROVE IInv'
<1> DEFINE h == Head(todo[p])
           types == <<"DESIRED_SEEN">>
<1>1. \A q \in Procs : q = p
  BY DEF OneProcess
<1>2. /\ todo[p] \in Seq(Packs) /\ todo[p] # <<>> /\ outbox[p] = <<>> /\ pc[p] = "next"
      /\ types \in Seq(EventTypes) /\ types # <<>> /\ Len(types) = 1
      /\ types[1] = "DESIRED_SEEN"
      /\ UNCHANGED <<epoch, reported, doc, seen, todo, installed>>
  BY Constants DEF NextItem, At, IInv, ITypes
<1> HIDE DEF types
<1>3. h \in Packs /\ h = todo[p][1] /\ 1 \in 1..Len(todo[p])
  BY <1>2, HeadTail
<1>4. /\ outbox'[p] = ForItem(h, types) /\ pc'[p] = "install"
      /\ pc' \in [Procs -> Labels] /\ outbox' \in [Procs -> Seq(Receipt)]
  <2>1. ForItem(h, types) \in Seq(Receipt)
    BY <1>2, <1>3, ForOne
  <2> QED
    BY <1>2, <2>1 DEF NextItem, Then, IInv, ITypes, Labels, types
<1>5. /\ Len(outbox'[p]) = 1 /\ outbox'[p][1].pack = h /\ outbox'[p][1].type = "DESIRED_SEEN"
  <2>1. 1 \in 1..Len(types)
    BY <1>2
  <2>2. /\ Len(ForItem(h, types)) = Len(types)
        /\ ForItem(h, types)[1].pack = h /\ ForItem(h, types)[1].type = types[1]
    BY <1>2, <1>3, <2>1, ForOne
  <2> QED
    BY <1>2, <1>4, <2>2
<1>6. ITypes'
  BY <1>1, <1>2, <1>4 DEF NextItem, IInv, ITypes, adapterVars
<1>7. IItems'
  BY <1>2 DEF IInv, IItems
<1>8. IOutbox'
  BY <1>1, <1>2, <1>4, <1>5, Constants DEF IOutbox, OutboxOK, RuntimeEvents
<1>9. IPass'
  <2>1. \A k \in Packs \ {h} : \A T : last_event_type(<<doc[p], k>>) \in T => After(p, k, T)'
    BY <1>2, <1>3, <1>4, AfterOne
  <2>2. h \notin installed[p] /\ installed[p] \subseteq Packs
    BY <1>3 DEF IInv, IItems, ITypes
  <2>3. \A k \in installed[p] : last_event_type(<<doc[p], k>>) \in {"INSTALL_COMMITTED"}
    BY <1>2, AfterNothing DEF IInv, IPass, PassOK
  <2>4. \A k \in Packs \ installed[p] :
           (\A i \in 1..Len(todo[p]) : todo[p][i] # k) =>
               k # h /\ last_event_type(<<doc[p], k>>) \in FailureEvents
    BY <1>2, <1>3, AfterNothing DEF IInv, IPass, PassOK
  <2>5. \A k \in installed[p] : After(p, k, {"INSTALL_COMMITTED"})'
    BY <2>1, <2>2, <2>3
  <2>6. \A k \in Packs \ installed[p] :
           (\A i \in 1..Len(todo[p]) : todo[p][i] # k) => After(p, k, FailureEvents)'
    BY <2>1, <2>4
  <2>7. ~seen[p] /\ doc[p] > epoch
    BY <1>2 DEF IInv, IPass, PassOK
  <2> QED
    BY <1>1, <1>2, <1>4, <2>5, <2>6, <2>7 DEF IPass, PassOK
<1>10. IFirst'
  BY <1>1, <1>4 DEF IFirst
<1> QED
  BY <1>2, <1>6, <1>7, <1>8, <1>9, <1>10, ReportsUntouched DEF IInv
--------------------------------------------------------------------------------
(* The pass goes on from item to item *)

(* What is known of item h and of the items after it when h is done. *)
Done(p, h, rest) ==
    /\ h \in Packs /\ h \notin installed[p]
    /\ rest \in Seq(Packs)
    /\ \A i, j \in 1..Len(rest) : rest[i] = rest[j] => i = j
    /\ \A i \in 1..Len(rest) : rest[i] # h /\ rest[i] \notin installed[p]
    /\ \A k \in Packs : k # h /\ (\A i \in 1..Len(rest) : rest[i] # k) =>
          \A i \in 1..Len(todo[p]) : todo[p][i] # k

LEMMA ItemDone ==
    ASSUME IInv, NEW p \in Procs, todo[p] # <<>>,
           NEW h, h = Head(todo[p]), NEW rest, rest = Tail(todo[p])
    PROVE  Done(p, h, rest)
<1>1. todo[p] \in Seq(Packs)
  BY DEF IInv, ITypes
<1>2. /\ h \in Packs /\ h = todo[p][1] /\ 1 \in 1..Len(todo[p]) /\ Len(todo[p]) \in Nat
      /\ rest \in Seq(Packs) /\ Len(rest) = Len(todo[p]) - 1
      /\ \A i \in 1..(Len(todo[p]) - 1) : rest[i] = todo[p][i + 1]
  BY <1>1, HeadTail
<1>3. \A i \in 1..Len(rest) :
         rest[i] = todo[p][i + 1] /\ i + 1 \in 1..Len(todo[p]) /\ i + 1 # 1 /\ i \in Nat
  BY <1>2
<1>4. /\ \A i, j \in 1..Len(todo[p]) : todo[p][i] = todo[p][j] => i = j
      /\ \A i \in 1..Len(todo[p]) : todo[p][i] \notin installed[p]
  BY DEF IInv, IItems
<1>5. \A i, j \in 1..Len(rest) : rest[i] = rest[j] => i = j
  <2> SUFFICES ASSUME NEW i \in 1..Len(rest), NEW j \in 1..Len(rest), rest[i] = rest[j] PROVE i = j
    OBVIOUS
  <2>1. i + 1 = j + 1
    BY <1>3, <1>4
  <2> QED
    BY <1>3, <2>1
<1>6. \A i \in 1..Len(rest) : rest[i] # h /\ rest[i] \notin installed[p]
  BY <1>2, <1>3, <1>4
<1>7. ASSUME NEW k \in Packs, k # h, \A i \in 1..Len(rest) : rest[i] # k, NEW i \in 1..Len(todo[p])
      PROVE  todo[p][i] # k
  <2>1. CASE i = 1
    BY <1>2, <1>7, <2>1
  <2>2. CASE i # 1
    <3>1. i - 1 \in 1..Len(rest) /\ (i - 1) + 1 = i
      BY <1>2, <2>2
    <3> QED
      BY <1>3, <1>7, <3>1
  <2> QED
    BY <2>1, <2>2
<1> QED
  BY <1>2, <1>4, <1>5, <1>6, <1>7 DEF Done

(* The attempt of an item is carried on to the types given, and the next    *)
(* item follows: installed if they end with INSTALL_COMMITTED.              *)
LEMMA ToNext ==
    ASSUME OneProcess, IInv, NEW p \in Procs, pc[p] \in {"next", "install"},
           todo[p] # <<>>, outbox[p] = <<>>,
           NEW h, h = Head(todo[p]),
           NEW types \in Seq(InstallEvents \cup FailureEvents), types # <<>>,
           Then(p, "next", ForItem(h, types)),
           todo' = [todo EXCEPT ![p] = Tail(@)],
           \/ types[Len(types)] \in FailureEvents /\ installed' = installed
           \/ /\ types[Len(types)] = "INSTALL_COMMITTED"
              /\ installed' = [installed EXCEPT ![p] = @ \cup {h}],
           UNCHANGED <<epoch, reported, doc, seen>>
    PROVE  /\ (IItems /\ IOutbox /\ IPass /\ IFirst)'
           /\ pc' \in [Procs -> Labels] /\ outbox' \in [Procs -> Seq(Receipt)]
           /\ todo' \in [Procs -> Seq(Packs)] /\ installed' \in [Procs -> SUBSET Packs]
           /\ pc'[p] = "next"
<1>1. \A q \in Procs : q = p
  BY DEF OneProcess
<1>a. PICK rest : rest = Tail(todo[p])
  OBVIOUS
<1>2. /\ h \in Packs /\ h \notin installed[p] /\ rest \in Seq(Packs) /\ installed[p] \subseteq Packs
      /\ \A i, j \in 1..Len(rest) : rest[i] = rest[j] => i = j
      /\ \A i \in 1..Len(rest) : rest[i] # h /\ rest[i] \notin installed[p]
      /\ \A k \in Packs : k # h /\ (\A i \in 1..Len(rest) : rest[i] # k) =>
            \A i \in 1..Len(todo[p]) : todo[p][i] # k
  <2>1. installed[p] \subseteq Packs
    BY DEF IInv, ITypes
  <2>2. Done(p, h, rest)
    BY <1>a, ItemDone
  <2> QED
    BY <2>1, <2>2 DEF Done
<1>3. types \in Seq(EventTypes)
  BY Constants
<1>4. /\ ForItem(h, types) \in Seq(Receipt) /\ Len(ForItem(h, types)) = Len(types)
      /\ \A i \in 1..Len(types) :
            ForItem(h, types)[i].pack = h /\ ForItem(h, types)[i].type = types[i]
  BY <1>2, <1>3, ForOne
<1>5. /\ pc' \in [Procs -> Labels] /\ outbox' \in [Procs -> Seq(Receipt)]
      /\ todo' \in [Procs -> Seq(Packs)] /\ installed' \in [Procs -> SUBSET Packs]
      /\ pc'[p] = "next" /\ outbox'[p] = ForItem(h, types) /\ todo'[p] = rest
      /\ installed'[p] \in {installed[p], installed[p] \cup {h}}
  <2>1. /\ pc' \in [Procs -> Labels] /\ outbox' \in [Procs -> Seq(Receipt)]
        /\ pc'[p] = "next" /\ outbox'[p] = ForItem(h, types)
    BY <1>4 DEF Then, IInv, ITypes, Labels
  <2>2. todo' \in [Procs -> Seq(Packs)] /\ todo'[p] = rest
    BY <1>a, <1>2 DEF IInv, ITypes
  <2>3. /\ installed' \in [Procs -> SUBSET Packs]
        /\ installed'[p] \in {installed[p], installed[p] \cup {h}}
    <3>1. installed \in [Procs -> SUBSET Packs]
      BY DEF IInv, ITypes
    <3>2. CASE installed' = installed
      BY <3>1, <3>2
    <3>3. CASE installed' = [installed EXCEPT ![p] = @ \cup {h}]
      BY <1>2, <3>1, <3>3
    <3> QED
      BY <3>2, <3>3
  <2> QED
    BY <2>1, <2>2, <2>3
<1>6. IItems'
  <2>1. ASSUME NEW i \in 1..Len(todo'[p]) PROVE todo'[p][i] \notin installed'[p]
    <3>1. i \in 1..Len(rest) /\ todo'[p][i] = rest[i]
      BY <1>5
    <3>2. rest[i] # h /\ rest[i] \notin installed[p]
      BY <1>2, <3>1
    <3>3. rest[i] \notin installed[p] \cup {h}
      BY <3>2
    <3> QED
      BY <1>5, <3>1, <3>2, <3>3, Zenon
  <2>2. \A i, j \in 1..Len(todo'[p]) : todo'[p][i] = todo'[p][j] => i = j
    <3>1. todo'[p] = rest
      BY <1>5
    <3>2. ASSUME NEW i \in 1..Len(rest), NEW j \in 1..Len(rest), rest[i] = rest[j]
          PROVE  i = j
      BY <1>2, <3>2
    <3>3. ASSUME NEW q, q = rest, NEW i \in 1..Len(q), NEW j \in 1..Len(q), q[i] = q[j]
          PROVE  i = j
      BY <3>2, <3>3
    <3> QED
      BY <3>1, <3>3
  <2> QED
    BY <1>1, <2>1, <2>2, Zenon DEF IItems
<1>7. IOutbox'
  <2>1. \A i \in 1..Len(outbox'[p]) :
           outbox'[p][i].pack = h /\ outbox'[p][i].type \in InstallEvents \cup FailureEvents
    BY <1>4, <1>5
  <2>2. \A t \in InstallEvents \cup FailureEvents : t \notin RuntimeEvents /\ t # "RUNTIME_ATTESTED"
    BY DEF InstallEvents, FailureEvents, RuntimeEvents
  <2>3. ASSUME NEW i \in 1..Len(outbox'[p]) PROVE OutboxOK(p, i)'
    BY <1>2, <1>5, <2>1, <2>2 DEF OutboxOK
  <2> QED
    BY <1>1, <2>3 DEF IOutbox
<1>8. IPass'
  <2>1. /\ \A T : types[Len(types)] \in T => After(p, h, T)'
        /\ \A k \in Packs \ {h} : \A T :
              last_event_type(<<doc[p], k>>) \in T => After(p, k, T)'
    BY <1>2, <1>3, <1>5, AfterOne
  <2>2. /\ \A k \in installed[p] : last_event_type(<<doc[p], k>>) \in {"INSTALL_COMMITTED"}
        /\ \A k \in Packs \ installed[p] :
              (\A i \in 1..Len(todo[p]) : todo[p][i] # k) =>
                  last_event_type(<<doc[p], k>>) \in FailureEvents
    BY AfterNothing DEF IInv, IPass, PassOK
  <2>3. \A k \in installed[p] : After(p, k, {"INSTALL_COMMITTED"})'
    BY <1>2, <2>1, <2>2
  <2>4. \A k \in Packs \ (installed[p] \cup {h}) :
           (\A i \in 1..Len(rest) : rest[i] # k) => After(p, k, FailureEvents)'
    BY <1>2, <2>1, <2>2
  <2>5. ~seen[p] /\ doc[p] > epoch
    BY DEF IInv, IPass, PassOK
  <2>6. \A k \in installed'[p] : After(p, k, {"INSTALL_COMMITTED"})'
    <3>1. CASE installed' = installed
      BY <2>3, <3>1
    <3>2. CASE types[Len(types)] = "INSTALL_COMMITTED"
      BY <1>5, <2>1, <2>3, <3>2
    <3> QED
      BY <3>1, <3>2
  <2>7. \A k \in Packs \ installed'[p] :
           (\A i \in 1..Len(rest) : rest[i] # k) => After(p, k, FailureEvents)'
    <3>1. CASE types[Len(types)] \in FailureEvents /\ installed' = installed
      BY <2>1, <2>4, <3>1
    <3>2. CASE installed' = [installed EXCEPT ![p] = @ \cup {h}]
      BY <2>4, <3>2 DEF IInv, ITypes
    <3> QED
      BY <3>1, <3>2
  <2> QED
    <3>1. PassOK(p)'
      BY <1>5, <2>5, <2>6, <2>7 DEF PassOK
    <3> QED
      BY <1>1, <3>1 DEF IPass
<1>9. IFirst'
  BY <1>1, <1>5 DEF IFirst
<1> QED
  BY <1>5, <1>6, <1>7, <1>8, <1>9

LEMMA InstallItemStep ==
    ASSUME OneProcess, IInv, NEW p \in Procs, InstallItem(p) PROVE IInv'
<1> DEFINE types == <<"MANIFEST_VERIFIED", "ARTIFACT_VERIFIED", "INSTALL_COMMITTED">>
           h == Head(todo[p])
<1>1. /\ types \in Seq(InstallEvents \cup FailureEvents) /\ types # <<>>
      /\ types[Len(types)] = "INSTALL_COMMITTED"
  BY DEF InstallEvents
<1>2. /\ pc[p] = "install" /\ outbox[p] = <<>> /\ todo[p] # <<>>
      /\ Then(p, "next", ForItem(h, types))
      /\ todo' = [todo EXCEPT ![p] = Tail(@)]
      /\ installed' = [installed EXCEPT ![p] = @ \cup {h}]
      /\ UNCHANGED <<epoch, reported, doc, seen>>
  BY DEF InstallItem, At, IInv, IPass, PassOK
<1> HIDE DEF types, h
<1>3. /\ (IItems /\ IOutbox /\ IPass /\ IFirst)'
      /\ pc' \in [Procs -> Labels] /\ outbox' \in [Procs -> Seq(Receipt)]
      /\ todo' \in [Procs -> Seq(Packs)] /\ installed' \in [Procs -> SUBSET Packs]
      /\ pc'[p] = "next"
  BY <1>1, <1>2, ToNext DEF h
<1>4. ITypes'
  BY <1>2, <1>3 DEF InstallItem, IInv, ITypes, OneProcess, adapterVars
<1> QED
  BY <1>2, <1>3, <1>4, ReportsUntouched DEF IInv

LEMMA InstallItemFailsStep ==
    ASSUME OneProcess, IInv, NEW p \in Procs, InstallItemFails(p) PROVE IInv'
<1> DEFINE h == Head(todo[p])
<1>1. PICK types \in {<<"FAILED_RETRYABLE">>, <<"FAILED_TERMINAL">>,
                      <<"MANIFEST_VERIFIED", "FAILED_TERMINAL">>} :
         Then(p, "next", ForItem(h, types))
  BY DEF InstallItemFails
<1>2. /\ types \in Seq(InstallEvents \cup FailureEvents) /\ types # <<>>
      /\ types[Len(types)] \in FailureEvents
  <2>1. CASE types = <<"FAILED_RETRYABLE">>
    BY <2>1 DEF FailureEvents
  <2>2. CASE types = <<"FAILED_TERMINAL">>
    BY <2>2 DEF FailureEvents
  <2>3. CASE types = <<"MANIFEST_VERIFIED", "FAILED_TERMINAL">>
    BY <2>3 DEF InstallEvents, FailureEvents
  <2> QED
    BY <2>1, <2>2, <2>3
<1>3. /\ pc[p] = "install" /\ outbox[p] = <<>> /\ todo[p] # <<>>
      /\ todo' = [todo EXCEPT ![p] = Tail(@)]
      /\ UNCHANGED <<epoch, reported, doc, seen, installed>>
  BY DEF InstallItemFails, At, IInv, IPass, PassOK
<1> HIDE DEF h
<1>4. /\ (IItems /\ IOutbox /\ IPass /\ IFirst)'
      /\ pc' \in [Procs -> Labels] /\ outbox' \in [Procs -> Seq(Receipt)]
      /\ todo' \in [Procs -> Seq(Packs)] /\ installed' \in [Procs -> SUBSET Packs]
      /\ pc'[p] = "next"
  BY <1>1, <1>2, <1>3, ToNext DEF h
<1>5. ITypes'
  <2>1. count' \in [stops : Nat, faults : Nat, drifts : Nat, starts : Nat]
    <3>1. Occurs("faults") /\ count \in [stops : Nat, faults : Nat, drifts : Nat, starts : Nat]
      BY DEF InstallItemFails, IInv, ITypes
    <3> QED
      BY <3>1 DEF Occurs
  <2> QED
    BY <1>3, <1>4, <2>1 DEF InstallItemFails, IInv, ITypes, OneProcess, adapterVars
<1> QED
  BY <1>3, <1>4, <1>5, ReportsUntouched DEF IInv

--------------------------------------------------------------------------------
(* From the last item to the end of the pass *)

LEMMA Peers ==
    ASSUME IInv, NEW p \in Procs, NEW q, q = PeersClosed(p)
    PROVE  /\ q \in Seq(Receipt)
           /\ \A i \in 1..Len(q) : q[i].type = "FAILED_RETRYABLE" /\ q[i].pack \in installed[p]
           /\ \A k \in installed[p] : \E i \in 1..Len(q) : q[i].pack = k
           /\ \A i, j \in 1..Len(q) : q[i].pack = q[j].pack => i = j
<1>1. installed[p] \subseteq Packs /\ IsFiniteSet(Packs)
  BY ReconcilerConstants DEF IInv, ITypes
<1>2. IsFiniteSet(installed[p])
  BY <1>1, FS_Subset
<1>3. PICK peers : peers = SetToSeq(installed[p])
  OBVIOUS
<1>4. /\ peers \in Seq(installed[p])
      /\ \A k \in installed[p] : \E i \in 1..Len(peers) : peers[i] = k
      /\ \A i, j \in 1..Len(peers) : peers[i] = peers[j] => i = j
  BY <1>2, <1>3, InSomeOrder
<1>5. q = [i \in 1..Len(peers) |->
              [pack |-> peers[i], type |-> "FAILED_RETRYABLE", claim |-> NoClaim]]
  BY <1>3, <1>4 DEF PeersClosed
<1>6. Len(peers) \in Nat /\ \A i \in 1..Len(peers) : peers[i] \in installed[p]
  BY <1>4
<1>7. "FAILED_RETRYABLE" \in EventTypes /\ NoClaim \in Claim
  BY Constants DEF FailureEvents
<1>8. q \in [1..Len(peers) -> Receipt]
  BY <1>1, <1>5, <1>6, <1>7 DEF Receipt
<1>9. q \in Seq(Receipt) /\ Len(q) = Len(peers)
  BY <1>5, <1>6, <1>8
<1> QED
  BY <1>4, <1>5, <1>6, <1>9

LEMMA CloseInstalledStep ==
    ASSUME OneProcess, IInv, NEW p \in Procs, CloseInstalled(p) PROVE IInv'
<1>1. \A q \in Procs : q = p
  BY DEF OneProcess
<1>2. /\ pc[p] = "next" /\ outbox[p] = <<>> /\ todo[p] = <<>>
      /\ Then(p, "finish", PeersClosed(p))
      /\ UNCHANGED <<epoch, reported, doc, seen, todo, installed>>
  BY DEF CloseInstalled, At
<1>3. PICK out : out = PeersClosed(p)
  OBVIOUS
<1>4. /\ out \in Seq(Receipt)
      /\ \A i \in 1..Len(out) : out[i].type = "FAILED_RETRYABLE" /\ out[i].pack \in installed[p]
      /\ \A k \in installed[p] : \E i \in 1..Len(out) : out[i].pack = k
      /\ \A i, j \in 1..Len(out) : out[i].pack = out[j].pack => i = j
  BY <1>3, Peers
<1>5. /\ outbox'[p] = out /\ pc'[p] = "finish"
      /\ pc' \in [Procs -> Labels] /\ outbox' \in [Procs -> Seq(Receipt)]
  BY <1>2, <1>3, <1>4 DEF Then, IInv, ITypes, Labels
<1>6. ITypes'
  BY <1>1, <1>2, <1>5 DEF CloseInstalled, IInv, ITypes, adapterVars
<1>7. IItems'
  BY <1>2 DEF IInv, IItems
<1>8. IOutbox'
  <2>1. ASSUME NEW i \in 1..Len(outbox'[p]) PROVE OutboxOK(p, i)'
    BY <1>4, <1>5, Constants DEF OutboxOK, RuntimeEvents
  <2> QED
    BY <1>1, <2>1 DEF IOutbox
<1>9. IPass'
  <2>1. ASSUME NEW k \in installed[p] PROVE After(p, k, Closed)'
    BY <1>4, <1>5, Constants DEF After
  <2>2. ASSUME NEW k \in Packs \ installed[p] PROVE After(p, k, Closed)'
    <3>1. last_event_type(<<doc[p], k>>) \in FailureEvents
      BY <1>2, AfterNothing DEF IInv, IPass, PassOK
    <3>2. last_event_type(<<doc[p], k>>)' \in Closed
      BY <1>2, <3>1 DEF last_event_type, Closed
    <3>3. \A i \in 1..Len(outbox'[p]) : outbox'[p][i].pack # k
      BY <1>4, <1>5, <2>2
    <3> QED
      BY <3>2, <3>3 DEF After
  <2>3. \A k \in Packs : After(p, k, Closed)'
    BY <2>1, <2>2
  <2> QED
    BY <1>1, <1>2, <1>5, <2>3 DEF IInv, IPass, PassOK
<1>10. IFirst'
  BY <1>1, <1>5 DEF IFirst
<1> QED
  BY <1>2, <1>6, <1>7, <1>8, <1>9, <1>10, ReportsUntouched DEF IInv

(* Half an exchange leaves the record of what is active, and of the runtime. *)
LEMMA HalfExchangeKeeps ==
    ASSUME NEW p \in Procs, active \in Nat, drifted \in BOOLEAN,
           lost \in BOOLEAN, lost => drifted /\ active # 0,
           UNCHANGED adapterVars \/ HalfExchanged(p)
    PROVE  /\ UNCHANGED <<active, runtime>> /\ drifted' \in BOOLEAN
           /\ lost' \in BOOLEAN /\ (lost' => drifted' /\ active' # 0)
<1>1. CASE UNCHANGED adapterVars
  BY <1>1 DEF adapterVars
<1>2. CASE HalfExchanged(p)
  <2>1. UNCHANGED <<active, runtime>> /\ active # 0
    BY <1>2 DEF HalfExchanged, Exchanges
  <2>2. drifted' \in BOOLEAN /\ lost' \in BOOLEAN /\ (lost' => drifted')
    BY <1>2 DEF HalfExchanged
  <2> QED
    BY <2>1, <2>2
<1> QED
  BY <1>1, <1>2

(* An adapter call fails or is put off. *)
LEMMA EndsAlike ==
    ASSUME OneProcess, IInv, NEW p \in Procs, pc[p] # "idle",
           NEW t \in Closed \ {"RUNTIME_ATTESTED"}, NEW c \in Claim,
           Then(p, "finish", ForAllItems(t, c)),
           UNCHANGED adapterVars \/ HalfExchanged(p),
           UNCHANGED <<published, epoch, reported, doc, auto, seen, todo,
                       installed, attestation>>,
           count' = count \/ Occurs("faults")
    PROVE  IInv'
<1>1. /\ (IItems /\ IOutbox /\ IPass /\ IFirst)'
      /\ pc' \in [Procs -> Labels] /\ outbox' \in [Procs -> Seq(Receipt)]
      /\ pc'[p] = "finish"
  BY ToFinish
<1>2. count' \in [stops : Nat, faults : Nat, drifts : Nat, starts : Nat]
  <2>1. count \in [stops : Nat, faults : Nat, drifts : Nat, starts : Nat]
    BY DEF IInv, ITypes
  <2> QED
    BY <2>1 DEF Occurs
<1>3. /\ UNCHANGED <<active, runtime>> /\ drifted' \in BOOLEAN
      /\ lost' \in BOOLEAN /\ (lost' => drifted' /\ active' # 0)
  BY Constants, HalfExchangeKeeps DEF IInv, ITypes
<1>4. ITypes'
  BY <1>1, <1>2, <1>3 DEF IInv, ITypes, OneProcess
<1> QED
  BY <1>1, <1>4, ReportsUntouched DEF IInv

LEMMA LeavePendingStep ==
    ASSUME OneProcess, IInv, NEW p \in Procs, LeavePending(p) PROVE IInv'
<1>1. "ACTIVATION_PENDING" \in Closed \ {"RUNTIME_ATTESTED"} /\ NoClaim \in Claim
  BY Constants
<1>2. pc[p] # "idle" /\ Then(p, "finish", ForAllItems("ACTIVATION_PENDING", NoClaim))
  BY DEF LeavePending, At
<1> QED
  BY <1>1, <1>2, EndsAlike DEF LeavePending

LEMMA ActivateFailsStep ==
    ASSUME OneProcess, IInv, NEW p \in Procs, ActivateFails(p) PROVE IInv'
<1>1. PICK t \in FailureEvents : Then(p, "finish", ForAllItems(t, NoClaim))
  BY DEF ActivateFails
<1>2. t \in Closed \ {"RUNTIME_ATTESTED"} /\ NoClaim \in Claim
  BY Constants DEF FailureEvents
<1>3. pc[p] # "idle"
  BY DEF ActivateFails, At
<1> QED
  BY <1>1, <1>2, <1>3, EndsAlike DEF ActivateFails

LEMMA AttestInvalidStep ==
    ASSUME OneProcess, IInv, NEW p \in Procs, AttestInvalid(p) PROVE IInv'
<1>1. PICK t \in {"FAILED_RETRYABLE", "FAILED_TERMINAL"} :
         Then(p, "finish", ForAllItems(t, NoClaim))
  BY DEF AttestInvalid
<1>2. t \in Closed \ {"RUNTIME_ATTESTED"} /\ NoClaim \in Claim
  BY Constants DEF FailureEvents
<1>3. pc[p] # "idle"
  BY DEF AttestInvalid, At
<1> QED
  BY <1>1, <1>2, <1>3, EndsAlike DEF AttestInvalid

LEMMA RuntimeCallFailsStep ==
    ASSUME OneProcess, IInv, NEW p \in Procs, RuntimeCallFails(p) PROVE IInv'
<1>1. PICK t \in FailureEvents : Then(p, "finish", ForAllItems(t, NoClaim))
  BY DEF RuntimeCallFails
<1>2. t \in Closed \ {"RUNTIME_ATTESTED"} /\ NoClaim \in Claim
  BY Constants DEF FailureEvents
<1>3. pc[p] # "idle"
  BY DEF RuntimeCallFails, At
<1> QED
  BY <1>1, <1>2, <1>3, EndsAlike DEF RuntimeCallFails

(* Nothing is left to report. *)
LEMMA NothingMore ==
    ASSUME OneProcess, IInv, NEW p \in Procs, pc[p] \in {"attest", "drift"}, outbox[p] = <<>>,
           Then(p, "finish", <<>>),
           UNCHANGED <<published, epoch, reported, adapterVars, doc, auto, seen, todo,
                       installed, attestation, count>>
    PROVE  IInv'
<1>1. \A q \in Procs : q = p
  BY DEF OneProcess
<1>2. /\ outbox'[p] = <<>> /\ pc'[p] = "finish" /\ Len(outbox'[p]) = 0
      /\ pc' \in [Procs -> Labels] /\ outbox' \in [Procs -> Seq(Receipt)]
  BY DEF Then, IInv, ITypes, Labels
<1>3. ITypes'
  BY <1>1, <1>2 DEF IInv, ITypes, adapterVars
<1>4. IItems'
  BY DEF IInv, IItems
<1>5. IOutbox'
  BY <1>1, <1>2 DEF IOutbox
<1>6. IPass'
  <2>1. \A k \in Packs : After(p, k, Closed)
    BY DEF IInv, IPass, PassOK
  <2>2. \A k \in Packs : After(p, k, Closed)'
    BY <1>2, <2>1, AfterKept
  <2> QED
    BY <1>1, <1>2, <2>2 DEF IInv, IPass, PassOK
<1>7. IFirst'
  BY <1>1, <1>2 DEF IFirst
<1> QED
  BY <1>3, <1>4, <1>5, <1>6, <1>7, ReportsUntouched DEF IInv

LEMMA AttestPendingStep ==
    ASSUME OneProcess, IInv, NEW p \in Procs, AttestPending(p) PROVE IInv'
BY NothingMore DEF AttestPending, At

LEMMA DetectDriftStep ==
    ASSUME OneProcess, IInv, NEW p \in Procs, DetectDrift(p) PROVE IInv'
<1>1. CASE Then(p, "finish", <<>>)
  BY <1>1, NothingMore DEF DetectDrift, At
<1>2. CASE Then(p, "finish", ForAllItems("DRIFT_DETECTED", attestation[p]))
  <2>1. "DRIFT_DETECTED" \in Closed \ {"RUNTIME_ATTESTED"} /\ attestation[p] \in Claim
    BY Constants DEF IInv, ITypes
  <2>2. pc[p] # "idle"
    BY DEF DetectDrift, At
  <2> QED
    BY <1>2, <2>1, <2>2, EndsAlike DEF DetectDrift
<1> QED
  BY <1>1, <1>2 DEF DetectDrift

(* A receipt for every item, and the runtime is looked at next. *)
LEMMA ToRuntime ==
    ASSUME OneProcess, IInv, NEW p \in Procs, NEW label, NEW t, NEW c \in Claim,
           \/ pc[p] = "next" /\ label = "attest" /\ t = "ACTIVATION_PENDING"
           \/ /\ pc[p] = "attest" /\ label = "drift" /\ t = "RUNTIME_ATTESTED"
              /\ outbox[p] = <<>>,
           Then(p, label, ForAllItems(t, c)),
           UNCHANGED <<epoch, reported, doc, seen, todo, installed>>
    PROVE  /\ (IItems /\ IOutbox /\ IPass /\ IFirst)'
           /\ pc' \in [Procs -> Labels] /\ outbox' \in [Procs -> Seq(Receipt)]
           /\ pc'[p] = label
<1>1. \A q \in Procs : q = p
  BY DEF OneProcess
<1>2. t \in EventTypes /\ t \in Closed /\ label \in {"attest", "drift"}
  BY Constants DEF RuntimeEvents
<1>3. /\ pc' \in [Procs -> Labels] /\ outbox' \in [Procs -> Seq(Receipt)]
      /\ pc'[p] = label /\ outbox'[p] = ForAllItems(t, c)
  BY <1>2, ForAll DEF IInv, ITypes, Then, Labels
<1>4. /\ \A i \in 1..Len(outbox'[p]) : outbox'[p][i].type = t /\ outbox'[p][i].pack = items[i]
      /\ \A i, j \in 1..Len(outbox'[p]) : outbox'[p][i].pack = outbox'[p][j].pack => i = j
      /\ \A i \in 1..Len(outbox'[p]) : outbox'[p][i].pack \in Packs
  <2>1. \A i \in 1..Len(outbox'[p]) : outbox'[p][i].type = t /\ outbox'[p][i].pack = items[i]
    BY <1>2, <1>3, ForAll
  <2>2. \A i, j \in 1..Len(outbox'[p]) : outbox'[p][i].pack = outbox'[p][j].pack => i = j
    BY <1>2, <1>3, <2>1, ForAll, Items
  <2>3. \A i \in 1..Len(outbox'[p]) : outbox'[p][i] \in Receipt
    BY <1>2, <1>3, ForAll
  <2> QED
    BY <2>1, <2>2, <2>3 DEF Receipt
<1>5. IItems'
  BY DEF IInv, IItems
<1>6. IOutbox'
  <2>1. ASSUME NEW i \in 1..Len(outbox'[p]) PROVE OutboxOK(p, i)'
    BY <1>3, <1>4 DEF OutboxOK
  <2> QED
    BY <1>1, <2>1 DEF IOutbox
<1>7. IPass'
  <2>1. \A k \in Packs : After(p, k, Closed)'
    BY <1>2, <1>3, AfterAll
  <2> QED
    BY <1>1, <1>2, <1>3, <2>1 DEF IInv, IPass, PassOK
<1>8. IFirst'
  <2>1. label = "attest" => \A k \in Packs : After(p, k, {"ACTIVATION_PENDING"})'
    BY <1>2, <1>3, AfterAll
  <2>2. ASSUME label = "drift", ~seen[p], NEW k \in Packs
        PROVE  last_event_type(<<doc[p], k>>)' = "ACTIVATION_PENDING"
    <3>1. After(p, k, {"ACTIVATION_PENDING"})
      BY <2>2 DEF IInv, IFirst
    <3>2. last_event_type(<<doc[p], k>>) = "ACTIVATION_PENDING"
      BY <2>2, <3>1, AfterNothing
    <3> QED
      BY <3>2 DEF last_event_type
  <2> QED
    BY <1>1, <1>3, <1>4, <2>1, <2>2 DEF IFirst
<1> QED
  BY <1>3, <1>5, <1>6, <1>7, <1>8

LEMMA ActivateStep ==
    ASSUME OneProcess, IInv, NEW p \in Procs, Activate(p) PROVE IInv'
<1>1. /\ pc[p] = "next" /\ Then(p, "attest", ForAllItems("ACTIVATION_PENDING", NoClaim))
      /\ UNCHANGED <<epoch, reported, doc, seen, todo, installed>>
  BY DEF Activate, At
<1>2. /\ (IItems /\ IOutbox /\ IPass /\ IFirst)'
      /\ pc' \in [Procs -> Labels] /\ outbox' \in [Procs -> Seq(Receipt)]
      /\ pc'[p] = "attest"
  BY <1>1, Constants, ToRuntime
<1>3. /\ active' \in 0..published /\ drifted' \in BOOLEAN
      /\ lost' \in BOOLEAN /\ (lost' => drifted' /\ active' # 0)
      /\ runtime' \in [gen : Nat, current : BOOLEAN]
  BY DEF Activate, IInv, ITypes
<1>4. ITypes'
  BY <1>1, <1>2, <1>3 DEF Activate, IInv, ITypes, OneProcess
<1> QED
  BY <1>1, <1>2, <1>4, ReportsUntouched DEF IInv

LEMMA AttestStep ==
    ASSUME OneProcess, IInv, NEW p \in Procs, Attest(p) PROVE IInv'
<1>1. PICK c : c = [gen |-> runtime.gen, inventory |-> active]
  OBVIOUS
<1>2. c \in Claim
  BY <1>1, Constants DEF IInv, ITypes, Claim
<1>3. attestation' = [attestation EXCEPT ![p] = c] /\ attestation'[p] = c
  BY <1>1 DEF Attest, IInv, ITypes
<1>4. /\ pc[p] = "attest" /\ outbox[p] = <<>>
      /\ Then(p, "drift", ForAllItems("RUNTIME_ATTESTED", c))
      /\ UNCHANGED <<epoch, reported, doc, seen, todo, installed>>
  BY <1>3 DEF Attest, At
<1>5. /\ (IItems /\ IOutbox /\ IPass /\ IFirst)'
      /\ pc' \in [Procs -> Labels] /\ outbox' \in [Procs -> Seq(Receipt)]
      /\ pc'[p] = "drift"
  BY <1>2, <1>4, ToRuntime
<1>6. attestation' \in [Procs -> Claim]
  BY <1>2, <1>3 DEF IInv, ITypes
<1>7. ITypes'
  BY <1>4, <1>5, <1>6 DEF Attest, IInv, ITypes, OneProcess, adapterVars
<1> QED
  BY <1>4, <1>5, <1>7, ReportsUntouched DEF IInv

(* _result records the epoch: each of its attempts has been closed. *)
LEMMA FinishStep ==
    ASSUME OneProcess, IInv, NEW p \in Procs, Finish(p) PROVE IInv'
<1>1. /\ pc[p] = "finish" /\ outbox[p] = <<>> /\ Leave(p)
      /\ epoch' = (IF seen[p] THEN epoch ELSE doc[p])
      /\ UNCHANGED <<published, reported, adapterVars, count>>
  BY DEF Finish, At
<1>2. /\ (IItems /\ IOutbox /\ IPass /\ IFirst)'
      /\ pc' \in [Procs -> Labels] /\ doc' \in [Procs -> 0..published]
      /\ auto' \in [Procs -> BOOLEAN] /\ seen' \in [Procs -> BOOLEAN]
      /\ todo' \in [Procs -> Seq(Packs)] /\ installed' \in [Procs -> SUBSET Packs]
      /\ attestation' \in [Procs -> Claim] /\ outbox' \in [Procs -> Seq(Receipt)]
      /\ pc'[p] = "idle" /\ doc'[p] = 0 /\ todo'[p] = <<>> /\ installed'[p] = {}
      /\ outbox'[p] = <<>> /\ ~seen'[p]
  BY <1>1, ToIdle
<1>3. doc[p] \in 0..published /\ epoch \in 0..published /\ published \in 0..MaxEpoch
  BY DEF IInv, ITypes
<1>4. ITypes'
  BY <1>1, <1>2, <1>3 DEF IInv, ITypes, OneProcess, adapterVars
<1>5. RecordedMeansReported'
  <2> SUFFICES ASSUME epoch' # 0, NEW k \in Packs
               PROVE  last_event_type(<<epoch, k>>)' \in Closed
    BY DEF RecordedMeansReported, Closed
  <2>1. CASE seen[p]
    <3>1. epoch' = epoch /\ last_event_type(<<epoch, k>>) \in Closed
      BY <1>1, <2>1 DEF IInv, RecordedMeansReported, Closed
    <3> QED
      BY <1>1, <3>1 DEF last_event_type
  <2>2. CASE ~seen[p]
    <3>1. After(p, k, Closed)
      BY <1>1 DEF IInv, IPass, PassOK
    <3>2. last_event_type(<<doc[p], k>>) \in Closed
      BY <1>1, <3>1, AfterNothing
    <3>3. epoch' = doc[p]
      BY <1>1, <2>2
    <3> QED
      BY <1>1, <3>2, <3>3 DEF last_event_type
  <2> QED
    BY <2>1, <2>2
<1>6. NoRepeatedAttestation'
  BY <1>1 DEF IInv, NoRepeatedAttestation
<1> QED
  BY <1>2, <1>4, <1>5, <1>6 DEF IInv

LEMMA CrashStep ==
    ASSUME OneProcess, IInv, NEW p \in Procs, Crash(p) PROVE IInv'
<1>1. /\ Leave(p) /\ Occurs("stops") /\ UNCHANGED <<published, epoch, reported>>
      /\ UNCHANGED adapterVars \/ HalfExchanged(p)
  BY DEF Crash
<1>2. /\ (IItems /\ IOutbox /\ IPass /\ IFirst)'
      /\ pc' \in [Procs -> Labels] /\ doc' \in [Procs -> 0..published]
      /\ auto' \in [Procs -> BOOLEAN] /\ seen' \in [Procs -> BOOLEAN]
      /\ todo' \in [Procs -> Seq(Packs)] /\ installed' \in [Procs -> SUBSET Packs]
      /\ attestation' \in [Procs -> Claim] /\ outbox' \in [Procs -> Seq(Receipt)]
      /\ pc'[p] = "idle" /\ doc'[p] = 0 /\ todo'[p] = <<>> /\ installed'[p] = {}
      /\ outbox'[p] = <<>> /\ ~seen'[p]
  BY <1>1, ToIdle
<1>3. count' \in [stops : Nat, faults : Nat, drifts : Nat, starts : Nat]
  <2>1. count \in [stops : Nat, faults : Nat, drifts : Nat, starts : Nat]
    BY DEF IInv, ITypes
  <2> QED
    BY <1>1, <2>1 DEF Occurs
<1>4. /\ UNCHANGED <<active, runtime>> /\ drifted' \in BOOLEAN
      /\ lost' \in BOOLEAN /\ (lost' => drifted' /\ active' # 0)
  BY <1>1, Constants, HalfExchangeKeeps DEF IInv, ITypes
<1>5. ITypes'
  BY <1>1, <1>2, <1>3, <1>4 DEF IInv, ITypes, OneProcess
<1> QED
  BY <1>1, <1>2, <1>5, ReportsUntouched DEF IInv

--------------------------------------------------------------------------------
(* Receipts are spooled, or fail to be *)

LEMMA SpoolStep ==
    ASSUME OneProcess, IInv, NEW p \in Procs, Spool(p) PROVE IInv'
<1>1. \A q \in Procs : q = p
  BY DEF OneProcess
<1>2. PICK q, r, d, e : q = outbox[p] /\ r = Head(q) /\ d = doc[p] /\ e = epoch
  OBVIOUS
<1>3. /\ q # <<>> /\ outbox' = [outbox EXCEPT ![p] = Tail(@)]
      /\ reported' = IF AlreadyAttested(p, r) THEN reported ELSE Appended(<<d, r.pack>>, r)
      /\ UNCHANGED <<published, epoch, adapterVars, pc, doc, auto, seen, todo, installed,
                     attestation, count>>
  BY <1>2 DEF Spool
<1>4. /\ q \in Seq(Receipt) /\ reported \in [Attempts -> Seq(Event)] /\ d \in Docs
      /\ outbox \in [Procs -> Seq(Receipt)] /\ pc[p] \in Labels
  BY <1>2, <1>3, Constants DEF IInv, ITypes, Docs
<1>5. /\ r \in Receipt /\ r = q[1] /\ 1 \in 1..Len(q) /\ Len(q) \in Nat
      /\ Tail(q) \in Seq(Receipt) /\ Len(Tail(q)) = Len(q) - 1
      /\ \A i \in 1..(Len(q) - 1) : Tail(q)[i] = q[i + 1]
  BY <1>2, <1>3, <1>4, HeadTail
<1>6. outbox' \in [Procs -> Seq(Receipt)] /\ outbox'[p] = Tail(q)
  BY <1>2, <1>3, <1>4, <1>5
<1>7. (RecordedMeansReported /\ NoRepeatedAttestation)' /\ reported' \in [Attempts -> Seq(Event)]
  <2>1. CASE AlreadyAttested(p, r)
    <3>1. reported' = reported
      BY <1>3, <2>1
    <3> QED
      BY <1>3, <1>4, <3>1, ReportsUntouched
  <2>2. CASE ~AlreadyAttested(p, r)
    <3>1. reported' = Appended(<<d, r.pack>>, r) /\ outbox[p] # <<>> /\ r = Head(outbox[p])
          /\ epoch' = e
      BY <1>2, <1>3, <2>2
    <3> QED
      BY <1>2, <2>2, <3>1, Reporting
  <2> QED
    BY <2>1, <2>2
<1>8. \A k \in Packs : \A T : After(p, k, T) => After(p, k, T)'
  <2> SUFFICES ASSUME NEW k \in Packs, NEW T, After(p, k, T) PROVE After(p, k, T)'
    OBVIOUS
  <2>1. outbox[p] = q /\ doc[p] = d /\ doc'[p] = d
    BY <1>2, <1>3
  <2> QED
    BY <1>2, <1>3, <1>4, <1>6, <2>1, AfterSpooled
<1>9. \A i \in 1..Len(outbox'[p]) : outbox'[p][i] = outbox[p][i + 1] /\ i + 1 \in 1..Len(outbox[p])
  BY <1>2, <1>5, <1>6
<1>10. outbox'[p] # <<>> => pc[p] # "idle"
  <2>1. outbox[p] # <<>>
    BY <1>2, <1>3
  <2> QED
    BY <2>1 DEF IInv, ITypes
<1>11. ITypes'
  <2>1. pc[p] # "idle"
    BY <1>2, <1>3 DEF IInv, ITypes
  <2> QED
    BY <1>1, <1>3, <1>6, <1>7, <2>1 DEF IInv, ITypes, adapterVars
<1>12. IItems'
  BY <1>3 DEF IInv, IItems
<1>13. IOutbox'
  <2> SUFFICES ASSUME NEW i \in 1..Len(outbox'[p]) PROVE OutboxOK(p, i)'
    BY <1>1 DEF IOutbox
  <2>1. OutboxOK(p, i + 1) /\ outbox'[p][i] = outbox[p][i + 1] /\ i \in Nat
    BY <1>9 DEF IInv, IOutbox
  <2>2. ASSUME \A j \in 1..Len(outbox[p]) : outbox[p][j].pack = outbox[p][i + 1].pack
        PROVE  \A j \in 1..Len(outbox'[p]) : outbox'[p][j].pack = outbox'[p][i].pack
    BY <1>9, <2>1, <2>2
  <2>3. ASSUME \A j \in 1..Len(outbox[p]) :
                  outbox[p][j].pack = outbox[p][i + 1].pack => i + 1 = j,
               NEW j \in 1..Len(outbox'[p]), outbox'[p][j].pack = outbox'[p][i].pack
        PROVE  i = j
    <3>1. j + 1 \in 1..Len(outbox[p]) /\ outbox'[p][j] = outbox[p][j + 1] /\ j \in Nat
      BY <1>9
    <3>2. outbox[p][j + 1].pack = outbox[p][i + 1].pack
      BY <2>1, <2>3, <3>1
    <3>3. i + 1 = j + 1
      BY <2>3, <3>1, <3>2
    <3> QED
      BY <2>1, <3>1, <3>3
  <2> QED
    BY <1>3, <2>1, <2>2, <2>3 DEF OutboxOK
<1>14. IPass'
  <2>1. PassOK(p)
    BY DEF IInv, IPass
  <2>2. UNCHANGED <<epoch, pc, doc, seen, todo, installed>>
    BY <1>3
  <2>3. \A k \in Packs :
           /\ After(p, k, {"INSTALL_COMMITTED"}) => After(p, k, {"INSTALL_COMMITTED"})'
           /\ After(p, k, FailureEvents) => After(p, k, FailureEvents)'
           /\ After(p, k, Closed) => After(p, k, Closed)'
    BY <1>8 DEF FailureEvents, Closed, RuntimeEvents
  <2>4. installed[p] \subseteq Packs
    BY DEF IInv, ITypes
  <2>5. PassOK(p)'
    BY <2>1, <2>2, <2>3, <2>4 DEF PassOK
  <2> QED
    BY <1>1, <2>5 DEF IPass
<1>15. IFirst'
  <2>1. ASSUME ~seen[p], pc[p] = "drift", NEW i \in 1..Len(outbox'[p]),
               NEW k, k = outbox'[p][i].pack
        PROVE  last_event_type(<<d, k>>)' = "ACTIVATION_PENDING"
    <3>1. k \in Packs /\ last_event_type(<<d, k>>) = "ACTIVATION_PENDING"
      <4>1. i + 1 \in 1..Len(outbox[p]) /\ outbox[p][i + 1].pack = k /\ outbox[p][i + 1] \in Receipt
        BY <1>4, <1>9, <2>1
      <4> QED
        BY <1>2, <2>1, <4>1 DEF IInv, IFirst, Receipt
    <3>2. k # r.pack
      <4>1. i + 1 \in 1..Len(q) /\ q[i + 1].pack = k /\ i + 1 # 1
        BY <1>2, <1>9, <2>1
      <4>2. \A j \in 1..Len(q) : q[j].pack = q[1].pack => 1 = j
        BY <1>2, <1>5, <2>1 DEF IInv, IOutbox, OutboxOK
      <4> QED
        BY <1>5, <4>1, <4>2
    <3>3. <<d, k>> \in Attempts /\ <<d, r.pack>> \in Attempts /\ <<d, k>> # <<d, r.pack>>
      BY <1>4, <1>5, <3>1, <3>2 DEF Attempts, Receipt
    <3>4. last_event_type(<<d, k>>)' = last_event_type(<<d, k>>)
      <4>1. CASE reported' = reported
        BY <4>1 DEF last_event_type
      <4>2. CASE reported' = Appended(<<d, r.pack>>, r)
        BY <1>4, <1>5, <3>3, <4>2, LastAppended
      <4> QED
        BY <1>3, <4>1, <4>2
    <3> QED
      BY <3>1, <3>4
  <2>2. ASSUME ~seen[p], pc[p] = "attest", NEW k \in Packs
        PROVE  After(p, k, {"ACTIVATION_PENDING"})'
    BY <1>8, <2>2 DEF IInv, IFirst
  <2>3. ASSUME ~seen[p], pc[p] = "drift", NEW i \in 1..Len(outbox'[p])
        PROVE  last_event_type(<<doc[p], outbox[p][i].pack>>)' = "ACTIVATION_PENDING"
    <3>1. PICK k : k = outbox'[p][i].pack
      OBVIOUS
    <3>2. last_event_type(<<d, k>>)' = "ACTIVATION_PENDING"
      BY <2>1, <2>3, <3>1
    <3>3. doc'[p] = d
      BY <1>2, <1>3
    <3> QED
      BY <3>1, <3>2, <3>3 DEF last_event_type
  <2> QED
    BY <1>1, <1>3, <2>2, <2>3 DEF IFirst
<1> QED
  BY <1>7, <1>11, <1>12, <1>13, <1>14, <1>15 DEF IInv

(* append raised while an item was being reported: the item has failed. *)
LEMMA ItemGivenUp ==
    ASSUME OneProcess, IInv, NEW p \in Procs, outbox[p] # <<>>,
           NEW r, r = Head(outbox[p]), NEW d, d = doc[p],
           r.type \in InstallEvents,
           reported' \in {reported, Appended(<<d, r.pack>>, r)},
           Then(p, "next", ForItem(r.pack, <<"FAILED_RETRYABLE">>)),
           installed' = [installed EXCEPT ![p] = @ \ {r.pack}],
           UNCHANGED <<epoch, doc, seen, todo>>
    PROVE  /\ (IItems /\ IOutbox /\ IPass /\ IFirst)'
           /\ pc' \in [Procs -> Labels] /\ outbox' \in [Procs -> Seq(Receipt)]
           /\ installed' \in [Procs -> SUBSET Packs] /\ pc'[p] = "next"
<1>1. \A q \in Procs : q = p
  BY DEF OneProcess
<1>2. /\ r \in Receipt /\ r = outbox[p][1] /\ 1 \in 1..Len(outbox[p])
      /\ reported \in [Attempts -> Seq(Event)]
      /\ pc[p] \in Labels /\ pc[p] # "idle" /\ d \in Docs
  <2>1. outbox[p] \in Seq(Receipt) /\ reported \in [Attempts -> Seq(Event)]
    BY DEF IInv, ITypes
  <2>2. pc[p] \in Labels /\ pc[p] # "idle" /\ d \in Docs
    BY Constants DEF IInv, ITypes, Docs
  <2> QED
    BY <2>1, <2>2, HeadTail
<1>3. PICK h, types : h = r.pack /\ types = <<"FAILED_RETRYABLE">>
  OBVIOUS
<1>4. h \in Packs /\ types \in Seq(EventTypes) /\ Len(types) = 1 /\ types[1] = "FAILED_RETRYABLE"
  BY <1>2, <1>3, Constants DEF Receipt, FailureEvents
<1>5. /\ ForItem(h, types) \in Seq(Receipt) /\ Len(ForItem(h, types)) = 1
      /\ ForItem(h, types)[1].pack = h /\ ForItem(h, types)[1].type = "FAILED_RETRYABLE"
  <2>1. 1 \in 1..Len(types)
    BY <1>4
  <2> QED
    BY <1>4, <2>1, ForOne
<1>6. /\ pc' \in [Procs -> Labels] /\ outbox' \in [Procs -> Seq(Receipt)]
      /\ installed' \in [Procs -> SUBSET Packs] /\ pc'[p] = "next"
      /\ outbox'[p] = ForItem(h, types) /\ installed'[p] = installed[p] \ {h}
  BY <1>3, <1>5 DEF Then, IInv, ITypes, Labels
<1>a. /\ Len(outbox'[p]) = 1 /\ 1 \in 1..Len(outbox'[p]) /\ \A i \in 1..Len(outbox'[p]) : i = 1
      /\ outbox'[p][1].pack = h /\ outbox'[p][1].type = "FAILED_RETRYABLE"
  <2>1. Len(outbox'[p]) = 1 /\ outbox'[p][1].pack = h /\ outbox'[p][1].type = "FAILED_RETRYABLE"
    BY <1>5, <1>6
  <2> QED
    BY <2>1
<1>7. pc[p] = "next"
  <2>1. OutboxOK(p, 1)
    BY <1>2 DEF IInv, IOutbox
  <2>2. r.type \notin Closed /\ r.type # "DESIRED_SEEN" /\ r.type # "RUNTIME_ATTESTED"
        /\ r.type # "ACTIVATION_PENDING"
    BY Constants DEF InstallEvents
  <2> QED
    BY <1>2, <2>1, <2>2 DEF OutboxOK, Labels
<1>8. /\ \A j \in 1..Len(todo[p]) : todo[p][j] # h
      /\ \A i \in 1..Len(outbox[p]) : outbox[p][i].pack = h
  <2>1. OutboxOK(p, 1)
    BY <1>2 DEF IInv, IOutbox
  <2> QED
    BY <1>2, <1>3, <1>7, <2>1 DEF OutboxOK
<1>9. IItems'
  BY <1>1, <1>6 DEF IInv, IItems
<1>10. IOutbox'
  <2>1. \A j \in 1..Len(outbox'[p]) : outbox'[p][j].pack = outbox'[p][1].pack
    BY <1>a
  <2>2. OutboxOK(p, 1)'
    BY <1>6, <1>8, <1>9, <1>a, <2>1 DEF OutboxOK, RuntimeEvents, FailureEvents
  <2>3. ASSUME NEW i \in 1..Len(outbox'[p]) PROVE OutboxOK(p, i)'
    BY <1>a, <2>2
  <2> QED
    BY <1>1, <2>3 DEF IOutbox
<1>11. IPass'
  <2>1. After(p, h, FailureEvents)'
    BY <1>a DEF After, FailureEvents
  <2>2. ASSUME NEW k \in Packs \ {h}, NEW T, After(p, k, T) PROVE After(p, k, T)'
    <3>1. last_event_type(<<d, k>>) \in T
      BY <1>8, <2>2 DEF After
    <3>2. <<d, k>> \in Attempts /\ <<d, h>> \in Attempts /\ <<d, k>> # <<d, h>>
      BY <1>2, <1>4 DEF Attempts
    <3>3. last_event_type(<<d, k>>)' = last_event_type(<<d, k>>)
      <4>1. CASE reported' = reported
        BY <4>1 DEF last_event_type
      <4>2. CASE reported' = Appended(<<d, h>>, r)
        <5>1. \A b \in Attempts \ {<<d, h>>} : last_event_type(b)' = last_event_type(b)
          BY <1>2, <3>2, <4>2, LastAppended
        <5> QED
          BY <3>2, <5>1
      <4> QED
        BY <1>3, <4>1, <4>2
    <3>4. last_event_type(<<doc[p], k>>)' \in T
      BY <3>1, <3>3 DEF last_event_type
    <3> QED
      BY <1>a, <3>4 DEF After
  <2>3. /\ ~seen[p] /\ doc[p] > epoch
        /\ \A k \in installed[p] : After(p, k, {"INSTALL_COMMITTED"})
        /\ \A k \in Packs \ installed[p] :
              (\A i \in 1..Len(todo[p]) : todo[p][i] # k) => After(p, k, FailureEvents)
    BY <1>7 DEF IInv, IPass, PassOK
  <2>4. \A k \in installed'[p] : After(p, k, {"INSTALL_COMMITTED"})'
    BY <1>6, <2>2, <2>3
  <2>5. \A k \in Packs \ installed'[p] :
           (\A i \in 1..Len(todo[p]) : todo[p][i] # k) => After(p, k, FailureEvents)'
    <3> SUFFICES ASSUME NEW k \in Packs, k \notin installed'[p],
                        \A i \in 1..Len(todo[p]) : todo[p][i] # k
                 PROVE  After(p, k, FailureEvents)'
      OBVIOUS
    <3>1. CASE k = h
      BY <2>1, <3>1
    <3>2. CASE k # h
      BY <1>6, <2>2, <2>3, <3>2
    <3> QED
      BY <3>1, <3>2
  <2> QED
    <3>1. PassOK(p)'
      BY <1>6, <2>3, <2>4, <2>5 DEF PassOK
    <3> QED
      BY <1>1, <3>1 DEF IPass
<1>12. IFirst'
  BY <1>1, <1>6 DEF IFirst
<1> QED
  BY <1>6, <1>9, <1>10, <1>11, <1>12

LEMMA SpoolFailsStep ==
    ASSUME OneProcess, IInv, NEW p \in Procs, SpoolFails(p) PROVE IInv'
<1>1. PICK r, d, e : r = Head(outbox[p]) /\ d = doc[p] /\ e = epoch
  OBVIOUS
<1>2. /\ outbox[p] # <<>> /\ Occurs("stops") /\ ~AlreadyAttested(p, r)
      /\ reported' \in {reported, Appended(<<d, r.pack>>, r)}
      /\ UNCHANGED <<published, epoch, adapterVars>>
  BY <1>1 DEF SpoolFails
<1>3. pc[p] # "idle"
  BY <1>2 DEF IInv, ITypes
<1>4. (RecordedMeansReported /\ NoRepeatedAttestation)' /\ reported' \in [Attempts -> Seq(Event)]
  <2>1. CASE reported' = reported
    BY <1>2, <2>1, ReportsUntouched DEF IInv, ITypes
  <2>2. CASE reported' = Appended(<<d, r.pack>>, r)
    <3>1. epoch' = e
      BY <1>1, <1>2
    <3> QED
      BY <1>1, <1>2, <2>2, <3>1, Reporting
  <2> QED
    BY <1>2, <2>1, <2>2
<1>5. count' \in [stops : Nat, faults : Nat, drifts : Nat, starts : Nat]
  <2>1. count \in [stops : Nat, faults : Nat, drifts : Nat, starts : Nat]
    BY DEF IInv, ITypes
  <2> QED
    BY <1>2, <2>1 DEF Occurs
<1>6. CASE /\ r.type \in InstallEvents
           /\ Then(p, "next", ForItem(r.pack, <<"FAILED_RETRYABLE">>))
           /\ installed' = [installed EXCEPT ![p] = @ \ {r.pack}]
           /\ UNCHANGED <<doc, auto, seen, todo, attestation>>
  <2>1. /\ (IItems /\ IOutbox /\ IPass /\ IFirst)'
        /\ pc' \in [Procs -> Labels] /\ outbox' \in [Procs -> Seq(Receipt)]
        /\ installed' \in [Procs -> SUBSET Packs] /\ pc'[p] = "next"
    BY <1>1, <1>2, <1>6, ItemGivenUp
  <2>2. ITypes'
    BY <1>2, <1>3, <1>4, <1>5, <1>6, <2>1 DEF IInv, ITypes, OneProcess, adapterVars
  <2> QED
    BY <1>4, <2>1, <2>2 DEF IInv
<1>7. CASE /\ Then(p, "finish", ForAllItems("FAILED_RETRYABLE", NoClaim))
           /\ UNCHANGED <<doc, auto, seen, todo, installed, attestation>>
  <2>1. "FAILED_RETRYABLE" \in Closed \ {"RUNTIME_ATTESTED"} /\ NoClaim \in Claim
    BY Constants
  <2>2. /\ (IItems /\ IOutbox /\ IPass /\ IFirst)'
        /\ pc' \in [Procs -> Labels] /\ outbox' \in [Procs -> Seq(Receipt)]
        /\ pc'[p] = "finish"
    BY <1>2, <1>3, <1>7, <2>1, ToFinish
  <2>3. ITypes'
    BY <1>2, <1>3, <1>4, <1>5, <1>7, <2>2 DEF IInv, ITypes, OneProcess, adapterVars
  <2> QED
    BY <1>4, <2>2, <2>3 DEF IInv
<1>8. CASE Leave(p)
  <2>1. /\ (IItems /\ IOutbox /\ IPass /\ IFirst)'
        /\ pc' \in [Procs -> Labels] /\ doc' \in [Procs -> 0..published]
        /\ auto' \in [Procs -> BOOLEAN] /\ seen' \in [Procs -> BOOLEAN]
        /\ todo' \in [Procs -> Seq(Packs)] /\ installed' \in [Procs -> SUBSET Packs]
        /\ attestation' \in [Procs -> Claim] /\ outbox' \in [Procs -> Seq(Receipt)]
        /\ pc'[p] = "idle" /\ doc'[p] = 0 /\ todo'[p] = <<>> /\ installed'[p] = {}
        /\ outbox'[p] = <<>> /\ ~seen'[p]
    BY <1>8, ToIdle
  <2>2. ITypes'
    BY <1>2, <1>4, <1>5, <2>1 DEF IInv, ITypes, OneProcess, adapterVars
  <2> QED
    BY <1>4, <2>1, <2>2 DEF IInv
<1> QED
  BY <1>1, <1>6, <1>7, <1>8 DEF SpoolFails

--------------------------------------------------------------------------------
(* The theorems *)

LEMMA InitInv == Init => IInv
<1> SUFFICES ASSUME Init PROVE IInv
  OBVIOUS
<1>1. ITypes
  <2>1. /\ reported \in [Attempts -> Seq(Event)] /\ todo \in [Procs -> Seq(Packs)]
        /\ outbox \in [Procs -> Seq(Receipt)]
    BY DEF Init
  <2>2. attestation \in [Procs -> Claim]
    BY Constants DEF Init
  <2>3. /\ published \in 0..MaxEpoch /\ epoch \in 0..published /\ active \in 0..published
        /\ doc \in [Procs -> 0..published]
    BY Constants DEF Init
  <2> QED
    BY <2>1, <2>2, <2>3 DEF Init, ITypes, Labels
<1>2. \A p \in Procs : Len(outbox[p]) = 0 /\ Len(todo[p]) = 0 /\ pc[p] = "idle"
  BY DEF Init
<1>3. IItems /\ IOutbox /\ IPass /\ IFirst
  BY <1>2 DEF IItems, IOutbox, IPass, PassOK, IFirst
<1>4. \A a \in Attempts : Len(reported[a]) = 0
  BY DEF Init
<1>5. RecordedMeansReported /\ NoRepeatedAttestation
  BY <1>4 DEF Init, RecordedMeansReported, NoRepeatedAttestation
<1> QED
  BY <1>1, <1>3, <1>5 DEF IInv

LEMMA StepInv == OneProcess /\ IInv /\ [Next]_vars => IInv'
<1> SUFFICES ASSUME OneProcess, IInv, [Next]_vars PROVE IInv'
  OBVIOUS
<1>1. CASE Publish
  BY <1>1, PublishStep
<1>2. CASE RuntimeStart
  BY <1>2, RuntimeStartStep
<1>3. CASE Tamper
  BY <1>3, TamperStep
<1>4. ASSUME NEW p \in Procs, NEW d \in Delivered, Begin(p, d) \/ Resume(p, d) PROVE IInv'
  BY <1>4, BeginStep, ResumeStep
<1>5. ASSUME NEW p \in Procs, Step(p) PROVE IInv'
  <2>1. CASE NextItem(p) \/ InstallItem(p) \/ InstallItemFails(p)
    BY <2>1, NextItemStep, InstallItemStep, InstallItemFailsStep
  <2>2. CASE CloseInstalled(p) \/ LeavePending(p) \/ Activate(p) \/ ActivateFails(p)
    BY <2>2, CloseInstalledStep, LeavePendingStep, ActivateStep, ActivateFailsStep
  <2>3. CASE Attest(p) \/ AttestPending(p) \/ AttestInvalid(p)
    BY <2>3, AttestStep, AttestPendingStep, AttestInvalidStep
  <2>4. CASE DetectDrift(p) \/ RuntimeCallFails(p)
    BY <2>4, DetectDriftStep, RuntimeCallFailsStep
  <2>5. CASE Spool(p) \/ Finish(p)
    BY <2>5, SpoolStep, FinishStep
  <2> QED
    BY <1>5, <2>1, <2>2, <2>3, <2>4, <2>5 DEF Step
<1>6. ASSUME NEW p \in Procs, SpoolFails(p) \/ Crash(p) PROVE IInv'
  BY <1>6, SpoolFailsStep, CrashStep
<1>7. CASE UNCHANGED vars
  <2>1. UNCHANGED <<epoch, reported, procVars>>
    BY <1>7 DEF vars
  <2>2. ITypes'
    BY <1>7 DEF IInv, ITypes, vars, adapterVars, procVars
  <2> QED
    BY <2>1, <2>2, PassUntouched DEF IInv
<1> QED
  BY <1>1, <1>2, <1>3, <1>4, <1>5, <1>6, <1>7 DEF Next

(* What a pass holds agrees with what was reported, and with the record of  *)
(* the epoch, after any crashes and failures.                               *)
THEOREM Invariant == OneProcess /\ Spec => []IInv
<1> SUFFICES ASSUME OneProcess PROVE Spec => []IInv
  OBVIOUS
<1>1. IInv /\ [Next]_vars => IInv'
  BY StepInv
<1> QED
  BY <1>1, InitInv, PTL DEF Spec

(* The variables hold what they should, and an item that is installed is no *)
(* However many passes are killed or fail while they report, two            *)
(* attestations in a row of one attempt are of different generations.       *)
THEOREM AttestationsDiffer == OneProcess /\ Spec => []NoRepeatedAttestation
<1>1. IInv => NoRepeatedAttestation
  BY DEF IInv
<1> QED
  BY <1>1, Invariant, PTL

(* The epoch that reconcile-state.json records leaves no attempt open at    *)
(* its installation: each was carried on to the runtime or has failed.      *)
THEOREM RecordedIsReported == OneProcess /\ Spec => []RecordedMeansReported
<1>1. IInv => RecordedMeansReported
  BY DEF IInv
<1> QED
  BY <1>1, Invariant, PTL

(* activate_inventory is only called for a document all of whose packs were *)
(* committed, and reported so, in the same pass.                            *)
THEOREM ActivatedWhenInstalled == OneProcess /\ Spec => ActivationFollowsInstall
<1> SUFFICES ASSUME OneProcess PROVE Spec => ActivationFollowsInstall
  OBVIOUS
<1>1. ASSUME IInv, [Next]_vars, active' # active, NEW k \in Packs
      PROVE  last_event_type(<<active', k>>) = "INSTALL_COMMITTED"
  <2>1. PICK p \in Procs : Activate(p)
    BY <1>1 DEF Next, Step, Publish, RuntimeStart, Tamper, Begin, Resume, NextItem, InstallItem,
       InstallItemFails, CloseInstalled, LeavePending, ActivateFails, HalfExchanged, Attest,
       AttestPending, AttestInvalid, DetectDrift, RuntimeCallFails, Spool, SpoolFails, Finish, Crash,
       adapterVars, vars
  <2>2. /\ pc[p] = "next" /\ outbox[p] = <<>> /\ k \in installed[p] /\ active' = doc[p]
    BY <1>1, <2>1 DEF Activate, At, AllInstalled
  <2>3. After(p, k, {"INSTALL_COMMITTED"})
    BY <1>1, <2>2 DEF IInv, IPass, PassOK
  <2>4. last_event_type(<<doc[p], k>>) = "INSTALL_COMMITTED"
    BY <2>2, <2>3, AfterNothing
  <2> QED
    BY <2>2, <2>4
<1>2. IInv /\ [Next]_vars =>
         [active' # active =>
             \A k \in Packs : last_event_type(<<active', k>>) = "INSTALL_COMMITTED"]_vars
  BY <1>1
<1>3. Spec => []IInv
  BY Invariant
<1> QED
  BY <1>2, <1>3, PTL DEF Spec, ActivationFollowsInstall

--------------------------------------------------------------------------------
(* While no pass is killed *)

(* Documents that nobody works on, and what was reported, stay as they are. *)
LEMMA OthersUntouched ==
    ASSUME Unkilled, UNCHANGED <<epoch, reported, doc>>
    PROVE  (IOver /\ IFresh /\ FailureIsTerminal)'
<1>1. \A d \in Docs : AllOrNone(d) => AllOrNone(d)'
  BY DEF AllOrNone, last_event_type
<1>2. (IOver /\ IFresh)'
  BY <1>1 DEF Unkilled, IOver, IFresh
<1> QED
  BY <1>2 DEF Unkilled, FailureIsTerminal

LEMMA Undisturbed ==
    ASSUME Unkilled, UNCHANGED <<epoch, reported, active, pc, doc, todo, outbox>>
    PROVE  Unkilled'
<1>1. \A p \in Procs, k \in Packs : \A T : After(p, k, T) => After(p, k, T)'
  BY AfterKept
<1>2. \A p \in Procs : (ToDoOK(p) /\ OpenOK(p))'
  BY <1>1 DEF Unkilled, ToDoOK, OpenOK, last_event_type
<1>3. IActive'
  BY DEF Unkilled, IActive
<1> QED
  BY <1>2, <1>3, OthersUntouched DEF Unkilled

LEMMA BeginOpen ==
    ASSUME OneProcess, IInv, Unkilled, NEW p \in Procs, NEW d \in Delivered, Begin(p, d)
    PROVE  Unkilled'
<1>1. \A q \in Procs : q = p
  BY DEF OneProcess
<1>2. /\ d \in Docs /\ d > epoch /\ pc[p] = "idle" /\ doc[p] = 0
      /\ epoch \in Nat /\ active \in Nat
  BY Constants DEF Begin, _check_epoch, Delivered, IInv, ITypes, Docs
<1>3. /\ todo'[p] = items /\ pc'[p] = "next" /\ doc'[p] = d /\ outbox'[p] = <<>>
      /\ UNCHANGED <<epoch, active, reported>>
  BY <1>2 DEF Begin, IInv, ITypes, adapterVars
<1>4. \A k \in Packs : reported[<<d, k>>] = <<>>
  BY <1>1, <1>2 DEF Unkilled, IFresh, Docs
<1>5. IOver'
  <2> SUFFICES ASSUME NEW e \in Docs, \A q \in Procs : doc'[q] # e PROVE AllOrNone(e)'
    BY DEF IOver
  <2>1. AllOrNone(e)
    BY <1>1, <1>2 DEF Unkilled, IOver, Docs
  <2> QED
    BY <1>3, <2>1 DEF AllOrNone, last_event_type
<1>6. IFresh'
  BY <1>1, <1>2, <1>3 DEF Unkilled, IFresh, Docs
<1>7. IActive'
  BY <1>1, <1>2, <1>3 DEF Unkilled, IActive
<1>8. FailureIsTerminal'
  BY <1>3 DEF Unkilled, FailureIsTerminal
<1>9. ToDoOK(p)'
  <2>1. \A i \in 1..Len(todo'[p]) : todo'[p][i] \in Packs
    BY <1>3, Items
  <2> QED
    BY <1>3, <1>4, <2>1 DEF ToDoOK
<1>10. OpenOK(p)'
  BY <1>3 DEF OpenOK
<1> QED
  BY <1>1, <1>5, <1>6, <1>7, <1>8, <1>9, <1>10 DEF Unkilled

LEMMA ResumeOpen ==
    ASSUME OneProcess, IInv, Unkilled, NEW p \in Procs, NEW d \in Delivered, Resume(p, d)
    PROVE  Unkilled'
<1>1. \A q \in Procs : q = p
  BY DEF OneProcess
<1>2. /\ d \in Docs /\ d = epoch /\ pc[p] = "idle" /\ doc[p] = 0
      /\ epoch \in Nat /\ active \in Nat
  BY Constants DEF Resume, Delivered, IInv, ITypes, Docs
<1>3. /\ pc'[p] = "attest" /\ doc'[p] = d /\ outbox'[p] = <<>> /\ Len(outbox'[p]) = 0
      /\ UNCHANGED <<epoch, active, reported>>
  BY <1>2 DEF Resume, IInv, ITypes, adapterVars
<1>4. \A k \in Packs : last_event_type(<<d, k>>) \in Unfailed
  <2> SUFFICES ASSUME NEW k \in Packs PROVE last_event_type(<<d, k>>) \in Unfailed
    OBVIOUS
  <2>1. <<d, k>> \in Attempts
    BY <1>2 DEF Attempts
  <2>2. last_event_type(<<d, k>>) \in EventTypes \cup {""}
    BY <2>1, LastType DEF IInv, ITypes
  <2> QED
    BY <2>2 DEF Resume, Resumable, Unfailed
<1>5. IOver'
  <2> SUFFICES ASSUME NEW e \in Docs, \A q \in Procs : doc'[q] # e PROVE AllOrNone(e)'
    BY DEF IOver
  <2>1. AllOrNone(e)
    BY <1>1, <1>2 DEF Unkilled, IOver, Docs
  <2> QED
    BY <1>3, <2>1 DEF AllOrNone, last_event_type
<1>6. IFresh'
  BY <1>1, <1>2, <1>3 DEF Unkilled, IFresh, Docs
<1>7. IActive'
  BY <1>1, <1>2, <1>3 DEF Unkilled, IActive
<1>8. FailureIsTerminal'
  BY <1>3 DEF Unkilled, FailureIsTerminal
<1>9. ToDoOK(p)'
  BY <1>3 DEF ToDoOK
<1>10. OpenOK(p)'
  <2>1. ASSUME NEW k \in Packs PROVE After(p, k, Unfailed)'
    <3>1. reported'[<<doc'[p], k>>] = reported[<<d, k>>]
      BY <1>3
    <3>2. last_event_type(<<doc[p], k>>)' = last_event_type(<<d, k>>)
      BY <3>1 DEF last_event_type
    <3> QED
      BY <1>3, <1>4, <3>2 DEF After
  <2> QED
    BY <1>3, <2>1 DEF OpenOK
<1> QED
  BY <1>1, <1>5, <1>6, <1>7, <1>8, <1>9, <1>10 DEF Unkilled

(* Receipts for one item, which has not failed before; it may now. *)
LEMMA ItemOpen ==
    ASSUME OneProcess, IInv, Unkilled, NEW p \in Procs, NEW h \in Packs,
           NEW types \in Seq(EventTypes),
           \A i, j \in 1..Len(types) : i < j => types[i] \notin FailureEvents,
           last_event_type(<<doc[p], h>>) \in Unfailed,
           pc'[p] \in {"next", "install"}, outbox'[p] = ForItem(h, types),
           UNCHANGED <<epoch, reported, active, doc>>,
           ToDoOK(p)'
    PROVE  Unkilled'
<1>1. \A q \in Procs : q = p
  BY DEF OneProcess
<1>2. /\ Len(outbox'[p]) = Len(types)
      /\ \A i \in 1..Len(types) : outbox'[p][i].pack = h /\ outbox'[p][i].type = types[i]
  BY ForOne
<1>3. OpenOK(p)'
  <2>1. \A i \in 1..Len(outbox'[p]) : last_event_type(<<doc[p], outbox[p][i].pack>>)' \in Unfailed
    BY <1>2 DEF last_event_type
  <2>2. \A i, j \in 1..Len(outbox'[p]) : i < j => outbox'[p][i].type \notin FailureEvents
    BY <1>2
  <2> QED
    BY <2>1, <2>2 DEF OpenOK
<1>4. IActive'
  BY DEF Unkilled, IActive
<1> QED
  BY <1>1, <1>3, <1>4, OthersUntouched DEF Unkilled

LEMMA NextItemOpen ==
    ASSUME OneProcess, IInv, Unkilled, NEW p \in Procs, NextItem(p) PROVE Unkilled'
<1>1. PICK h, types : h = Head(todo[p]) /\ types = <<"DESIRED_SEEN">>
  OBVIOUS
<1>2. /\ todo[p] \in Seq(Packs) /\ todo[p] # <<>> /\ pc[p] = "next"
      /\ types \in Seq(EventTypes) /\ Len(types) = 1
      /\ pc'[p] = "install" /\ outbox'[p] = ForItem(h, types)
      /\ UNCHANGED <<epoch, reported, active, doc, todo>>
  BY <1>1, Constants DEF NextItem, At, Then, IInv, ITypes, adapterVars
<1>3. h \in Packs /\ h = todo[p][1] /\ 1 \in 1..Len(todo[p]) /\ Len(todo[p]) \in Nat
  BY <1>1, <1>2, HeadTail
<1>4. \A i \in 1..Len(todo[p]) : reported[<<doc[p], todo[p][i]>>] = <<>>
  BY <1>2 DEF Unkilled, ToDoOK
<1>5. last_event_type(<<doc[p], h>>) \in Unfailed
  BY <1>3, <1>4, Constants DEF last_event_type, Unfailed, FailureEvents
<1>6. ToDoOK(p)'
  <2>1. \A i \in 2..Len(todo[p]) : i \in 1..Len(todo[p])
    BY <1>3
  <2>2. last_event_type(<<doc[p], Head(todo[p])>>)' \in Unfailed
    BY <1>1, <1>2, <1>5 DEF last_event_type
  <2> QED
    BY <1>2, <1>4, <2>1, <2>2 DEF ToDoOK
<1>7. \A i, j \in 1..Len(types) : i < j => types[i] \notin FailureEvents
  BY <1>2
<1> QED
  BY <1>2, <1>3, <1>5, <1>6, <1>7, ItemOpen

LEMMA InstallOpen ==
    ASSUME OneProcess, IInv, Unkilled, NEW p \in Procs, InstallItem(p) \/ InstallItemFails(p)
    PROVE  Unkilled'
<1>1. PICK types \in {<<"MANIFEST_VERIFIED", "ARTIFACT_VERIFIED", "INSTALL_COMMITTED">>,
                      <<"FAILED_RETRYABLE">>, <<"FAILED_TERMINAL">>,
                      <<"MANIFEST_VERIFIED", "FAILED_TERMINAL">>} :
         Then(p, "next", ForItem(Head(todo[p]), types))
  BY DEF InstallItem, InstallItemFails
<1>2. PICK h : h = Head(todo[p])
  OBVIOUS
<1>3. PICK rest : rest = Tail(todo[p])
  OBVIOUS
<1>4. /\ types \in Seq(EventTypes)
      /\ \A i, j \in 1..Len(types) : i < j => types[i] \notin FailureEvents
  <2>1. CASE types = <<"MANIFEST_VERIFIED", "ARTIFACT_VERIFIED", "INSTALL_COMMITTED">>
    BY <2>1 DEF EventTypes, InstallEvents, FailureEvents
  <2>2. CASE types = <<"FAILED_RETRYABLE">>
    BY <2>2 DEF EventTypes, FailureEvents
  <2>3. CASE types = <<"FAILED_TERMINAL">>
    BY <2>3 DEF EventTypes, FailureEvents
  <2>4. CASE types = <<"MANIFEST_VERIFIED", "FAILED_TERMINAL">>
    BY <2>4 DEF EventTypes, InstallEvents, FailureEvents
  <2> QED
    BY <1>1, <2>1, <2>2, <2>3, <2>4
<1>5. /\ pc[p] = "install" /\ todo[p] \in Seq(Packs) /\ todo[p] # <<>>
      /\ pc'[p] = "next" /\ outbox'[p] = ForItem(h, types) /\ todo'[p] = rest
      /\ UNCHANGED <<epoch, reported, active, doc>>
  BY <1>1, <1>2, <1>3 DEF InstallItem, InstallItemFails, At, Then, IInv, ITypes, IPass, PassOK,
     adapterVars
<1>6. /\ h \in Packs /\ Len(rest) = Len(todo[p]) - 1 /\ Len(todo[p]) \in Nat
      /\ \A i \in 1..(Len(todo[p]) - 1) : rest[i] = todo[p][i + 1]
  BY <1>2, <1>3, <1>5, HeadTail
<1>7. last_event_type(<<doc[p], h>>) \in Unfailed
  BY <1>2, <1>5 DEF Unkilled, ToDoOK
<1>8. ToDoOK(p)'
  <2>1. \A i \in 1..Len(rest) : rest[i] = todo[p][i + 1] /\ i + 1 \in 2..Len(todo[p])
    BY <1>6
  <2>2. \A i \in 2..Len(todo[p]) : reported[<<doc[p], todo[p][i]>>] = <<>>
    BY <1>5 DEF Unkilled, ToDoOK
  <2> QED
    BY <1>5, <2>1, <2>2 DEF ToDoOK
<1> QED
  BY <1>4, <1>5, <1>6, <1>7, <1>8, ItemOpen


(* A receipt for every item, none of which has failed before. *)
LEMMA ItemsOpen ==
    ASSUME OneProcess, IInv, Unkilled, NEW p \in Procs,
           NEW label \in {"attest", "drift", "finish"}, NEW t \in EventTypes, NEW c \in Claim,
           t \in FailureEvents => label = "finish",
           \A k \in Packs : last_event_type(<<doc[p], k>>) \in Unfailed,
           Then(p, label, ForAllItems(t, c)),
           UNCHANGED <<epoch, reported, doc>>, active' \in {active, doc[p]}
    PROVE  Unkilled'
<1>1. \A q \in Procs : q = p
  BY DEF OneProcess
<1>2. pc'[p] = label /\ outbox'[p] = ForAllItems(t, c)
  BY DEF Then, IInv, ITypes
<1>3. /\ \A i \in 1..Len(outbox'[p]) : outbox'[p][i].pack \in Packs
      /\ \A i, j \in 1..Len(outbox'[p]) : outbox'[p][i].pack = outbox'[p][j].pack => i = j
  <2>1. \A i \in 1..Len(outbox'[p]) : outbox'[p][i].pack = items[i]
    BY <1>2, ForAll
  <2>2. \A i, j \in 1..Len(outbox'[p]) : outbox'[p][i].pack = outbox'[p][j].pack => i = j
    BY <1>2, <2>1, ForAll, Items
  <2>3. \A i \in 1..Len(outbox'[p]) : outbox'[p][i] \in Receipt
    BY <1>2, ForAll
  <2> QED
    BY <2>2, <2>3 DEF Receipt
<1>4. OpenOK(p)'
  <2>1. \A i \in 1..Len(outbox'[p]) : last_event_type(<<doc[p], outbox[p][i].pack>>)' \in Unfailed
    BY <1>3 DEF last_event_type
  <2>2. CASE t \in FailureEvents
    <3>1. \A k \in Packs : After(p, k, FailureEvents)'
      BY <1>2, <2>2, AfterAll
    <3>2. \A i, j \in 1..Len(outbox'[p]) : i < j => outbox'[p][i].pack # outbox'[p][j].pack
      BY <1>3
    <3> QED
      BY <1>2, <2>1, <2>2, <3>1, <3>2 DEF OpenOK
  <2>3. CASE t \notin FailureEvents
    <3>1. \A k \in Packs : After(p, k, Unfailed)'
      BY <1>2, <2>3, AfterAll DEF Unfailed
    <3>2. \A i, j \in 1..Len(outbox'[p]) : i < j => outbox'[p][i].pack # outbox'[p][j].pack
      BY <1>3
    <3> QED
      BY <2>1, <3>1, <3>2 DEF OpenOK
  <2> QED
    BY <2>2, <2>3
<1>5. ToDoOK(p)'
  BY <1>2 DEF ToDoOK
<1>6. IActive'
  BY DEF Unkilled, IActive
<1> QED
  BY <1>1, <1>4, <1>5, <1>6, OthersUntouched DEF Unkilled

LEMMA InstalledOpen ==
    ASSUME OneProcess, IInv, Unkilled, NEW p \in Procs,
           LeavePending(p) \/ Activate(p) \/ ActivateFails(p)
    PROVE  Unkilled'
<1>1. /\ pc[p] = "next" /\ outbox[p] = <<>> /\ installed[p] = Packs
      /\ UNCHANGED <<epoch, reported, doc>> /\ active' \in {active, doc[p]}
  BY DEF LeavePending, Activate, ActivateFails, HalfExchanged, At, AllInstalled, adapterVars
<1>2. \A k \in Packs : last_event_type(<<doc[p], k>>) \in Unfailed
  <2> SUFFICES ASSUME NEW k \in Packs PROVE last_event_type(<<doc[p], k>>) \in Unfailed
    OBVIOUS
  <2>1. After(p, k, {"INSTALL_COMMITTED"})
    BY <1>1 DEF IInv, IPass, PassOK
  <2>2. last_event_type(<<doc[p], k>>) = "INSTALL_COMMITTED"
    BY <1>1, <2>1, AfterNothing
  <2> QED
    BY <2>2 DEF Unfailed, EventTypes, InstallEvents, FailureEvents
<1>3. CASE LeavePending(p) \/ Activate(p)
  <2>1. PICK label \in {"attest", "finish"} :
           Then(p, label, ForAllItems("ACTIVATION_PENDING", NoClaim))
    BY <1>3 DEF LeavePending, Activate
  <2>2. "ACTIVATION_PENDING" \in EventTypes /\ "ACTIVATION_PENDING" \notin FailureEvents
    BY Constants DEF RuntimeEvents, FailureEvents
  <2> QED
    BY <1>1, <1>2, <2>1, <2>2, ItemsOpen, Constants
<1>4. CASE ActivateFails(p)
  <2>1. PICK t \in FailureEvents : Then(p, "finish", ForAllItems(t, NoClaim))
    BY <1>4 DEF ActivateFails
  <2> QED
    BY <1>1, <1>2, <2>1, ItemsOpen, Constants
<1> QED
  BY <1>3, <1>4

(* The pass ends with nothing more to report. *)
LEMMA QuietOpen ==
    ASSUME OneProcess, IInv, Unkilled, NEW p \in Procs,
           pc[p] \in {"attest", "drift"}, outbox[p] = <<>>, Then(p, "finish", <<>>),
           UNCHANGED <<epoch, reported, doc, active>>
    PROVE  Unkilled'
<1>1. \A q \in Procs : q = p
  BY DEF OneProcess
<1>2. pc'[p] = "finish" /\ outbox'[p] = <<>> /\ Len(outbox'[p]) = 0
  BY DEF Then, IInv, ITypes
<1>3. \A k \in Packs : After(p, k, Unfailed)
  BY DEF Unkilled, OpenOK
<1>4. \A k \in Packs : After(p, k, Unfailed)'
  BY <1>2, <1>3, AfterKept
<1>5. OpenOK(p)' /\ ToDoOK(p)'
  BY <1>2, <1>4 DEF OpenOK, ToDoOK
<1>6. IActive'
  BY DEF Unkilled, IActive
<1> QED
  BY <1>1, <1>5, <1>6, OthersUntouched DEF Unkilled

LEMMA AttestPendingOpen ==
    ASSUME OneProcess, IInv, Unkilled, NEW p \in Procs, AttestPending(p) PROVE Unkilled'
BY QuietOpen DEF AttestPending, At, adapterVars

LEMMA RuntimeOpen ==
    ASSUME OneProcess, IInv, Unkilled, NEW p \in Procs,
           Attest(p) \/ AttestInvalid(p) \/ RuntimeCallFails(p) \/ DetectDrift(p)
    PROVE  Unkilled'
<1>1. /\ pc[p] \in {"attest", "drift"} /\ outbox[p] = <<>>
      /\ UNCHANGED <<epoch, reported, doc, active, todo>>
  BY DEF Attest, AttestInvalid, RuntimeCallFails, DetectDrift, At, adapterVars
<1>2. \A k \in Packs : last_event_type(<<doc[p], k>>) \in Unfailed
  BY <1>1, AfterNothing DEF Unkilled, OpenOK
<1>3. CASE Attest(p)
  <2>1. PICK c : c = [gen |-> runtime.gen, inventory |-> active]
    OBVIOUS
  <2>2. c \in Claim
    BY <2>1 DEF Claim, IInv, ITypes
  <2>3. Then(p, "drift", ForAllItems("RUNTIME_ATTESTED", c))
    BY <1>3, <2>1 DEF Attest, IInv, ITypes
  <2>4. "RUNTIME_ATTESTED" \in EventTypes /\ "RUNTIME_ATTESTED" \notin FailureEvents
    BY Constants DEF RuntimeEvents, FailureEvents
  <2> QED
    BY <1>1, <1>2, <2>2, <2>3, <2>4, ItemsOpen
<1>4. CASE AttestInvalid(p) \/ RuntimeCallFails(p)
  <2>1. PICK t \in FailureEvents : Then(p, "finish", ForAllItems(t, NoClaim))
    BY <1>4 DEF AttestInvalid, RuntimeCallFails, FailureEvents
  <2> QED
    BY <1>1, <1>2, <2>1, ItemsOpen, Constants
<1>5. CASE DetectDrift(p) /\ Then(p, "finish", ForAllItems("DRIFT_DETECTED", attestation[p]))
  <2>1. "DRIFT_DETECTED" \in EventTypes /\ "DRIFT_DETECTED" \notin FailureEvents
    BY Constants DEF RuntimeEvents, FailureEvents
  <2>2. attestation[p] \in Claim
    BY DEF IInv, ITypes
  <2> QED
    BY <1>1, <1>2, <1>5, <2>1, <2>2, ItemsOpen
<1>6. CASE DetectDrift(p) /\ Then(p, "finish", <<>>)
  BY <1>1, <1>6, QuietOpen
<1> QED
  BY <1>3, <1>4, <1>5, <1>6 DEF DetectDrift


(* The attempts of the packs that were installed fail with the others. *)
LEMMA CloseOpen ==
    ASSUME OneProcess, IInv, Unkilled, NEW p \in Procs, CloseInstalled(p) PROVE Unkilled'
<1>1. \A q \in Procs : q = p
  BY DEF OneProcess
<1>2. PICK out : out = PeersClosed(p)
  OBVIOUS
<1>3. /\ pc[p] = "next" /\ outbox[p] = <<>> /\ todo[p] = <<>> /\ Len(todo[p]) = 0
      /\ pc'[p] = "finish" /\ outbox'[p] = out
      /\ UNCHANGED <<epoch, reported, doc, active>>
  BY <1>2 DEF CloseInstalled, At, Then, IInv, ITypes, adapterVars
<1>4. /\ \A i \in 1..Len(out) : out[i].type = "FAILED_RETRYABLE" /\ out[i].pack \in installed[p]
      /\ \A k \in installed[p] : \E i \in 1..Len(out) : out[i].pack = k
      /\ \A i, j \in 1..Len(out) : out[i].pack = out[j].pack => i = j
  BY <1>2, Peers
<1>5. \A k \in installed[p] : last_event_type(<<doc[p], k>>) = "INSTALL_COMMITTED"
  BY <1>3, AfterNothing DEF IInv, IPass, PassOK
<1>6. \A k \in Packs \ installed[p] : last_event_type(<<doc[p], k>>) \in FailureEvents
  BY <1>3, AfterNothing DEF IInv, IPass, PassOK
<1>7. OpenOK(p)'
  <2>1. ASSUME NEW k \in installed[p] PROVE After(p, k, FailureEvents)'
    BY <1>3, <1>4 DEF After, FailureEvents
  <2>2. ASSUME NEW k \in Packs \ installed[p] PROVE After(p, k, FailureEvents)'
    <3>1. last_event_type(<<doc[p], k>>)' \in FailureEvents
      BY <1>3, <1>6 DEF last_event_type
    <3>2. \A i \in 1..Len(outbox'[p]) : outbox'[p][i].pack # k
      BY <1>3, <1>4, <2>2
    <3> QED
      BY <3>1, <3>2 DEF After
  <2>3. \A k \in Packs : After(p, k, FailureEvents)'
    BY <2>1, <2>2
  <2>4. ASSUME NEW i \in 1..Len(outbox'[p])
        PROVE  last_event_type(<<doc[p], outbox[p][i].pack>>)' \in Unfailed
    <3>1. last_event_type(<<doc[p], out[i].pack>>) = "INSTALL_COMMITTED"
      BY <1>3, <1>4, <1>5
    <3>2. last_event_type(<<doc[p], outbox[p][i].pack>>)' = "INSTALL_COMMITTED"
      BY <1>3, <3>1 DEF last_event_type
    <3> QED
      BY <3>2 DEF Unfailed, EventTypes, InstallEvents, FailureEvents
  <2>5. \A i, j \in 1..Len(outbox'[p]) : i < j => outbox'[p][i].pack # outbox'[p][j].pack
    BY <1>3, <1>4
  <2> QED
    BY <1>3, <2>3, <2>4, <2>5 DEF OpenOK
<1>8. ToDoOK(p)'
  BY <1>3 DEF ToDoOK
<1>9. IActive'
  BY <1>3 DEF Unkilled, IActive
<1> QED
  BY <1>1, <1>3, <1>7, <1>8, <1>9, OthersUntouched DEF Unkilled

LEMMA SpoolOpen ==
    ASSUME OneProcess, IInv, Unkilled, NEW p \in Procs, Spool(p) PROVE Unkilled'
<1>1. \A q \in Procs : q = p
  BY DEF OneProcess
<1>2. PICK out, r, d : out = outbox[p] /\ r = Head(outbox[p]) /\ d = doc[p]
  OBVIOUS
<1>3. PICK rest : rest = Tail(out)
  OBVIOUS
<1>4. PICK a : a = <<d, r.pack>>
  OBVIOUS
<1>5. /\ out \in Seq(Receipt) /\ out # <<>> /\ reported \in [Attempts -> Seq(Event)]
      /\ outbox'[p] = rest
      /\ reported' = IF AlreadyAttested(p, r) THEN reported ELSE Appended(a, r)
      /\ UNCHANGED <<epoch, active, pc, doc, todo>>
  BY <1>2, <1>3, <1>4 DEF Spool, IInv, ITypes, adapterVars
<1>6. /\ r \in Receipt /\ r = out[1] /\ 1 \in 1..Len(out) /\ rest \in Seq(Receipt)
      /\ Len(rest) = Len(out) - 1 /\ Len(out) \in Nat
      /\ \A i \in 1..(Len(out) - 1) : rest[i] = out[i + 1]
  BY <1>2, <1>3, <1>5, HeadTail
<1>7. d \in Docs /\ pc[p] # "idle" /\ r.pack \in Packs /\ r.type \in EventTypes
  BY <1>2, <1>5, <1>6, Constants DEF IInv, ITypes, Docs, Receipt
<1>8. a \in Attempts
  BY <1>4, <1>7 DEF Attempts
<1>9. last_event_type(a) \in Unfailed
  BY <1>2, <1>4, <1>6 DEF Unkilled, OpenOK
<1>10. last_event_type(a)' = r.type
  <2>1. CASE AlreadyAttested(p, r)
    <3>1. r.type = "RUNTIME_ATTESTED" /\ last_event_type(a) = "RUNTIME_ATTESTED"
      BY <1>2, <1>4, <2>1 DEF AlreadyAttested
    <3> QED
      BY <1>5, <2>1, <3>1 DEF last_event_type
  <2>2. CASE ~AlreadyAttested(p, r)
    BY <1>5, <1>6, <1>8, <2>2, LastAppended
  <2> QED
    BY <2>1, <2>2
<1>11. \A b \in Attempts \ {a} :
          reported'[b] = reported[b] /\ last_event_type(b)' = last_event_type(b)
  <2>1. CASE AlreadyAttested(p, r)
    BY <1>5, <2>1 DEF last_event_type
  <2>2. CASE ~AlreadyAttested(p, r)
    BY <1>5, <1>6, <1>8, <2>2, LastAppended
  <2> QED
    BY <2>1, <2>2
<1>12. FailureIsTerminal'
  <2>1. CASE AlreadyAttested(p, r)
    BY <1>5, <2>1 DEF Unkilled, FailureIsTerminal
  <2>2. CASE ~AlreadyAttested(p, r)
    <3> SUFFICES ASSUME NEW b \in Attempts, NEW i \in 1..(Len(reported'[b]) - 1)
                 PROVE  reported'[b][i].type \notin FailureEvents
      BY DEF FailureIsTerminal
    <3>1. CASE b # a
      <4>1. reported'[b] = reported[b]
        BY <1>11, <3>1
      <4> QED
        BY <4>1 DEF Unkilled, FailureIsTerminal
    <3>2. CASE b = a
      <4>1. /\ Len(reported'[b]) = Len(reported[a]) + 1
            /\ \A n \in 1..Len(reported[a]) : reported'[b][n] = reported[a][n]
        BY <1>5, <1>6, <1>8, <2>2, <3>2, LastAppended
      <4>2. reported[a] \in Seq(Event) /\ Len(reported[a]) \in Nat
        BY <1>5, <1>8
      <4>3. i \in 1..Len(reported[a]) /\ reported'[b][i] = reported[a][i]
        BY <4>1, <4>2
      <4>4. CASE i < Len(reported[a])
        <5>1. i \in 1..(Len(reported[a]) - 1)
          BY <4>2, <4>3, <4>4
        <5> QED
          BY <1>8, <4>3, <5>1 DEF Unkilled, FailureIsTerminal
      <4>5. CASE i = Len(reported[a])
        <5>1. reported[a] # <<>>
          BY <4>2, <4>3, <4>5
        <5>2. reported[a][i].type = last_event_type(a)
          BY <1>5, <1>8, <4>5, <5>1, LastType
        <5> QED
          BY <1>9, <4>3, <5>2 DEF Unfailed
      <4> QED
        BY <4>2, <4>3, <4>4, <4>5
    <3> QED
      BY <3>1, <3>2
  <2> QED
    BY <2>1, <2>2
<1>13. \A i \in 1..Len(rest) : rest[i] = out[i + 1] /\ i + 1 \in 1..Len(out) /\ 1 < i + 1
  BY <1>6
<1>14. OpenOK(p)'
  <2>1. ASSUME NEW k \in Packs, NEW T, After(p, k, T) PROVE After(p, k, T)'
    BY <1>2, <1>3, <1>4, <1>5, <1>7, <2>1, AfterSpooled
  <2>2. ASSUME NEW i \in 1..Len(rest)
        PROVE  last_event_type(<<d, rest[i].pack>>)' \in Unfailed
    <3>0. rest[i] \in Receipt
      BY <1>6, <2>2
    <3>1. rest[i].pack \in Packs
      BY <3>0 DEF Receipt
    <3>2. CASE rest[i].pack = r.pack
      <4>1. r.type \notin FailureEvents
        BY <1>2, <1>6, <1>13, <3>2 DEF Unkilled, OpenOK
      <4> QED
        BY <1>4, <1>7, <1>10, <3>2, <4>1 DEF Unfailed
    <3>3. CASE rest[i].pack # r.pack
      <4>1. <<d, rest[i].pack>> \in Attempts \ {a}
        BY <1>4, <1>7, <3>1, <3>3 DEF Attempts
      <4>2. last_event_type(<<d, rest[i].pack>>) \in Unfailed
        BY <1>2, <1>13 DEF Unkilled, OpenOK
      <4> QED
        BY <1>11, <4>1, <4>2
    <3> QED
      BY <3>2, <3>3
  <2>3. \A i \in 1..Len(outbox'[p]) : last_event_type(<<doc[p], outbox[p][i].pack>>)' \in Unfailed
    BY <1>2, <1>5, <2>2
  <2>4. ASSUME NEW i \in 1..Len(rest), NEW j \in 1..Len(rest), i < j, rest[i].pack = rest[j].pack
        PROVE  rest[i].type \notin FailureEvents
    <3>1. i + 1 < j + 1
      BY <2>4
    <3> QED
      BY <1>2, <1>13, <2>4, <3>1 DEF Unkilled, OpenOK
  <2>5. pc[p] \in {"attest", "drift"} => \A k \in Packs : After(p, k, Unfailed)'
    BY <2>1 DEF Unkilled, OpenOK
  <2>6. pc[p] = "finish" =>
           \/ \A k \in Packs : After(p, k, FailureEvents)'
           \/ \A k \in Packs : After(p, k, Unfailed)'
    BY <2>1 DEF Unkilled, OpenOK
  <2> QED
    BY <1>5, <2>3, <2>4, <2>5, <2>6 DEF OpenOK
<1>15. \A k \in Packs : k # r.pack => <<d, k>> \in Attempts \ {a}
  BY <1>4, <1>7 DEF Attempts
<1>16. todo[p] \in Seq(Packs) /\ \A i \in 1..Len(todo[p]) : todo[p][i] \in Packs
  BY DEF IInv, ITypes
<1>17. ToDoOK(p)'
  <2>1. CASE pc[p] = "next"
    <3>1. \A i \in 1..Len(todo[p]) : todo[p][i] # r.pack
      BY <1>2, <1>6, <2>1 DEF IInv, IOutbox, OutboxOK
    <3>2. \A i \in 1..Len(todo[p]) : reported'[<<d, todo[p][i]>>] = reported[<<d, todo[p][i]>>]
      BY <1>11, <1>15, <1>16, <3>1
    <3> QED
      BY <1>2, <1>5, <2>1, <3>2 DEF Unkilled, ToDoOK
  <2>2. CASE pc[p] = "install"
    <3>1. todo[p] # <<>> /\ r.pack = Head(todo[p]) /\ r.type = "DESIRED_SEEN"
      BY <1>2, <1>6, <2>2 DEF IInv, IOutbox, OutboxOK
    <3>2. Head(todo[p]) = todo[p][1] /\ 1 \in 1..Len(todo[p]) /\ Len(todo[p]) \in Nat
      BY <1>16, <3>1, HeadTail
    <3>3. \A i \in 2..Len(todo[p]) : i \in 1..Len(todo[p]) /\ i # 1
      BY <3>2
    <3>4. \A i \in 2..Len(todo[p]) : todo[p][i] # r.pack
      BY <3>1, <3>2, <3>3 DEF IInv, IItems
    <3>5. \A i \in 2..Len(todo[p]) : reported'[<<d, todo[p][i]>>] = reported[<<d, todo[p][i]>>]
      BY <1>11, <1>15, <1>16, <3>3, <3>4
    <3>6. last_event_type(a)' \in Unfailed
      BY <1>10, <3>1, Constants DEF Unfailed, FailureEvents
    <3>7. last_event_type(<<doc[p], Head(todo[p])>>)' \in Unfailed
      <4>1. reported'[<<doc'[p], Head(todo'[p])>>] = reported'[a]
        BY <1>2, <1>4, <1>5, <3>1
      <4> QED
        BY <3>6, <4>1 DEF last_event_type
    <3> QED
      BY <1>2, <1>5, <2>2, <3>5, <3>7 DEF Unkilled, ToDoOK
  <2>3. CASE pc[p] \notin {"next", "install"}
    BY <1>5, <2>3 DEF ToDoOK
  <2> QED
    BY <2>1, <2>2, <2>3
<1>18. \A e \in Docs, k \in Packs : e # d => <<e, k>> \in Attempts \ {a}
  BY <1>4 DEF Attempts
<1>19. IOver'
  <2> SUFFICES ASSUME NEW e \in Docs, \A q \in Procs : doc'[q] # e PROVE AllOrNone(e)'
    BY DEF IOver
  <2>1. AllOrNone(e) /\ e # d
    BY <1>2, <1>5 DEF Unkilled, IOver
  <2>2. \A k \in Packs : last_event_type(<<e, k>>)' = last_event_type(<<e, k>>)
    BY <1>11, <1>18, <2>1
  <2> QED
    BY <2>1, <2>2 DEF AllOrNone
<1>20. IFresh'
  <2> SUFFICES ASSUME NEW e \in Docs, NEW k \in Packs, e > epoch, \A q \in Procs : doc[q] # e
               PROVE  reported'[<<e, k>>] = <<>>
    BY <1>5 DEF IFresh
  <2>1. reported[<<e, k>>] = <<>> /\ e # d
    BY <1>2 DEF Unkilled, IFresh
  <2> QED
    BY <1>11, <1>18, <2>1
<1>21. IActive'
  BY <1>5 DEF Unkilled, IActive
<1> QED
  BY <1>1, <1>12, <1>14, <1>17, <1>19, <1>20, <1>21 DEF Unkilled

(* The record of the epoch is written when no attempt is half failed. *)
LEMMA FinishOpen ==
    ASSUME OneProcess, IInv, Unkilled, NEW p \in Procs, Finish(p) PROVE Unkilled'
<1>1. \A q \in Procs : q = p
  BY DEF OneProcess
<1>2. PICK d : d = doc[p]
  OBVIOUS
<1>3. /\ pc[p] = "finish" /\ outbox[p] = <<>> /\ Leave(p)
      /\ UNCHANGED <<reported, active>>
      /\ epoch \in Nat /\ active \in Nat /\ d \in Nat
  BY <1>2, Constants DEF Finish, At, IInv, ITypes, adapterVars
<1>4. epoch' = d /\ epoch' >= epoch
  BY <1>2, <1>3 DEF Finish, IInv, IPass, PassOK
<1>5. pc'[p] = "idle" /\ doc'[p] = 0 /\ outbox'[p] = <<>> /\ Len(outbox'[p]) = 0
  BY <1>3, ToIdle
<1>6. AllOrNone(d)
  BY <1>2, <1>3, AfterNothing DEF Unkilled, OpenOK, AllOrNone
<1>7. IOver'
  <2> SUFFICES ASSUME NEW e \in Docs, \A q \in Procs : doc'[q] # e PROVE AllOrNone(e)'
    BY DEF IOver
  <2>1. AllOrNone(e)
    BY <1>1, <1>2, <1>6 DEF Unkilled, IOver
  <2> QED
    BY <1>3, <2>1 DEF AllOrNone, last_event_type
<1>8. IFresh'
  <2> SUFFICES ASSUME NEW e \in Docs, NEW k \in Packs, e > d PROVE reported[<<e, k>>] = <<>>
    BY <1>3, <1>4 DEF IFresh
  <2>1. e > epoch /\ e # d
    BY <1>3, <1>4 DEF Docs
  <2> QED
    BY <1>1, <1>2, <2>1 DEF Unkilled, IFresh
<1>9. IActive'
  <2>1. active <= epoch'
    BY <1>1, <1>2, <1>3, <1>4 DEF Unkilled, IActive
  <2> QED
    BY <1>3, <2>1 DEF IActive
<1>10. FailureIsTerminal'
  BY <1>3 DEF Unkilled, FailureIsTerminal
<1>11. ToDoOK(p)' /\ OpenOK(p)'
  BY <1>5 DEF ToDoOK, OpenOK
<1> QED
  BY <1>1, <1>7, <1>8, <1>9, <1>10, <1>11 DEF Unkilled


--------------------------------------------------------------------------------
(* The last three promises *)

UInv == EveryPassEnded => Unkilled

LEMMA Counting ==
    ASSUME IInv
    PROVE  /\ count.stops \in Nat
           /\ \A what \in {"faults", "drifts", "starts"} :
                 Occurs(what) => count'.stops = count.stops
           /\ Occurs("stops") => count'.stops = count.stops + 1
<1>1. count \in [stops : Nat, faults : Nat, drifts : Nat, starts : Nat]
  BY DEF IInv, ITypes
<1>2. Occurs("faults") => count'.stops = count.stops
  BY <1>1 DEF Occurs
<1>3. Occurs("drifts") => count'.stops = count.stops
  BY <1>1 DEF Occurs
<1>4. Occurs("starts") => count'.stops = count.stops
  BY <1>1 DEF Occurs
<1>5. Occurs("stops") => count'.stops = count.stops + 1
  BY <1>1 DEF Occurs
<1> QED
  BY <1>1, <1>2, <1>3, <1>4, <1>5

LEMMA StepUnkilled == OneProcess /\ IInv /\ UInv /\ [Next]_vars => UInv'
<1> SUFFICES ASSUME OneProcess, IInv, UInv, [Next]_vars, count'.stops = 0 PROVE Unkilled'
  BY DEF UInv, EveryPassEnded
<1>1. ASSUME count'.stops = count.stops PROVE Unkilled
  BY <1>1 DEF UInv, EveryPassEnded
<1>2. ASSUME NEW p \in Procs PROVE ~SpoolFails(p) /\ ~Crash(p)
  <2>1. ~Occurs("stops")
    BY Counting
  <2> QED
    BY <2>1 DEF SpoolFails, Crash
<1>3. CASE Publish \/ RuntimeStart \/ Tamper \/ UNCHANGED vars
  <2>1. UNCHANGED <<epoch, reported, active, pc, doc, todo, outbox>>
    BY <1>3 DEF Publish, RuntimeStart, Tamper, vars, adapterVars, procVars
  <2>2. count'.stops = count.stops
    BY <1>3, Counting DEF Publish, RuntimeStart, Tamper, vars
  <2> QED
    BY <1>1, <2>1, <2>2, Undisturbed
<1>4. ASSUME NEW p \in Procs, NEW d \in Delivered, Begin(p, d) \/ Resume(p, d) PROVE Unkilled'
  <2>1. count' = count
    BY <1>4 DEF Begin, Resume
  <2> QED
    BY <1>1, <1>4, <2>1, BeginOpen, ResumeOpen
<1>5. ASSUME NEW p \in Procs, Step(p) PROVE Unkilled'
  <2>1. CASE NextItem(p) \/ InstallItem(p) \/ InstallItemFails(p)
    <3>1. count' = count \/ Occurs("faults")
      BY <2>1 DEF NextItem, InstallItem, InstallItemFails
    <3> QED
      BY <1>1, <2>1, <3>1, Counting, NextItemOpen, InstallOpen
  <2>2. CASE CloseInstalled(p) \/ LeavePending(p) \/ Activate(p) \/ ActivateFails(p)
    <3>1. count' = count \/ Occurs("faults")
      BY <2>2 DEF CloseInstalled, LeavePending, Activate, ActivateFails
    <3> QED
      BY <1>1, <2>2, <3>1, Counting, CloseOpen, InstalledOpen
  <2>3. CASE Attest(p) \/ AttestPending(p) \/ AttestInvalid(p) \/ DetectDrift(p)
             \/ RuntimeCallFails(p)
    <3>1. count' = count \/ Occurs("faults")
      BY <2>3 DEF Attest, AttestPending, AttestInvalid, DetectDrift, RuntimeCallFails
    <3> QED
      BY <1>1, <2>3, <3>1, Counting, RuntimeOpen, AttestPendingOpen
  <2>4. CASE Spool(p) \/ Finish(p)
    <3>1. count' = count
      BY <2>4 DEF Spool, Finish
    <3> QED
      BY <1>1, <2>4, <3>1, SpoolOpen, FinishOpen
  <2> QED
    BY <1>5, <2>1, <2>2, <2>3, <2>4 DEF Step
<1> QED
  BY <1>2, <1>3, <1>4, <1>5 DEF Next

LEMMA InitUnkilled == Init => UInv
<1> SUFFICES ASSUME Init PROVE Unkilled
  BY DEF UInv
<1>1. \A a \in Attempts : reported[a] = <<>> /\ last_event_type(a) = "" /\ Len(reported[a]) = 0
  BY DEF Init, last_event_type
<1>2. \A d \in Docs, k \in Packs : <<d, k>> \in Attempts
  BY DEF Attempts
<1>3. IOver /\ IFresh
  BY <1>1, <1>2, Constants DEF IOver, IFresh, AllOrNone, Unfailed, FailureEvents
<1>4. IActive /\ FailureIsTerminal
  <2>1. IActive
    BY DEF Init, IActive
  <2>2. FailureIsTerminal
    <3> SUFFICES ASSUME NEW a \in Attempts, NEW i \in 1..(Len(reported[a]) - 1) PROVE FALSE
      BY DEF FailureIsTerminal
    <3>1. Len(reported[a]) = 0
      BY <1>1
    <3> QED
      BY <3>1
  <2> QED
    BY <2>1, <2>2
<1>5. \A p \in Procs : Len(outbox[p]) = 0 /\ pc[p] = "idle"
  BY DEF Init
<1>6. \A p \in Procs : ToDoOK(p) /\ OpenOK(p)
  BY <1>5 DEF ToDoOK, OpenOK
<1> QED
  BY <1>3, <1>4, <1>6 DEF Unkilled

(* While no pass is killed, an attempt that failed is over, and what a pass *)
(* has still to spool does not belong to one.                               *)
THEOREM UnkilledHolds == OneProcess /\ Spec => []UInv
<1> SUFFICES ASSUME OneProcess PROVE Spec => []UInv
  OBVIOUS
<1>1. IInv /\ UInv /\ [Next]_vars => UInv'
  BY StepUnkilled
<1> QED
  BY <1>1, InitUnkilled, Invariant, PTL DEF Spec

(* Nothing is reported of an attempt that failed: not by the pass it failed *)
(* in, not by a resumed one, not for a document that is delivered again.    *)
THEOREM FailuresStay == OneProcess /\ Spec => []FailureStays
<1>1. UInv => FailureStays
  BY DEF UInv, Unkilled, FailureStays
<1> QED
  BY <1>1, UnkilledHolds, PTL

(* Once no pass runs, the attempts of a document have all failed or none    *)
(* has, whichever item failed and at whichever point of the pass.           *)
THEOREM FailuresCloseAll == OneProcess /\ Spec => []FailureClosesAll
<1>1. IInv /\ UInv => FailureClosesAll
  <2> SUFFICES ASSUME IInv, Unkilled, \A p \in Procs : pc[p] = "idle",
                      NEW d \in Docs, NEW j \in Packs, NEW k \in Packs,
                      last_event_type(<<d, j>>) \in FailureEvents
               PROVE  last_event_type(<<d, k>>) \in FailureEvents
    BY DEF UInv, FailureClosesAll
  <2>1. \A p \in Procs : doc[p] = 0
    BY DEF IInv, ITypes
  <2>2. \A p \in Procs : doc[p] # d
    BY <2>1, Constants DEF Docs
  <2>3. AllOrNone(d)
    BY <2>2 DEF Unkilled, IOver
  <2> QED
    BY <2>3 DEF AllOrNone, Unfailed
<1> QED
  BY <1>1, Invariant, UnkilledHolds, PTL

(* What is active never goes back to an older document, and no receipt is   *)
(* spooled for a document older than one that has been reported on.         *)
THEOREM OlderStayUntouched == OneProcess /\ Spec => LowerEpochsFailClosed
<1> SUFFICES ASSUME OneProcess PROVE Spec => LowerEpochsFailClosed
  OBVIOUS
<1>1. ASSUME IInv, Unkilled, [Next]_vars PROVE active' >= active
  <2>0. active \in Nat /\ epoch \in Nat
    BY <1>1, Constants DEF IInv, ITypes
  <2>1. CASE active' = active
    BY <2>0, <2>1
  <2>2. CASE active' # active
    <3>1. PICK p \in Procs : Activate(p)
      BY <1>1, <2>2 DEF Next, Step, Publish, RuntimeStart, Tamper, Begin, Resume, NextItem,
         InstallItem, InstallItemFails, CloseInstalled, LeavePending, ActivateFails,
         HalfExchanged, Attest, AttestPending, AttestInvalid, DetectDrift, RuntimeCallFails, Spool, SpoolFails, Finish,
         Crash, adapterVars, vars
    <3>2. pc[p] = "next" /\ active' = doc[p]
      BY <3>1 DEF Activate, At
    <3>3. doc[p] > epoch /\ doc[p] \in Nat
      BY <1>1, <3>2, Constants DEF IInv, ITypes, IPass, PassOK
    <3>4. active <= epoch \/ active = doc[p]
      BY <1>1 DEF Unkilled, IActive, OneProcess
    <3> QED
      BY <2>0, <3>2, <3>3, <3>4
  <2> QED
    BY <2>1, <2>2
<1>2. ASSUME IInv, Unkilled, [Next]_vars, NEW d \in Docs, NEW e \in Docs, d < e, ActedOn(e),
             NEW k \in Packs
      PROVE  reported'[<<d, k>>] = reported[<<d, k>>]
  <2>1. CASE reported' = reported
    BY <2>1
  <2>2. CASE reported' # reported
    <3>1. PICK p \in Procs : /\ \E r : reported' = Appended(<<doc[p], r.pack>>, r)
                             /\ outbox[p] # <<>>
      BY <1>2, <2>2 DEF Next, Step, Publish, RuntimeStart, Tamper, Begin, Resume, NextItem,
         InstallItem, InstallItemFails, CloseInstalled, LeavePending, Activate, ActivateFails,
         Attest, AttestPending, AttestInvalid, DetectDrift, RuntimeCallFails, Spool, SpoolFails,
         Finish, Crash, vars
    <3>2. pc[p] # "idle" /\ doc[p] >= epoch /\ doc[p] \in Nat /\ epoch \in Nat
      <4>1. doc[p] \in Nat /\ epoch \in Nat
        BY <1>2, Constants DEF IInv, ITypes
      <4>2. pc[p] # "idle"
        BY <1>2, <3>1 DEF IInv, ITypes
      <4>3. IF seen[p] THEN doc[p] = epoch ELSE doc[p] > epoch
        BY <1>2, <4>2 DEF IInv, IPass, PassOK
      <4> QED
        BY <4>1, <4>2, <4>3
    <3>3. d # doc[p]
      <4> SUFFICES ASSUME d = doc[p] PROVE FALSE
        OBVIOUS
      <4>1. e > epoch /\ e # doc[p]
        BY <1>2, <3>2 DEF Docs
      <4>2. \A j \in Packs : reported[<<e, j>>] = <<>>
        BY <1>2, <4>1 DEF Unkilled, IFresh, OneProcess
      <4> QED
        BY <1>2, <4>2 DEF ActedOn
    <3>4. PICK r : reported' = Appended(<<doc[p], r.pack>>, r)
      BY <3>1
    <3>5. <<d, k>> # <<doc[p], r.pack>> /\ <<d, k>> \in Attempts
      BY <3>3 DEF Attempts
    <3>6. reported \in [Attempts -> Seq(Event)]
      BY <1>2 DEF IInv, ITypes
    <3> QED
      BY <3>4, <3>5, <3>6 DEF Appended
  <2> QED
    BY <2>1, <2>2
<1>3. IInv /\ UInv /\ [Next]_vars =>
         [EveryPassEnded =>
             /\ active' >= active
             /\ \A d, e \in Docs :
                   d < e /\ ActedOn(e) =>
                       \A k \in Packs : reported'[<<d, k>>] = reported[<<d, k>>]]_vars
  BY <1>1, <1>2 DEF UInv
<1>4. Spec => []IInv /\ []UInv
  BY Invariant, UnkilledHolds
<1> QED
  BY <1>3, <1>4, PTL DEF Spec, LowerEpochsFailClosed


--------------------------------------------------------------------------------
(* The milestones of an attempt *)

Path == <<"DESIRED_SEEN", "MANIFEST_VERIFIED", "ARTIFACT_VERIFIED", "INSTALL_COMMITTED",
          "ACTIVATION_PENDING">>

(* The last n receipts of the attempt are the first n milestones. *)
Ends(a, n) ==
    /\ n <= Len(reported[a])
    /\ \A m \in 1..n : reported[a][Len(reported[a]) - n + m].type = Path[m]

(* The attempt was last announced in a pass that reached all of them before *)
(* the receipt of the given number.                                         *)
Carried(a, i) ==
    \E s \in 1..Len(reported[a]) :
        /\ s + 5 <= i
        /\ \A m \in 1..5 : reported[a][s + m - 1].type = Path[m]
        /\ \A j \in (s + 1)..(i - 1) : reported[a][j].type # "DESIRED_SEEN"

IAttested ==
    \A a \in Attempts : \A i \in 1..Len(reported[a]) :
        reported[a][i].type = "RUNTIME_ATTESTED" => Carried(a, i)

IRuntime ==
    \A a \in Attempts :
        last_event_type(a) \in RuntimeEvents => Carried(a, Len(reported[a]) + 1)

(* What a pass has still to spool continues what was reported. *)
Continues(p, i) ==
    LET r == outbox[p][i]
        a == <<doc[p], r.pack>>
    IN  /\ r.type = "ACTIVATION_PENDING" => Ends(a, 4)
        /\ r.type \in {"RUNTIME_ATTESTED", "DRIFT_DETECTED"} =>
              last_event_type(a) \in RuntimeEvents
        /\ \A m \in 2..4 : r.type = Path[m] =>
              /\ i < m /\ Ends(a, m - i)
              /\ \A j \in 1..i : outbox[p][j].type = Path[m - i + j]

MilestonesOK(p) ==
    /\ \A i \in 1..Len(outbox[p]) : Continues(p, i)
    /\ pc[p] = "install" /\ outbox[p] = <<>> => Ends(<<doc[p], Head(todo[p])>>, 1)
    /\ pc[p] \in {"next", "install"} =>
          \A k \in installed[p] :
              (\A i \in 1..Len(outbox[p]) : outbox[p][i].pack # k) => Ends(<<doc[p], k>>, 4)
    /\ pc[p] \in {"attest", "drift"} => \A k \in Packs : After(p, k, RuntimeEvents)

MInv == IAttested /\ IRuntime /\ \A p \in Procs : MilestonesOK(p)

LEMMA Names ==
    /\ Path[1] = "DESIRED_SEEN" /\ Path[2] = "MANIFEST_VERIFIED"
    /\ Path[3] = "ARTIFACT_VERIFIED" /\ Path[4] = "INSTALL_COMMITTED"
    /\ Path[5] = "ACTIVATION_PENDING"
    /\ \A m \in 2..5 : Path[m] # "DESIRED_SEEN"
    /\ \A m \in 2..4 : Path[m] \in InstallEvents
    /\ InstallEvents \cap (RuntimeEvents \cup FailureEvents) = {}
    /\ RuntimeEvents \cap FailureEvents = {}
    /\ "DESIRED_SEEN" \notin RuntimeEvents
<1>1. \A m \in 2..4 : m = 2 \/ m = 3 \/ m = 4
  OBVIOUS
<1>2. \A m \in 2..5 : m = 2 \/ m = 3 \/ m = 4 \/ m = 5
  OBVIOUS
<1>3. /\ Path[1] = "DESIRED_SEEN" /\ Path[2] = "MANIFEST_VERIFIED"
      /\ Path[3] = "ARTIFACT_VERIFIED" /\ Path[4] = "INSTALL_COMMITTED"
      /\ Path[5] = "ACTIVATION_PENDING"
  BY DEF Path
<1> QED
  BY <1>1, <1>2, <1>3 DEF InstallEvents, RuntimeEvents, FailureEvents

LEMMA CarriedStill ==
    ASSUME NEW a, NEW i, Carried(a, i), reported'[a] = reported[a]
    PROVE  Carried(a, i)'
BY DEF Carried

LEMMA MilestonesUntouched ==
    ASSUME MInv, reported' = reported
    PROVE  IAttested' /\ IRuntime'
<1>1. IAttested'
  BY CarriedStill DEF MInv, IAttested
<1>2. IRuntime'
  <2> SUFFICES ASSUME NEW a \in Attempts, last_event_type(a)' \in RuntimeEvents
               PROVE  Carried(a, Len(reported[a]) + 1)'
    BY DEF IRuntime
  <2>1. PICK x : x = Len(reported[a]) + 1
    OBVIOUS
  <2>2. Carried(a, x)
    BY <2>1 DEF MInv, IRuntime, last_event_type
  <2>3. Carried(a, x)'
    BY <2>2, CarriedStill
  <2> QED
    BY <2>1, <2>3 DEF Carried
<1> QED
  BY <1>1, <1>2

(* A receipt is appended where it continues its attempt. *)
LEMMA Continued ==
    ASSUME IAttested, IRuntime, reported \in [Attempts -> Seq(Event)],
           NEW a \in Attempts, NEW r \in Receipt, reported' = Appended(a, r),
           r.type = "ACTIVATION_PENDING" => Ends(a, 4),
           r.type \in {"RUNTIME_ATTESTED", "DRIFT_DETECTED"} => last_event_type(a) \in RuntimeEvents
    PROVE  /\ IAttested' /\ IRuntime'
           /\ \A n \in 0..4 : Ends(a, n) /\ r.type = Path[n + 1] => Ends(a, n + 1)'
           /\ \A b \in Attempts \ {a}, n \in 0..4 : Ends(b, n) => Ends(b, n)'
<1>1. PICK n : n = Len(reported[a])
  OBVIOUS
<1>2. /\ last_event_type(a)' = r.type /\ Len(reported'[a]) = n + 1
      /\ reported'[a][n + 1] = [type |-> r.type, claim |-> r.claim]
      /\ \A i \in 1..n : reported'[a][i] = reported[a][i]
      /\ \A b \in Attempts \ {a} :
            reported'[b] = reported[b] /\ last_event_type(b)' = last_event_type(b)
  BY <1>1, LastAppended
<1>3. reported[a] \in Seq(Event) /\ n \in Nat /\ reported'[a][n + 1].type = r.type
  BY <1>1, <1>2
<1>4. ASSUME NEW i \in 1..(n + 1), Carried(a, i) PROVE Carried(a, i)'
  <2>1. PICK s \in 1..n : /\ s + 5 <= i
                          /\ \A m \in 1..5 : reported[a][s + m - 1].type = Path[m]
                          /\ \A j \in (s + 1)..(i - 1) : reported[a][j].type # "DESIRED_SEEN"
    BY <1>1, <1>4 DEF Carried
  <2>2. \A m \in 1..5 : s + m - 1 \in 1..n
    BY <1>3, <2>1
  <2>3. \A j \in (s + 1)..(i - 1) : j \in 1..n
    BY <1>3, <2>1
  <2>4. \A m \in 1..5 : reported'[a][s + m - 1].type = Path[m]
    BY <1>2, <2>1, <2>2
  <2>5. \A j \in (s + 1)..(i - 1) : reported'[a][j].type # "DESIRED_SEEN"
    BY <1>2, <2>1, <2>3
  <2>6. s \in 1..Len(reported'[a])
    BY <1>2, <1>3
  <2> QED
    BY <2>1, <2>4, <2>5, <2>6 DEF Carried
<1>5. ASSUME r.type # "DESIRED_SEEN", Carried(a, n + 1) PROVE Carried(a, n + 2)'
  <2>1. PICK s \in 1..n : /\ s + 5 <= n + 1
                          /\ \A m \in 1..5 : reported[a][s + m - 1].type = Path[m]
                          /\ \A j \in (s + 1)..n : reported[a][j].type # "DESIRED_SEEN"
    BY <1>1, <1>3, <1>5 DEF Carried
  <2>2. \A m \in 1..5 : s + m - 1 \in 1..n
    BY <1>3, <2>1
  <2>3. \A m \in 1..5 : reported'[a][s + m - 1].type = Path[m]
    BY <1>2, <2>1, <2>2
  <2>4. \A j \in (s + 1)..(n + 1) : (j \in (s + 1)..n /\ j \in 1..n) \/ j = n + 1
    BY <1>3
  <2>5. \A j \in (s + 1)..(n + 1) : reported'[a][j].type # "DESIRED_SEEN"
    BY <1>2, <1>3, <1>5, <2>1, <2>4
  <2>6. s \in 1..Len(reported'[a]) /\ s + 5 <= n + 2 /\ (n + 2) - 1 = n + 1
    BY <1>2, <1>3, <2>1
  <2> QED
    BY <2>3, <2>5, <2>6 DEF Carried
<1>6. ASSUME NEW m \in 0..4, Ends(a, m), r.type = Path[m + 1] PROVE Ends(a, m + 1)'
  <2>1. m <= n /\ \A x \in 1..m : reported[a][n - m + x].type = Path[x] /\ n - m + x \in 1..n
    BY <1>1, <1>3, <1>6 DEF Ends
  <2>2. ASSUME NEW x \in 1..(m + 1) PROVE reported'[a][(n + 1) - (m + 1) + x].type = Path[x]
    <3>1. (n + 1) - (m + 1) + x = n - m + x
      BY <1>3
    <3>2. CASE x = m + 1
      <4>1. n - m + x = n + 1
        BY <1>3, <3>2
      <4> QED
        BY <1>3, <1>6, <3>1, <3>2, <4>1
    <3>3. CASE x # m + 1
      <4>1. x \in 1..m
        BY <3>3
      <4> QED
        BY <1>2, <2>1, <3>1, <4>1
    <3> QED
      BY <3>2, <3>3
  <2> QED
    BY <1>2, <1>3, <2>1, <2>2 DEF Ends
<1>7. \A b \in Attempts \ {a}, m \in 0..4 : Ends(b, m) => Ends(b, m)'
  BY <1>2 DEF Ends
<1>8. ASSUME NEW b \in Attempts \ {a}, NEW i, Carried(b, i) PROVE Carried(b, i)'
  BY <1>2, <1>8, CarriedStill
<1>9. r.type \in RuntimeEvents => Carried(a, n + 2)'
  <2>1. CASE r.type = "ACTIVATION_PENDING"
    <3>1. Ends(a, 5)'
      BY <1>6, <2>1, Names
    <3>2. n + 1 >= 5 /\ \A m \in 1..5 : reported'[a][(n - 4) + m].type = Path[m]
      <4>1. 5 <= n + 1 /\ \A m \in 1..5 : reported'[a][(n + 1) - 5 + m].type = Path[m]
        BY <1>2, <3>1 DEF Ends
      <4>2. (n + 1) - 5 = n - 4
        BY <1>3
      <4> QED
        BY <4>1, <4>2
    <3>3. PICK s : s = n - 3
      OBVIOUS
    <3>4. /\ s \in 1..Len(reported'[a]) /\ s + 5 <= n + 2 /\ (n + 2) - 1 = n + 1
          /\ \A m \in 1..5 : (n - 4) + m = s + m - 1
      BY <1>2, <1>3, <3>2, <3>3
    <3>5. \A m \in 1..5 : reported'[a][s + m - 1].type = Path[m]
      BY <3>2, <3>4
    <3>6. ASSUME NEW j \in (s + 1)..(n + 1) PROVE reported'[a][j].type # "DESIRED_SEEN"
      <4>1. j - s + 1 \in 2..5 /\ s + (j - s + 1) - 1 = j
        BY <1>3, <3>3
      <4> QED
        BY <3>5, <4>1, Names
    <3> QED
      BY <3>4, <3>5, <3>6 DEF Carried
  <2>2. CASE r.type \in {"RUNTIME_ATTESTED", "DRIFT_DETECTED"}
    BY <1>1, <1>5, <2>2 DEF IRuntime
  <2> QED
    BY <2>1, <2>2 DEF RuntimeEvents
<1>10. IRuntime'
  <2> SUFFICES ASSUME NEW b \in Attempts, last_event_type(b)' \in RuntimeEvents
               PROVE  Carried(b, Len(reported[b]) + 1)'
    BY DEF IRuntime
  <2>1. CASE b = a
    <3>1. PICK x : x = Len(reported'[b]) + 1
      OBVIOUS
    <3>2. x = n + 2
      BY <1>2, <1>3, <2>1, <3>1
    <3>3. Carried(b, x)'
      BY <1>2, <1>9, <2>1, <3>2
    <3> QED
      BY <3>1, <3>3 DEF Carried
  <2>2. CASE b # a
    <3>1. PICK x : x = Len(reported[b]) + 1
      OBVIOUS
    <3>2. Carried(b, x)
      BY <1>2, <2>2, <3>1 DEF IRuntime
    <3>3. Carried(b, x)' /\ reported'[b] = reported[b]
      BY <1>2, <1>8, <2>2, <3>2
    <3> QED
      BY <3>1, <3>3 DEF Carried
  <2> QED
    BY <2>1, <2>2
<1>11. IAttested'
  <2> SUFFICES ASSUME NEW b \in Attempts, NEW i \in 1..Len(reported'[b]),
                      reported'[b][i].type = "RUNTIME_ATTESTED"
               PROVE  Carried(b, i)'
    BY DEF IAttested
  <2>1. CASE b # a
    BY <1>2, <1>8, <2>1 DEF IAttested
  <2>2. CASE b = a /\ i = n + 1
    <3>1. r.type = "RUNTIME_ATTESTED"
      BY <1>3, <2>2
    <3>2. Carried(a, n + 1)
      BY <1>1, <3>1 DEF IRuntime
    <3> QED
      BY <1>3, <1>4, <2>2, <3>2
  <2>3. CASE b = a /\ i # n + 1
    <3>1. i \in 1..n /\ i \in 1..(n + 1)
      BY <1>2, <1>3, <2>3
    <3>2. Carried(a, i)
      BY <1>1, <1>2, <2>3, <3>1 DEF IAttested
    <3> QED
      BY <1>4, <2>3, <3>1, <3>2
  <2> QED
    BY <2>1, <2>2, <2>3
<1> QED
  BY <1>6, <1>7, <1>10, <1>11


LEMMA EndsStill ==
    ASSUME NEW a, NEW n, Ends(a, n), reported'[a] = reported[a]
    PROVE  Ends(a, n)'
BY DEF Ends

(* A pack that is installed has been reported so, once nothing is left to   *)
(* spool.                                                                   *)
LEMMA InstalledEnds ==
    ASSUME MInv, NEW p \in Procs, pc[p] \in {"next", "install"}, outbox[p] = <<>>,
           NEW k \in installed[p]
    PROVE  Ends(<<doc[p], k>>, 4)
<1>1. Len(outbox[p]) = 0
  OBVIOUS
<1>2. \A i \in 1..Len(outbox[p]) : outbox[p][i].pack # k
  BY <1>1
<1>3. (\A i \in 1..Len(outbox[p]) : outbox[p][i].pack # k) => Ends(<<doc[p], k>>, 4)
  <2>1. MilestonesOK(p)
    BY DEF MInv
  <2> QED
    BY <2>1 DEF MilestonesOK
<1> QED
  BY <1>2, <1>3

(* The process has nothing to spool and is about to report nothing. *)
LEMMA NothingAhead ==
    ASSUME NEW p \in Procs, pc'[p] \in {"idle", "finish"}, outbox'[p] = <<>>
    PROVE  MilestonesOK(p)'
<1>1. Len(outbox'[p]) = 0
  OBVIOUS
<1> QED
  BY <1>1 DEF MilestonesOK

LEMMA PassKept ==
    ASSUME MInv, UNCHANGED <<reported, procVars>> PROVE MInv'
<1>1. ASSUME NEW p \in Procs PROVE MilestonesOK(p)'
  <2>1. \A k \in Packs : After(p, k, RuntimeEvents) => After(p, k, RuntimeEvents)'
    BY AfterKept DEF procVars
  <2>2. \A i : Continues(p, i) => Continues(p, i)'
    BY DEF Continues, Ends, last_event_type, procVars
  <2> QED
    BY <2>1, <2>2 DEF MInv, MilestonesOK, Ends, procVars
<1> QED
  BY <1>1, MilestonesUntouched DEF MInv

(* The same receipt for every item. *)
LEMMA AllContinue ==
    ASSUME OneProcess, IInv, MInv, NEW p \in Procs, NEW label \in {"attest", "drift", "finish"},
           NEW t \in Closed, NEW c \in Claim, Then(p, label, ForAllItems(t, c)),
           reported' = reported, doc' = doc,
           label # "finish" => t \in RuntimeEvents,
           t = "ACTIVATION_PENDING" => \A k \in Packs : Ends(<<doc[p], k>>, 4),
           t \in {"RUNTIME_ATTESTED", "DRIFT_DETECTED"} =>
              \A k \in Packs : last_event_type(<<doc[p], k>>) \in RuntimeEvents
    PROVE  MInv'
<1>1. \A q \in Procs : q = p
  BY DEF OneProcess
<1>2. t \in EventTypes
  BY Constants DEF Closed
<1>3. pc'[p] = label /\ outbox'[p] = ForAllItems(t, c)
  BY DEF Then, IInv, ITypes
<1>4. \A i \in 1..Len(outbox'[p]) : outbox'[p][i].type = t /\ outbox'[p][i] \in Receipt
  BY <1>2, <1>3, ForAll
<1>5. ASSUME NEW i \in 1..Len(outbox'[p]) PROVE Continues(p, i)'
  <2>1. PICK k \in Packs : k = outbox'[p][i].pack
    BY <1>4 DEF Receipt
  <2>2. outbox'[p][i].type = t
    BY <1>4
  <2>3. \A m \in 2..4 : t # Path[m]
    BY Names DEF Closed
  <2>4. t = "ACTIVATION_PENDING" => Ends(<<doc[p], k>>, 4)
    OBVIOUS
  <2>5. t \in {"RUNTIME_ATTESTED", "DRIFT_DETECTED"} =>
           last_event_type(<<doc[p], k>>) \in RuntimeEvents
    OBVIOUS
  <2> QED
    BY <2>1, <2>2, <2>3, <2>4, <2>5 DEF Continues, Ends, last_event_type
<1>6. label # "finish" => \A k \in Packs : After(p, k, RuntimeEvents)'
  BY <1>2, <1>3, AfterAll
<1>7. MilestonesOK(p)'
  BY <1>3, <1>5, <1>6 DEF MilestonesOK
<1> QED
  BY <1>1, <1>7, MilestonesUntouched DEF MInv

LEMMA BeginContinues ==
    ASSUME OneProcess, IInv, MInv, NEW p \in Procs, NEW d \in Delivered,
           Begin(p, d) \/ Resume(p, d)
    PROVE  MInv'
<1>1. \A q \in Procs : q = p
  BY DEF OneProcess
<1>2. /\ pc[p] = "idle" /\ outbox'[p] = <<>> /\ Len(outbox'[p]) = 0 /\ installed'[p] = {}
      /\ reported' = reported
  BY DEF Begin, Resume, IInv, ITypes
<1>3. CASE Begin(p, d)
  <2>1. pc'[p] = "next"
    BY <1>3 DEF Begin, IInv, ITypes
  <2>2. MilestonesOK(p)'
    BY <1>2, <2>1 DEF MilestonesOK
  <2> QED
    BY <1>1, <1>2, <2>2, MilestonesUntouched DEF MInv
<1>4. CASE Resume(p, d)
  <2>1. pc'[p] = "attest" /\ doc'[p] = d /\ d = epoch /\ d # 0
    BY <1>4, Constants DEF Resume, Delivered, IInv, ITypes
  <2>2. \A k \in Packs : last_event_type(<<d, k>>) \in RuntimeEvents
    BY <1>4, <2>1 DEF Resume, Resumable, IInv, RecordedMeansReported
  <2>3. ASSUME NEW k \in Packs PROVE After(p, k, RuntimeEvents)'
    <3>1. reported'[<<doc'[p], k>>] = reported[<<d, k>>]
      BY <1>2, <2>1
    <3>2. last_event_type(<<doc[p], k>>)' = last_event_type(<<d, k>>)
      BY <3>1 DEF last_event_type
    <3> QED
      BY <1>2, <2>2, <3>2 DEF After
  <2>4. MilestonesOK(p)'
    BY <1>2, <2>1, <2>3 DEF MilestonesOK
  <2> QED
    BY <1>1, <1>2, <2>4, MilestonesUntouched DEF MInv
<1> QED
  BY <1>3, <1>4

LEMMA NextItemContinues ==
    ASSUME OneProcess, IInv, MInv, NEW p \in Procs, NextItem(p) PROVE MInv'
<1>1. \A q \in Procs : q = p
  BY DEF OneProcess
<1>2. PICK h, types : h = Head(todo[p]) /\ types = <<"DESIRED_SEEN">>
  OBVIOUS
<1>3. /\ todo[p] \in Seq(Packs) /\ todo[p] # <<>> /\ pc[p] = "next" /\ outbox[p] = <<>>
      /\ types \in Seq(EventTypes) /\ Len(types) = 1 /\ types[1] = "DESIRED_SEEN"
      /\ pc'[p] = "install" /\ outbox'[p] = ForItem(h, types)
      /\ UNCHANGED <<reported, doc, todo, installed>>
  BY <1>2, Constants DEF NextItem, At, Then, IInv, ITypes, adapterVars
<1>4. h \in Packs
  BY <1>2, <1>3, HeadTail
<1>5. Len(outbox'[p]) = 1 /\ outbox'[p] # <<>> /\ outbox'[p][1].type = "DESIRED_SEEN"
  <2>1. Len(outbox'[p]) = 1 /\ outbox'[p][1].type = "DESIRED_SEEN"
    BY <1>3, <1>4, ForOne
  <2> QED
    BY <2>1
<1>6. ASSUME NEW i \in 1..Len(outbox'[p]) PROVE Continues(p, i)'
  <2>1. outbox'[p][i].type = "DESIRED_SEEN"
    BY <1>5
  <2>2. \A m \in 2..4 : "DESIRED_SEEN" # Path[m]
    BY Names
  <2> QED
    BY <2>1, <2>2 DEF Continues
<1>7. \A k \in installed[p] : Ends(<<doc[p], k>>, 4)
  BY <1>3, InstalledEnds
<1>8. MilestonesOK(p)'
  BY <1>3, <1>5, <1>6, <1>7 DEF MilestonesOK, Ends
<1> QED
  BY <1>1, <1>3, <1>8, MilestonesUntouched DEF MInv

LEMMA InstallContinues ==
    ASSUME OneProcess, IInv, MInv, NEW p \in Procs, InstallItem(p) \/ InstallItemFails(p)
    PROVE  MInv'
<1>1. \A q \in Procs : q = p
  BY DEF OneProcess
<1>2. PICK types \in {<<"MANIFEST_VERIFIED", "ARTIFACT_VERIFIED", "INSTALL_COMMITTED">>,
                      <<"FAILED_RETRYABLE">>, <<"FAILED_TERMINAL">>,
                      <<"MANIFEST_VERIFIED", "FAILED_TERMINAL">>} :
         Then(p, "next", ForItem(Head(todo[p]), types))
  BY DEF InstallItem, InstallItemFails
<1>3. PICK h, d : h = Head(todo[p]) /\ d = doc[p]
  OBVIOUS
<1>4. /\ pc[p] = "install" /\ todo[p] \in Seq(Packs) /\ todo[p] # <<>> /\ outbox[p] = <<>>
      /\ pc'[p] = "next" /\ outbox'[p] = ForItem(h, types) /\ doc'[p] = d
      /\ installed'[p] \subseteq installed[p] \cup {h} /\ reported' = reported
  BY <1>2, <1>3 DEF InstallItem, InstallItemFails, At, Then, IInv, ITypes, IPass, PassOK
<1>5. h \in Packs
  BY <1>3, <1>4, HeadTail
<1>6. /\ types \in Seq(EventTypes) /\ Len(types) \in 1..3
      /\ \A i \in 1..Len(types), m \in 2..4 : types[i] = Path[m] =>
            m = i + 1 /\ \A j \in 1..i : types[j] = Path[j + 1]
      /\ \A i \in 1..Len(types) : types[i] \notin RuntimeEvents
  <2>1. CASE types = <<"MANIFEST_VERIFIED", "ARTIFACT_VERIFIED", "INSTALL_COMMITTED">>
    <3>1. Len(types) = 3 /\ types[1] = Path[2] /\ types[2] = Path[3] /\ types[3] = Path[4]
      BY <2>1, Names
    <3>2. \A i, m \in 2..4 : Path[i] = Path[m] => i = m
      <4>1. \A i \in 2..4 : i = 2 \/ i = 3 \/ i = 4
        OBVIOUS
      <4> QED
        BY <4>1, Names
    <3>3. \A i \in 1..3 : (i = 1 \/ i = 2 \/ i = 3) /\ i + 1 \in 2..4
      OBVIOUS
    <3>4. \A i \in 1..3 : types[i] = Path[i + 1]
      BY <3>1, <3>3
    <3>5. \A i \in 1..3 : \A j \in 1..i : j \in 1..3
      OBVIOUS
    <3>6. types \in Seq(EventTypes)
      BY <2>1 DEF EventTypes, InstallEvents
    <3>7. \A i \in 1..Len(types), m \in 2..4 : types[i] = Path[m] =>
             m = i + 1 /\ \A j \in 1..i : types[j] = Path[j + 1]
      BY <3>1, <3>2, <3>3, <3>4, <3>5
    <3>8. \A i \in 1..Len(types) : types[i] \notin RuntimeEvents
      BY <3>1, <3>3, <3>4, Names
    <3> QED
      BY <3>1, <3>6, <3>7, <3>8
  <2>2. CASE types \in {<<"FAILED_RETRYABLE">>, <<"FAILED_TERMINAL">>}
    <3>1. Len(types) = 1 /\ types[1] \in FailureEvents /\ types \in Seq(EventTypes)
      BY <2>2 DEF EventTypes, FailureEvents
    <3> QED
      BY <3>1, Names
  <2>3. CASE types = <<"MANIFEST_VERIFIED", "FAILED_TERMINAL">>
    <3>1. /\ Len(types) = 2 /\ types[1] = Path[2] /\ types[2] \in FailureEvents
          /\ types \in Seq(EventTypes)
      BY <2>3, Names DEF EventTypes, InstallEvents, FailureEvents
    <3>2. \A i \in 1..2 : i = 1 \/ i = 2
      OBVIOUS
    <3>3. \A m \in 2..4 : Path[2] = Path[m] => m = 2
      <4>1. \A m \in 2..4 : m = 2 \/ m = 3 \/ m = 4
        OBVIOUS
      <4> QED
        BY <4>1, Names
    <3>4. \A m \in 2..4 : types[2] # Path[m]
      BY <3>1, Names
    <3>5. \A j \in 1..1 : j = 1
      OBVIOUS
    <3> QED
      BY <3>1, <3>2, <3>3, <3>4, <3>5, Names
  <2> QED
    BY <2>1, <2>2, <2>3
<1>7. /\ Len(outbox'[p]) = Len(types)
      /\ \A i \in 1..Len(types) : outbox'[p][i].pack = h /\ outbox'[p][i].type = types[i]
  BY <1>4, <1>5, <1>6, ForOne
<1>8. Ends(<<d, h>>, 1)
  BY <1>3, <1>4 DEF MInv, MilestonesOK
<1>9. ASSUME NEW i \in 1..Len(outbox'[p]) PROVE Continues(p, i)'
  <2>1. outbox'[p][i].pack = h /\ outbox'[p][i].type = types[i] /\ i \in 1..Len(types)
    BY <1>7
  <2>2. types[i] \notin {"ACTIVATION_PENDING", "RUNTIME_ATTESTED", "DRIFT_DETECTED"}
    BY <1>6, <2>1 DEF RuntimeEvents
  <2>3. ASSUME NEW m \in 2..4, types[i] = Path[m]
        PROVE  i < m /\ m - i = 1 /\ \A j \in 1..i : outbox'[p][j].type = Path[m - i + j]
    <3>1. m = i + 1 /\ \A j \in 1..i : types[j] = Path[j + 1]
      BY <1>6, <2>1, <2>3
    <3>2. i < m /\ m - i = 1 /\ \A j \in 1..i : m - i + j = j + 1
      BY <3>1
    <3>3. \A j \in 1..i : j \in 1..Len(types)
      BY <1>6, <2>1
    <3> QED
      BY <1>7, <3>1, <3>2, <3>3
  <2>4. Ends(<<d, h>>, 1)'
    BY <1>4, <1>8, EndsStill
  <2> QED
    BY <1>4, <2>1, <2>2, <2>3, <2>4 DEF Continues, Ends
<1>10. ASSUME NEW k \in installed'[p], \A i \in 1..Len(outbox'[p]) : outbox'[p][i].pack # k
       PROVE  Ends(<<d, k>>, 4)
  <2>1. k # h
    <3>1. Len(types) \in 1..3
      BY <1>6
    <3>2. 1 \in 1..Len(types)
      BY <3>1
    <3>4. Len(outbox'[p]) = Len(types)
      BY <1>7
    <3>3. outbox'[p][1].pack = h
      BY <1>7, <3>2
    <3> QED
      BY <1>10, <3>2, <3>3, <3>4
  <2>2. k \in installed[p]
    BY <1>4, <2>1
  <2> QED
    BY <1>3, <1>4, <2>2, InstalledEnds
<1>11. MilestonesOK(p)'
  BY <1>4, <1>9, <1>10 DEF MilestonesOK, Ends
<1> QED
  BY <1>1, <1>4, <1>11, MilestonesUntouched DEF MInv

LEMMA CloseContinues ==
    ASSUME OneProcess, IInv, MInv, NEW p \in Procs, CloseInstalled(p) PROVE MInv'
<1>1. \A q \in Procs : q = p
  BY DEF OneProcess
<1>2. PICK out : out = PeersClosed(p)
  OBVIOUS
<1>3. pc'[p] = "finish" /\ outbox'[p] = out /\ reported' = reported
  BY <1>2 DEF CloseInstalled, Then, IInv, ITypes
<1>4. \A i \in 1..Len(outbox'[p]) : outbox'[p][i].type = "FAILED_RETRYABLE"
  BY <1>2, <1>3, Peers
<1>5. \A m \in 2..4 : Path[m] # "FAILED_RETRYABLE"
  BY Names DEF FailureEvents
<1>6. \A i \in 1..Len(outbox'[p]) : Continues(p, i)'
  BY <1>4, <1>5 DEF Continues
<1>7. MilestonesOK(p)'
  BY <1>3, <1>6 DEF MilestonesOK
<1> QED
  BY <1>1, <1>3, <1>7, MilestonesUntouched DEF MInv

LEMMA InstalledContinues ==
    ASSUME OneProcess, IInv, MInv, NEW p \in Procs,
           LeavePending(p) \/ Activate(p) \/ ActivateFails(p)
    PROVE  MInv'
<1>1. /\ pc[p] = "next" /\ outbox[p] = <<>> /\ Len(outbox[p]) = 0 /\ installed[p] = Packs
      /\ reported' = reported /\ doc' = doc
  BY DEF LeavePending, Activate, ActivateFails, At, AllInstalled
<1>2. \A k \in Packs : Ends(<<doc[p], k>>, 4)
  BY <1>1, InstalledEnds
<1>3. CASE LeavePending(p) \/ Activate(p)
  <2>1. PICK label \in {"attest", "finish"} :
           Then(p, label, ForAllItems("ACTIVATION_PENDING", NoClaim))
    BY <1>3 DEF LeavePending, Activate
  <2>2. "ACTIVATION_PENDING" \in Closed /\ "ACTIVATION_PENDING" \in RuntimeEvents
    BY DEF Closed, RuntimeEvents
  <2> QED
    BY <1>1, <1>2, <2>1, <2>2, AllContinue, Constants
<1>4. CASE ActivateFails(p)
  <2>1. PICK t \in FailureEvents : Then(p, "finish", ForAllItems(t, NoClaim))
    BY <1>4 DEF ActivateFails
  <2>2. t \in Closed /\ t \notin {"ACTIVATION_PENDING", "RUNTIME_ATTESTED", "DRIFT_DETECTED"}
    BY DEF Closed, FailureEvents
  <2> QED
    BY <1>1, <2>1, <2>2, AllContinue, Constants
<1> QED
  BY <1>3, <1>4

LEMMA RuntimeContinues ==
    ASSUME OneProcess, IInv, MInv, NEW p \in Procs,
           \/ Attest(p) \/ AttestPending(p) \/ AttestInvalid(p)
           \/ RuntimeCallFails(p) \/ DetectDrift(p)
    PROVE  MInv'
<1>1. /\ pc[p] \in {"attest", "drift"} /\ outbox[p] = <<>>
      /\ UNCHANGED <<reported, doc>>
  BY DEF Attest, AttestPending, AttestInvalid, RuntimeCallFails, DetectDrift, At
<1>2. \A k \in Packs : last_event_type(<<doc[p], k>>) \in RuntimeEvents
  BY <1>1, AfterNothing DEF MInv, MilestonesOK
<1>3. CASE Attest(p)
  <2>1. PICK c : c = [gen |-> runtime.gen, inventory |-> active]
    OBVIOUS
  <2>2. c \in Claim
    BY <2>1 DEF Claim, IInv, ITypes
  <2>3. Then(p, "drift", ForAllItems("RUNTIME_ATTESTED", c))
    BY <1>3, <2>1 DEF Attest, IInv, ITypes
  <2>4. "RUNTIME_ATTESTED" \in Closed /\ "RUNTIME_ATTESTED" \in RuntimeEvents
    BY DEF Closed, RuntimeEvents
  <2> QED
    BY <1>1, <1>2, <2>2, <2>3, <2>4, AllContinue
<1>4. CASE AttestInvalid(p) \/ RuntimeCallFails(p)
  <2>1. PICK t \in FailureEvents : Then(p, "finish", ForAllItems(t, NoClaim))
    BY <1>4 DEF AttestInvalid, RuntimeCallFails, FailureEvents
  <2>2. t \in Closed /\ t \notin {"ACTIVATION_PENDING", "RUNTIME_ATTESTED", "DRIFT_DETECTED"}
    BY DEF Closed, FailureEvents
  <2> QED
    BY <1>1, <2>1, <2>2, AllContinue, Constants
<1>5. CASE DetectDrift(p) /\ Then(p, "finish", ForAllItems("DRIFT_DETECTED", attestation[p]))
  <2>1. "DRIFT_DETECTED" \in Closed
    BY DEF Closed, RuntimeEvents
  <2>2. attestation[p] \in Claim
    BY DEF IInv, ITypes
  <2> QED
    BY <1>1, <1>2, <1>5, <2>1, <2>2, AllContinue
<1>6. CASE Then(p, "finish", <<>>)
  <2>1. pc'[p] = "finish" /\ outbox'[p] = <<>>
    BY <1>6 DEF Then, IInv, ITypes
  <2>2. MilestonesOK(p)'
    BY <2>1, NothingAhead
  <2> QED
    BY <1>1, <2>2, MilestonesUntouched DEF MInv, OneProcess
<1> QED
  BY <1>3, <1>4, <1>5, <1>6 DEF DetectDrift, AttestPending


LEMMA SpoolContinues ==
    ASSUME OneProcess, IInv, MInv, NEW p \in Procs, Spool(p) PROVE MInv'
<1>1. \A q \in Procs : q = p
  BY DEF OneProcess
<1>2. PICK out, r, d : out = outbox[p] /\ r = Head(outbox[p]) /\ d = doc[p]
  OBVIOUS
<1>3. PICK rest, h : rest = Tail(out) /\ h = r.pack
  OBVIOUS
<1>4. PICK a : a = <<d, h>>
  OBVIOUS
<1>5. /\ out \in Seq(Receipt) /\ out # <<>> /\ reported \in [Attempts -> Seq(Event)]
      /\ outbox'[p] = rest
      /\ reported' = IF AlreadyAttested(p, r) THEN reported ELSE Appended(a, r)
      /\ UNCHANGED <<epoch, pc, doc, todo, installed>>
  BY <1>2, <1>3, <1>4 DEF Spool, IInv, ITypes
<1>6. /\ r \in Receipt /\ r = out[1] /\ 1 \in 1..Len(out) /\ rest \in Seq(Receipt)
      /\ Len(rest) = Len(out) - 1 /\ Len(out) \in Nat
      /\ \A i \in 1..(Len(out) - 1) : rest[i] = out[i + 1]
  BY <1>2, <1>3, <1>5, HeadTail
<1>7. d \in Docs /\ pc[p] \in Labels \ {"idle"} /\ h \in Packs
  BY <1>2, <1>3, <1>5, <1>6, Constants DEF IInv, ITypes, Docs, Receipt
<1>8. a \in Attempts
  BY <1>4, <1>7 DEF Attempts
<1>9. Continues(p, 1)
  BY <1>2, <1>6 DEF MInv, MilestonesOK
<1>10. /\ r.type = "ACTIVATION_PENDING" => Ends(a, 4)
       /\ r.type \in {"RUNTIME_ATTESTED", "DRIFT_DETECTED"} =>
             last_event_type(a) \in RuntimeEvents
       /\ \A m \in 2..4 : r.type = Path[m] => Ends(a, m - 1)
  BY <1>2, <1>3, <1>4, <1>6, <1>9 DEF Continues
<1>11. /\ IAttested' /\ IRuntime'
       /\ \A n \in 0..4 : Ends(a, n) /\ r.type = Path[n + 1] => Ends(a, n + 1)'
       /\ \A b \in Attempts \ {a} :
             reported'[b] = reported[b] /\ last_event_type(b)' = last_event_type(b)
  <2>1. CASE AlreadyAttested(p, r)
    <3>1. reported' = reported /\ r.type = "RUNTIME_ATTESTED"
      BY <1>5, <2>1 DEF AlreadyAttested
    <3>2. \A n \in 0..4 : n + 1 = 1 \/ n + 1 \in 2..4 \/ n + 1 = 5
      OBVIOUS
    <3>3. \A n \in 0..4 : r.type # Path[n + 1]
      BY <3>1, <3>2, Names DEF RuntimeEvents
    <3> QED
      BY <3>1, <3>3, MilestonesUntouched DEF last_event_type
  <2>2. CASE ~AlreadyAttested(p, r)
    <3>1. reported' = Appended(a, r)
      BY <1>5, <2>2
    <3>2. /\ IAttested' /\ IRuntime'
          /\ \A n \in 0..4 : Ends(a, n) /\ r.type = Path[n + 1] => Ends(a, n + 1)'
      BY <1>5, <1>6, <1>8, <1>10, <3>1, Continued DEF MInv
    <3> QED
      BY <1>5, <1>6, <1>8, <3>1, <3>2, LastAppended
  <2> QED
    BY <2>1, <2>2
<1>12. \A k \in Packs : k # h => <<d, k>> \in Attempts \ {a}
  BY <1>4, <1>7 DEF Attempts
<1>13. \A i \in 1..Len(rest) : rest[i] = out[i + 1] /\ i + 1 \in 1..Len(out) /\ 1 # i + 1
  BY <1>6
<1>14. ASSUME NEW i \in 1..Len(rest) PROVE Continues(p, i)'
  <2>1. PICK k \in Packs : k = rest[i].pack
    <3>1. rest[i] \in Receipt
      BY <1>6, <1>14
    <3> QED
      BY <3>1 DEF Receipt
  <2>2. PICK x : x = i + 1
    OBVIOUS
  <2>3. x \in 1..Len(out) /\ rest[i] = out[x] /\ out[x].pack = k /\ x # 1
    BY <1>13, <2>1, <2>2
  <2>4. /\ rest[i].type = "ACTIVATION_PENDING" => Ends(<<d, k>>, 4)
        /\ rest[i].type \in {"RUNTIME_ATTESTED", "DRIFT_DETECTED"} =>
              last_event_type(<<d, k>>) \in RuntimeEvents
        /\ \A m \in 2..4 : rest[i].type = Path[m] =>
              x < m /\ Ends(<<d, k>>, m - x)
              /\ \A j \in 1..x : out[j].type = Path[m - x + j]
    BY <1>2, <2>3 DEF MInv, MilestonesOK, Continues
  <2>5. OutboxOK(p, x) /\ OutboxOK(p, 1)
    BY <1>2, <1>6, <2>3 DEF IInv, IOutbox
  <2>6. CASE pc[p] \in {"attest", "drift", "finish"}
    <3>1. k # h
      BY <1>2, <1>3, <1>6, <2>3, <2>5, <2>6 DEF OutboxOK
    <3>2. reported'[<<d, k>>] = reported[<<d, k>>]
      BY <1>11, <1>12, <3>1
    <3>3. rest[i].type \in Closed
      BY <1>2, <2>3, <2>5, <2>6, Constants DEF OutboxOK
    <3>4. \A m \in 2..4 : rest[i].type # Path[m]
      BY <3>3, Names DEF Closed
    <3> QED
      BY <1>2, <1>5, <2>1, <2>4, <3>2, <3>4 DEF Continues, Ends, last_event_type
  <2>7. CASE pc[p] = "install"
    <3>1. rest[i].type = "DESIRED_SEEN"
      BY <1>2, <2>3, <2>5, <2>7 DEF OutboxOK
    <3>2. \A m \in 2..4 : rest[i].type # Path[m]
      BY <3>1, Names
    <3> QED
      BY <1>5, <3>1, <3>2 DEF Continues
  <2>8. CASE pc[p] = "next"
    <3>1. rest[i].type \in InstallEvents \cup FailureEvents /\ k = h
      BY <1>2, <1>3, <1>6, <2>3, <2>5, <2>8 DEF OutboxOK
    <3>2. rest[i].type \notin {"ACTIVATION_PENDING", "RUNTIME_ATTESTED", "DRIFT_DETECTED"}
      BY <3>1, Names DEF RuntimeEvents
    <3>3. ASSUME NEW m \in 2..4, rest[i].type = Path[m]
          PROVE  i < m /\ Ends(a, m - i)' /\ \A j \in 1..i : rest[j].type = Path[m - i + j]
      <4>1. x < m /\ Ends(a, m - x) /\ \A j \in 1..x : out[j].type = Path[m - x + j]
        BY <1>4, <2>4, <3>1, <3>3
      <4>2. i < m /\ m - x \in 0..4 /\ (m - x) + 1 = m - i /\ i \in Nat
        BY <1>6, <2>2, <4>1
      <4>3. r.type = Path[m - i]
        <5>1. 1 \in 1..x /\ out[1].type = Path[m - x + 1]
          BY <2>3, <4>1
        <5> QED
          BY <1>6, <4>2, <5>1
      <4>4. Ends(a, m - i)'
        <5>1. PICK n \in 0..4 : n = m - x
          BY <4>2
        <5>2. Ends(a, n) /\ r.type = Path[n + 1] /\ n + 1 = m - i
          BY <4>1, <4>2, <4>3, <5>1
        <5>3. Ends(a, n + 1)'
          BY <1>11, <5>2
        <5> QED
          BY <5>2, <5>3
      <4>5. ASSUME NEW j \in 1..i PROVE rest[j].type = Path[m - i + j]
        <5>1. j \in 1..Len(rest) /\ j + 1 \in 1..x /\ m - x + (j + 1) = m - i + j
          BY <1>6, <2>2, <4>5
        <5>2. rest[j] = out[j + 1]
          BY <1>13, <5>1
        <5>3. out[j + 1].type = Path[m - x + (j + 1)]
          BY <4>1, <5>1
        <5> QED
          BY <5>1, <5>2, <5>3
      <4> QED
        BY <4>2, <4>4, <4>5
    <3>4. \A m \in 2..4 : rest[i].type = Path[m] =>
             i < m /\ Ends(a, m - i)' /\ \A j \in 1..i : rest[j].type = Path[m - i + j]
      BY <3>3
    <3>5. outbox'[p][i] = rest[i] /\ <<doc'[p], outbox'[p][i].pack>> = a
      BY <1>2, <1>4, <1>5, <2>1, <3>1
    <3>6. \A m \in 2..4 : Ends(a, m - i)' => Ends(<<doc[p], outbox[p][i].pack>>, m - i)'
      BY <3>5 DEF Ends
    <3>7. \A j \in 1..i : outbox'[p][j].type = rest[j].type
      BY <1>5
    <3> QED
      BY <3>2, <3>4, <3>5, <3>6, <3>7 DEF Continues
  <2> QED
    BY <1>7, <2>6, <2>7, <2>8 DEF Labels
<1>15. pc[p] = "install" /\ rest = <<>> => Ends(<<doc[p], Head(todo[p])>>, 1)'
  <2> SUFFICES ASSUME pc[p] = "install" PROVE Ends(<<doc[p], Head(todo[p])>>, 1)'
    OBVIOUS
  <2>1. h = Head(todo[p]) /\ r.type = "DESIRED_SEEN"
    BY <1>2, <1>3, <1>6 DEF IInv, IOutbox, OutboxOK
  <2>2. Ends(a, 0)
    BY <1>5, <1>8 DEF Ends
  <2>3. Ends(a, 0 + 1)' /\ 0 + 1 = 1
    BY <1>11, <2>1, <2>2, Names
  <2> QED
    BY <1>2, <1>4, <1>5, <2>1, <2>3 DEF Ends
<1>16. ASSUME pc[p] \in {"next", "install"}, NEW k \in installed[p],
              \A i \in 1..Len(rest) : rest[i].pack # k
       PROVE  Ends(<<d, k>>, 4)'
  <2>1. k \in Packs
    BY DEF IInv, ITypes
  <2>2. CASE k # h
    <3>1. \A i \in 1..Len(out) : i = 1 \/ (i - 1 \in 1..Len(rest) /\ rest[i - 1] = out[i])
      BY <1>6
    <3>2. \A i \in 1..Len(out) : out[i].pack # k
      BY <1>3, <1>6, <1>16, <2>2, <3>1
    <3>3. Ends(<<d, k>>, 4)
      BY <1>2, <1>16, <3>2 DEF MInv, MilestonesOK
    <3> QED
      BY <1>11, <1>12, <2>1, <2>2, <3>3, EndsStill
  <2>3. CASE k = h
    <3>1. OutboxOK(p, 1)
      BY <1>2, <1>6 DEF IInv, IOutbox
    <3>2. pc[p] = "next"
      <4>1. CASE pc[p] = "install"
        <5>1. todo[p] \in Seq(Packs) /\ todo[p] # <<>> /\ h = Head(todo[p])
          BY <1>2, <1>3, <1>6, <3>1, <4>1 DEF OutboxOK, IInv, ITypes
        <5>2. h = todo[p][1] /\ 1 \in 1..Len(todo[p])
          BY <5>1, HeadTail
        <5> QED
          BY <2>3, <5>2 DEF IInv, IItems
      <4> QED
        BY <1>16, <4>1
    <3>3. \A i \in 1..Len(out) : out[i].pack = h
      BY <1>2, <1>3, <1>6, <3>1, <3>2 DEF OutboxOK
    <3>4. Len(out) = 1
      <4>1. ASSUME 1 \in 1..Len(rest) PROVE FALSE
        BY <1>13, <1>16, <2>3, <3>3, <4>1
      <4> QED
        BY <1>6, <4>1
    <3>5. After(p, h, {"INSTALL_COMMITTED"})
      BY <2>3, <3>2 DEF IInv, IPass, PassOK
    <3>6. r.type = "INSTALL_COMMITTED"
      <4>1. \A j \in (1 + 1)..Len(out) : out[j].pack # h
        BY <3>4
      <4> QED
        BY <1>2, <1>3, <1>6, <3>5, <4>1 DEF After
    <3>7. Ends(a, 3)
      <4>1. r.type = Path[4] /\ 4 \in 2..4 /\ 4 - 1 = 3
        BY <3>6, Names
      <4>2. Ends(a, 4 - 1)
        BY <1>10, <4>1
      <4> QED
        BY <4>1, <4>2
    <3>8. 3 \in 0..4 /\ r.type = Path[3 + 1] /\ 3 + 1 = 4
      BY <3>6, Names
    <3>9. Ends(a, 3 + 1)'
      BY <1>11, <3>7, <3>8
    <3> QED
      BY <1>4, <2>3, <3>8, <3>9
  <2> QED
    BY <2>2, <2>3
<1>17. pc[p] \in {"attest", "drift"} => \A k \in Packs : After(p, k, RuntimeEvents)'
  <2> SUFFICES ASSUME pc[p] \in {"attest", "drift"}, NEW k \in Packs
               PROVE  After(p, k, RuntimeEvents)'
    OBVIOUS
  <2>1. After(p, k, RuntimeEvents)
    BY DEF MInv, MilestonesOK
  <2> QED
    BY <1>2, <1>3, <1>4, <1>5, <1>7, <2>1, AfterSpooled
<1>18. MilestonesOK(p)'
  BY <1>2, <1>5, <1>14, <1>15, <1>16, <1>17 DEF MilestonesOK, Ends
<1> QED
  BY <1>1, <1>11, <1>18 DEF MInv

LEMMA SpoolFailsContinues ==
    ASSUME OneProcess, IInv, MInv, NEW p \in Procs, SpoolFails(p) PROVE MInv'
<1>1. \A q \in Procs : q = p
  BY DEF OneProcess
<1>2. PICK out, r, d : out = outbox[p] /\ r = Head(outbox[p]) /\ d = doc[p]
  OBVIOUS
<1>3. PICK a, h : h = r.pack /\ a = <<d, h>>
  OBVIOUS
<1>4. /\ out \in Seq(Receipt) /\ out # <<>> /\ reported \in [Attempts -> Seq(Event)]
      /\ reported' \in {reported, Appended(a, r)}
  BY <1>2, <1>3 DEF SpoolFails, IInv, ITypes
<1>5. r \in Receipt /\ r = out[1] /\ 1 \in 1..Len(out)
  BY <1>2, <1>4, HeadTail
<1>6. d \in Docs /\ pc[p] \in Labels \ {"idle"} /\ h \in Packs
  BY <1>2, <1>3, <1>4, <1>5, Constants DEF IInv, ITypes, Docs, Receipt
<1>7. a \in Attempts
  BY <1>3, <1>6 DEF Attempts
<1>8. Continues(p, 1)
  BY <1>2, <1>5 DEF MInv, MilestonesOK
<1>9. /\ r.type = "ACTIVATION_PENDING" => Ends(a, 4)
      /\ r.type \in {"RUNTIME_ATTESTED", "DRIFT_DETECTED"} =>
            last_event_type(a) \in RuntimeEvents
  BY <1>2, <1>3, <1>5, <1>8 DEF Continues
<1>10. /\ IAttested' /\ IRuntime'
       /\ \A b \in Attempts \ {a} : reported'[b] = reported[b]
  <2>1. CASE reported' = reported
    BY <2>1, MilestonesUntouched
  <2>2. CASE reported' = Appended(a, r)
    <3>1. IAttested' /\ IRuntime'
      BY <1>4, <1>5, <1>7, <1>9, <2>2, Continued DEF MInv
    <3> QED
      BY <1>4, <1>5, <1>7, <2>2, <3>1, LastAppended
  <2> QED
    BY <1>4, <2>1, <2>2
<1>11. CASE Leave(p)
  <2>1. pc'[p] = "idle" /\ outbox'[p] = <<>>
    BY <1>11, ToIdle
  <2>2. MilestonesOK(p)'
    BY <2>1, NothingAhead
  <2> QED
    BY <1>1, <1>10, <2>2 DEF MInv
<1>12. CASE Then(p, "finish", ForAllItems("FAILED_RETRYABLE", NoClaim))
  <2>1. "FAILED_RETRYABLE" \in EventTypes
    BY Constants DEF FailureEvents
  <2>2. pc'[p] = "finish" /\ outbox'[p] = ForAllItems("FAILED_RETRYABLE", NoClaim)
    BY <1>12 DEF Then, IInv, ITypes
  <2>3. \A i \in 1..Len(outbox'[p]) : outbox'[p][i].type = "FAILED_RETRYABLE"
    BY <2>1, <2>2, ForAll, Constants
  <2>4. \A m \in 2..4 : Path[m] # "FAILED_RETRYABLE"
    BY Names DEF FailureEvents
  <2>5. \A i \in 1..Len(outbox'[p]) : Continues(p, i)'
    BY <2>3, <2>4 DEF Continues
  <2>6. MilestonesOK(p)'
    BY <2>2, <2>5 DEF MilestonesOK
  <2> QED
    BY <1>1, <1>10, <2>6 DEF MInv
<1>13. CASE /\ r.type \in InstallEvents
            /\ Then(p, "next", ForItem(h, <<"FAILED_RETRYABLE">>))
            /\ installed' = [installed EXCEPT ![p] = @ \ {h}]
            /\ UNCHANGED doc
  <2>1. PICK types : types = <<"FAILED_RETRYABLE">>
    OBVIOUS
  <2>2. /\ types \in Seq(EventTypes) /\ Len(types) = 1 /\ types[1] = "FAILED_RETRYABLE"
        /\ pc'[p] = "next" /\ outbox'[p] = ForItem(h, types) /\ doc'[p] = d
        /\ installed'[p] = installed[p] \ {h}
    BY <1>2, <1>13, <2>1, Constants DEF Then, IInv, ITypes, FailureEvents
  <2>3. Len(outbox'[p]) = 1 /\ outbox'[p][1].type = "FAILED_RETRYABLE"
    BY <1>6, <2>2, ForOne
  <2>4. \A m \in 2..4 : Path[m] # "FAILED_RETRYABLE"
    BY Names DEF FailureEvents
  <2>5. \A i \in 1..Len(outbox'[p]) : outbox'[p][i].type = "FAILED_RETRYABLE"
    BY <2>3
  <2>6. \A i \in 1..Len(outbox'[p]) : Continues(p, i)'
    BY <2>4, <2>5 DEF Continues
  <2>7. OutboxOK(p, 1)
    BY <1>2, <1>5 DEF IInv, IOutbox
  <2>8. pc[p] = "next"
    <3>1. r.type \notin Closed \cup {"DESIRED_SEEN"}
      BY <1>13, Names DEF Closed, InstallEvents
    <3> QED
      BY <1>2, <1>5, <1>6, <2>7, <3>1, Constants DEF OutboxOK, Labels
  <2>9. \A i \in 1..Len(out) : out[i].pack = h
    BY <1>2, <1>3, <1>5, <2>7, <2>8 DEF OutboxOK
  <2>10. ASSUME NEW k \in installed[p] \ {h} PROVE Ends(<<d, k>>, 4)'
    <3>1. k \in Packs /\ \A i \in 1..Len(out) : out[i].pack # k
      BY <2>9, <2>10 DEF IInv, ITypes
    <3>2. Ends(<<d, k>>, 4)
      BY <1>2, <2>8, <2>10, <3>1 DEF MInv, MilestonesOK
    <3>3. <<d, k>> \in Attempts \ {a}
      BY <1>3, <1>6, <2>10, <3>1 DEF Attempts
    <3> QED
      BY <1>10, <3>2, <3>3, EndsStill
  <2>11. MilestonesOK(p)'
    BY <2>2, <2>6, <2>10 DEF MilestonesOK, Ends
  <2> QED
    BY <1>1, <1>10, <2>11 DEF MInv
<1> QED
  BY <1>2, <1>3, <1>11, <1>12, <1>13 DEF SpoolFails


LEMMA StepMilestones == OneProcess /\ IInv /\ MInv /\ [Next]_vars => MInv'
<1> SUFFICES ASSUME OneProcess, IInv, MInv, [Next]_vars PROVE MInv'
  OBVIOUS
<1>1. CASE Publish \/ RuntimeStart \/ Tamper \/ UNCHANGED vars
  <2>1. UNCHANGED <<reported, procVars>>
    BY <1>1 DEF Publish, RuntimeStart, Tamper, vars
  <2> QED
    BY <2>1, PassKept
<1>2. ASSUME NEW p \in Procs, NEW d \in Delivered, Begin(p, d) \/ Resume(p, d) PROVE MInv'
  BY <1>2, BeginContinues
<1>3. ASSUME NEW p \in Procs, Step(p) PROVE MInv'
  <2>1. CASE NextItem(p) \/ InstallItem(p) \/ InstallItemFails(p)
    BY <2>1, NextItemContinues, InstallContinues
  <2>2. CASE CloseInstalled(p) \/ LeavePending(p) \/ Activate(p) \/ ActivateFails(p)
    BY <2>2, CloseContinues, InstalledContinues
  <2>3. CASE Attest(p) \/ AttestPending(p) \/ AttestInvalid(p) \/ DetectDrift(p)
             \/ RuntimeCallFails(p)
    BY <2>3, RuntimeContinues
  <2>4. CASE Spool(p)
    BY <2>4, SpoolContinues
  <2>5. CASE Finish(p)
    <3>1. pc'[p] = "idle" /\ outbox'[p] = <<>> /\ reported' = reported
      BY <2>5, ToIdle DEF Finish
    <3>2. MilestonesOK(p)'
      BY <3>1, NothingAhead
    <3> QED
      BY <3>1, <3>2, MilestonesUntouched DEF MInv, OneProcess
  <2> QED
    BY <1>3, <2>1, <2>2, <2>3, <2>4, <2>5 DEF Step
<1>4. ASSUME NEW p \in Procs, SpoolFails(p) PROVE MInv'
  BY <1>4, SpoolFailsContinues
<1>5. ASSUME NEW p \in Procs, Crash(p) PROVE MInv'
  <2>1. pc'[p] = "idle" /\ outbox'[p] = <<>> /\ reported' = reported
    BY <1>5, ToIdle DEF Crash
  <2>2. MilestonesOK(p)'
    BY <2>1, NothingAhead
  <2> QED
    BY <2>1, <2>2, MilestonesUntouched DEF MInv, OneProcess
<1> QED
  BY <1>1, <1>2, <1>3, <1>4, <1>5 DEF Next

LEMMA InitMilestones == Init => MInv
<1> SUFFICES ASSUME Init PROVE MInv
  OBVIOUS
<1>1. \A a \in Attempts : Len(reported[a]) = 0 /\ last_event_type(a) = ""
  BY DEF Init, last_event_type
<1>2. \A p \in Procs : Len(outbox[p]) = 0 /\ pc[p] = "idle"
  BY DEF Init
<1>3. IAttested /\ IRuntime
  <2>1. IAttested
    <3> SUFFICES ASSUME NEW a \in Attempts, NEW i \in 1..Len(reported[a]) PROVE FALSE
      BY DEF IAttested
    <3>1. Len(reported[a]) = 0
      BY <1>1
    <3> QED
      BY <3>1
  <2>2. "" \notin RuntimeEvents
    BY DEF RuntimeEvents
  <2>3. IRuntime
    BY <1>1, <2>2 DEF IRuntime
  <2> QED
    BY <2>1, <2>3
<1>4. \A p \in Procs : MilestonesOK(p)
  BY <1>2 DEF MilestonesOK
<1> QED
  BY <1>3, <1>4 DEF MInv

(* Across crashes, failing appends and resumed passes, an attestation is    *)
(* reported only of an attempt that one pass announced, verified, committed *)
(* and left pending, with nothing in between.                               *)
THEOREM MilestonesHold == OneProcess /\ Spec => []MilestonesReached
<1>1. OneProcess /\ Spec => []MInv
  <2> SUFFICES ASSUME OneProcess PROVE Spec => []MInv
    OBVIOUS
  <2>1. IInv /\ MInv /\ [Next]_vars => MInv'
    BY StepMilestones
  <2> QED
    BY <2>1, InitMilestones, Invariant, PTL DEF Spec
<1>2. IInv /\ MInv => MilestonesReached
  <2> SUFFICES ASSUME IInv, MInv, NEW a \in Attempts, NEW i \in DOMAIN reported[a],
                      reported[a][i].type = "RUNTIME_ATTESTED",
                      NEW starts, starts = {j \in 1..i : reported[a][j].type = "DESIRED_SEEN"}
               PROVE  /\ starts # {} /\ i > Max(starts) + 4
                      /\ \A n \in 1..5 : reported[a][Max(starts) + n - 1].type = Path[n]
    BY DEF MilestonesReached, Path
  <2>1. reported[a] \in Seq(Event)
    BY DEF IInv, ITypes
  <2>2. i \in 1..Len(reported[a]) /\ Len(reported[a]) \in Nat
    BY <2>1
  <2>3. Carried(a, i)
    BY <2>2 DEF MInv, IAttested
  <2>4. PICK s \in 1..Len(reported[a]) :
           /\ s + 5 <= i
           /\ \A m \in 1..5 : reported[a][s + m - 1].type = Path[m]
           /\ \A j \in (s + 1)..(i - 1) : reported[a][j].type # "DESIRED_SEEN"
    BY <2>3 DEF Carried
  <2>5. s \in starts
    <3>1. 1 \in 1..5 /\ s + 1 - 1 = s /\ s \in 1..i
      BY <2>2, <2>4
    <3>2. reported[a][s + 1 - 1].type = Path[1]
      BY <2>4, <3>1
    <3> QED
      BY <3>1, <3>2, Names
  <2>6. \A j \in starts : j \in 1..i /\ s >= j
    <3> SUFFICES ASSUME NEW j \in starts, j > s PROVE FALSE
      BY <2>2, <2>4
    <3>1. j \in 1..i /\ reported[a][j].type = "DESIRED_SEEN"
      OBVIOUS
    <3>2. j # i
      BY <3>1
    <3>3. j \in (s + 1)..(i - 1)
      BY <2>2, <2>4, <3>1, <3>2
    <3> QED
      BY <2>4, <3>1, <3>3
  <2>7. Max(starts) = s
    <3>1. \A x \in starts : (\A j \in starts : x >= j) => x = s
      BY <2>2, <2>4, <2>5, <2>6
    <3> QED
      BY <2>5, <2>6, <3>1 DEF Max
  <2>8. starts # {} /\ i > s + 4
    BY <2>2, <2>4, <2>5
  <2>9. \A n \in 1..5 : reported[a][s + n - 1].type = Path[n]
    BY <2>4
  <2> QED
    BY <2>7, <2>8, <2>9
<1> QED
  BY <1>1, <1>2, Invariant, PTL

--------------------------------------------------------------------------------
(* To the server: DeliveryAttempt *)

Over == FailureEvents \cup {""}

(* What a pass has still to spool may be reported where its attempt stands. *)
Legal(p, i) ==
    LET r == outbox[p][i]
        a == <<doc[p], r.pack>>
    IN  /\ r.type \notin {"RUNTIME_ATTESTED", "DRIFT_DETECTED"} => r.claim.gen = 0
        /\ r.type = "DRIFT_DETECTED" =>
              last_event_type(a) = "RUNTIME_ATTESTED" /\ last_runtime_generation(a) = r.claim.gen
        /\ r.type = "DESIRED_SEEN" =>
              Len(outbox[p]) = 1 /\ (EveryPassEnded => last_event_type(a) = "")
        /\ r.type \in FailureEvents =>
              /\ (\A j \in 1..(i - 1) : outbox[p][j].pack # r.pack) => last_event_type(a) \notin Over
              /\ \A j \in 1..(i - 1) :
                    outbox[p][j].pack = r.pack => outbox[p][j].type \notin FailureEvents

(* The attestation of the pass is the newest event of every attempt whose   *)
(* receipt is spooled; before a last runtime event none of them is over.    *)
LegalOK(p) ==
    /\ \A i \in 1..Len(outbox[p]) : Legal(p, i)
    /\ pc[p] = "drift" =>
          /\ \A i \in 1..Len(outbox[p]) : outbox[p][i].claim.gen = attestation[p].gen
          /\ \A k \in Packs : (\A i \in 1..Len(outbox[p]) : outbox[p][i].pack # k) =>
                /\ last_event_type(<<doc[p], k>>) = "RUNTIME_ATTESTED"
                /\ last_runtime_generation(<<doc[p], k>>) = attestation[p].gen
    /\ pc[p] = "finish" /\ (\E i \in 1..Len(outbox[p]) : outbox[p][i].type \in RuntimeEvents) =>
          \A k \in Packs : After(p, k, RuntimeEvents)

LInv == \A p \in Procs : LegalOK(p)

LEMMA ClaimsForAll ==
    ASSUME NEW t \in EventTypes, NEW c \in Claim
    PROVE  /\ \A i \in 1..Len(ForAllItems(t, c)) : ForAllItems(t, c)[i].claim = c
           /\ \A i, j \in 1..Len(ForAllItems(t, c)) :
                 ForAllItems(t, c)[i].pack = ForAllItems(t, c)[j].pack => i = j
<1>1. Len(ForAllItems(t, c)) = Len(items) /\ items \in Seq(Packs)
  BY ForAll, Items
<1>2. DOMAIN items = 1..Len(items)
  BY <1>1
<1>3. \A i \in 1..Len(ForAllItems(t, c)) : ForAllItems(t, c)[i].claim = c
  BY <1>1, <1>2 DEF ForAllItems
<1> QED
  BY <1>1, <1>3, ForAll, Items

LEMMA ClaimsForOne ==
    ASSUME NEW h \in Packs, NEW types \in Seq(EventTypes)
    PROVE  \A i \in 1..Len(types) : ForItem(h, types)[i].claim = NoClaim
<1>1. DOMAIN types = 1..Len(types)
  OBVIOUS
<1> QED
  BY <1>1 DEF ForItem

LEMMA LastOfEnds ==
    ASSUME reported \in [Attempts -> Seq(Event)], NEW a \in Attempts, NEW n \in 1..5, Ends(a, n)
    PROVE  last_event_type(a) = Path[n] /\ last_event_type(a) \notin Over
<1>1. reported[a] \in Seq(Event)
  OBVIOUS
<1>2. n <= Len(reported[a]) /\ reported[a][Len(reported[a]) - n + n].type = Path[n]
  BY DEF Ends
<1>3. reported[a] # <<>> /\ Len(reported[a]) - n + n = Len(reported[a])
  BY <1>1, <1>2
<1>4. last_event_type(a) = Path[n]
  BY <1>2, <1>3, LastType
<1>5. n = 1 \/ n = 2 \/ n = 3 \/ n = 4 \/ n = 5
  OBVIOUS
<1>6. Path[n] \notin Over
  BY <1>5, Names DEF Over, FailureEvents
<1> QED
  BY <1>4, <1>6

LEMMA NotOver ==
    /\ RuntimeEvents \cap Over = {} /\ InstallEvents \cap Over = {} /\ "DESIRED_SEEN" \notin Over
    /\ \A t \in EventTypes \ FailureEvents : t \notin Over
    /\ "DESIRED_SEEN" \notin FailureEvents
BY DEF Over, RuntimeEvents, InstallEvents, FailureEvents, EventTypes

(* What is appended is the newest event, with its generation. *)
LEMMA Newest ==
    ASSUME reported \in [Attempts -> Seq(Event)], NEW a \in Attempts, NEW r \in Receipt,
           reported' = Appended(a, r)
    PROVE  /\ last_event_type(a)' = r.type /\ last_runtime_generation(a)' = r.claim.gen
           /\ \A b \in Attempts \ {a} :
                 /\ last_event_type(b)' = last_event_type(b)
                 /\ last_runtime_generation(b)' = last_runtime_generation(b)
<1>1. /\ reported' \in [Attempts -> Seq(Event)] /\ last_event_type(a)' = r.type
      /\ Len(reported'[a]) = Len(reported[a]) + 1
      /\ reported'[a][Len(reported[a]) + 1] = [type |-> r.type, claim |-> r.claim]
      /\ \A b \in Attempts \ {a} :
            reported'[b] = reported[b] /\ last_event_type(b)' = last_event_type(b)
  BY LastAppended
<1>2. reported'[a] \in Seq(Event) /\ reported[a] \in Seq(Event)
  BY <1>1
<1>3. /\ reported'[a] # <<>>
      /\ reported'[a][Len(reported'[a])] = [type |-> r.type, claim |-> r.claim]
  BY <1>1, <1>2
<1>4. last_runtime_generation(a)' = r.claim.gen
  BY <1>3 DEF last_runtime_generation, Last
<1>5. \A b \in Attempts \ {a} : last_runtime_generation(b)' = last_runtime_generation(b)
  BY <1>1 DEF last_runtime_generation, Last
<1> QED
  BY <1>1, <1>4, <1>5

LEMMA LegalKept ==
    ASSUME LInv, UNCHANGED <<reported, procVars>>, EveryPassEnded' => EveryPassEnded
    PROVE  LInv'
<1>1. ASSUME NEW p \in Procs PROVE LegalOK(p)'
  <2>1. \A k \in Packs : After(p, k, RuntimeEvents) => After(p, k, RuntimeEvents)'
    BY AfterKept DEF procVars
  <2>2. \A i : Legal(p, i) => Legal(p, i)'
    BY DEF Legal, last_event_type, last_runtime_generation, Last, EveryPassEnded, procVars
  <2>3. LegalOK(p)
    BY DEF LInv
  <2> QED
    BY <2>1, <2>2, <2>3 DEF LegalOK, last_event_type, last_runtime_generation, Last, procVars
<1> QED
  BY <1>1 DEF LInv

LEMMA NothingLegal ==
    ASSUME OneProcess, NEW p \in Procs, outbox'[p] = <<>>, pc'[p] # "drift"
    PROVE  LInv'
<1>1. Len(outbox'[p]) = 0
  OBVIOUS
<1>2. LegalOK(p)'
  BY <1>1 DEF LegalOK
<1> QED
  BY <1>2 DEF LInv, OneProcess

(* The same receipt for every item. *)
LEMMA AllLegal ==
    ASSUME OneProcess, IInv, NEW p \in Procs, NEW label \in {"attest", "drift", "finish"},
           NEW t \in EventTypes, NEW c \in Claim, Then(p, label, ForAllItems(t, c)),
           NEW d, doc'[p] = d,
           t \notin {"RUNTIME_ATTESTED", "DRIFT_DETECTED", "DESIRED_SEEN"} => c.gen = 0,
           t # "DESIRED_SEEN",
           t = "DRIFT_DETECTED" => \A k \in Packs :
              /\ last_event_type(<<d, k>>)' = "RUNTIME_ATTESTED"
              /\ last_runtime_generation(<<d, k>>)' = c.gen,
           t \in FailureEvents => \A k \in Packs : last_event_type(<<d, k>>)' \notin Over,
           label = "drift" => attestation'[p].gen = c.gen
    PROVE  LInv'
<1>1. \A q \in Procs : q = p
  BY DEF OneProcess
<1>2. pc'[p] = label /\ outbox'[p] = ForAllItems(t, c)
  BY DEF Then, IInv, ITypes
<1>3. /\ \A i \in 1..Len(outbox'[p]) :
            outbox'[p][i].type = t /\ outbox'[p][i].claim = c /\ outbox'[p][i] \in Receipt
      /\ \A i, j \in 1..Len(outbox'[p]) : outbox'[p][i].pack = outbox'[p][j].pack => i = j
      /\ outbox'[p] \in Seq(Receipt)
  BY <1>2, ForAll, ClaimsForAll
<1>4. ASSUME NEW i \in 1..Len(outbox'[p]) PROVE Legal(p, i)'
  <2>1. PICK k \in Packs : k = outbox'[p][i].pack
    BY <1>3 DEF Receipt
  <2>2. outbox'[p][i].type = t /\ outbox'[p][i].claim = c
    BY <1>3
  <2>3. \A j \in 1..(i - 1) : j \in 1..Len(outbox'[p]) /\ j # i
    BY <1>3
  <2>4. \A j \in 1..(i - 1) : outbox'[p][j].pack # k
    BY <1>3, <2>1, <2>3
  <2>5. t = "DRIFT_DETECTED" =>
           last_event_type(<<d, k>>)' = "RUNTIME_ATTESTED"
           /\ last_runtime_generation(<<d, k>>)' = c.gen
    BY <2>1
  <2>6. t \in FailureEvents => last_event_type(<<d, k>>)' \notin Over
    BY <2>1
  <2>7. <<doc'[p], outbox'[p][i].pack>> = <<d, k>>
    BY <2>1
  <2> QED
    BY <2>1, <2>2, <2>4, <2>5, <2>6, <2>7
    DEF Legal, last_event_type, last_runtime_generation, Last, Over
<1>5. ASSUME NEW k \in Packs PROVE \E i \in 1..Len(outbox'[p]) : outbox'[p][i].pack = k
  <2>1. PICK i \in 1..Len(items) : items[i] = k
    BY Items
  <2>2. Len(ForAllItems(t, c)) = Len(items) /\ ForAllItems(t, c)[i].pack = items[i]
    BY ForAll
  <2> QED
    BY <1>2, <2>1, <2>2
<1>6. t \in RuntimeEvents => \A k \in Packs : After(p, k, RuntimeEvents)'
  BY <1>2, AfterAll
<1>7. LegalOK(p)'
  BY <1>2, <1>3, <1>4, <1>5, <1>6 DEF LegalOK
<1> QED
  BY <1>1, <1>7 DEF LInv

LEMMA BeginLegal ==
    ASSUME OneProcess, IInv, NEW p \in Procs, NEW d \in Delivered, Begin(p, d) \/ Resume(p, d)
    PROVE  LInv'
<1>1. outbox'[p] = <<>> /\ pc'[p] # "drift"
  BY DEF Begin, Resume, IInv, ITypes
<1> QED
  BY <1>1, NothingLegal

LEMMA NextItemLegal ==
    ASSUME OneProcess, IInv, UInv, NEW p \in Procs, NextItem(p) PROVE LInv'
<1>1. \A q \in Procs : q = p
  BY DEF OneProcess
<1>2. PICK h, types, d : h = Head(todo[p]) /\ types = <<"DESIRED_SEEN">> /\ d = doc[p]
  OBVIOUS
<1>3. /\ todo[p] \in Seq(Packs) /\ todo[p] # <<>> /\ pc[p] = "next" /\ doc'[p] = d
      /\ types \in Seq(EventTypes) /\ Len(types) = 1 /\ types[1] = "DESIRED_SEEN"
      /\ pc'[p] = "install" /\ outbox'[p] = ForItem(h, types)
      /\ reported' = reported /\ count' = count
  BY <1>2, Constants DEF NextItem, At, Then, IInv, ITypes, adapterVars
<1>4. h \in Packs /\ h = todo[p][1] /\ 1 \in 1..Len(todo[p])
  BY <1>2, <1>3, HeadTail
<1>5. /\ Len(outbox'[p]) = 1 /\ outbox'[p][1].type = "DESIRED_SEEN"
      /\ outbox'[p][1].claim = NoClaim /\ outbox'[p][1].pack = h
  BY <1>3, <1>4, ForOne, ClaimsForOne
<1>6. EveryPassEnded => last_event_type(<<d, h>>) = ""
  <2> SUFFICES ASSUME EveryPassEnded PROVE last_event_type(<<d, h>>) = ""
    OBVIOUS
  <2>1. ToDoOK(p)
    BY DEF UInv, Unkilled
  <2>2. reported[<<d, h>>] = <<>>
    BY <1>2, <1>3, <1>4, <2>1 DEF ToDoOK
  <2> QED
    BY <2>2 DEF last_event_type
<1>7. EveryPassEnded' => last_event_type(<<d, h>>)' = ""
  BY <1>3, <1>6 DEF last_event_type, EveryPassEnded
<1>8. Legal(p, 1)'
  <2>1. NoClaim.gen = 0
    BY DEF NoClaim
  <2>2. <<doc'[p], outbox'[p][1].pack>> = <<d, h>>
    BY <1>3, <1>5
  <2> QED
    BY <1>5, <1>7, <2>1, <2>2, NotOver DEF Legal, last_event_type
<1>9. \A i \in 1..Len(outbox'[p]) : i = 1
  BY <1>5
<1>10. LegalOK(p)'
  BY <1>3, <1>8, <1>9 DEF LegalOK
<1> QED
  BY <1>1, <1>10 DEF LInv

(* Receipts for the item that is being installed. *)
LEMMA OneLegal ==
    ASSUME OneProcess, IInv, NEW p \in Procs, NEW h \in Packs, NEW types \in Seq(EventTypes),
           Then(p, "next", ForItem(h, types)), NEW d, doc'[p] = d,
           last_event_type(<<d, h>>)' \notin Over,
           \A i \in 1..Len(types) : types[i] \in InstallEvents \cup FailureEvents,
           \A i, j \in 1..Len(types) : j < i => types[j] \notin FailureEvents
    PROVE  LInv'
<1>1. \A q \in Procs : q = p
  BY DEF OneProcess
<1>2. pc'[p] = "next" /\ outbox'[p] = ForItem(h, types)
  BY DEF Then, IInv, ITypes
<1>3. /\ Len(outbox'[p]) = Len(types) /\ Len(types) \in Nat
      /\ \A i \in 1..Len(types) : outbox'[p][i].pack = h /\ outbox'[p][i].type = types[i]
                                   /\ outbox'[p][i].claim = NoClaim
  BY <1>2, ForOne, ClaimsForOne
<1>4. ASSUME NEW i \in 1..Len(types) PROVE Legal(p, i)'
  <2>1. types[i] \notin {"RUNTIME_ATTESTED", "DRIFT_DETECTED", "DESIRED_SEEN"}
    BY DEF InstallEvents, FailureEvents
  <2>2. NoClaim.gen = 0
    BY DEF NoClaim
  <2>3. \A j \in 1..(i - 1) : j \in 1..Len(types) /\ j < i
    BY <1>3
  <2>4. \A j \in 1..(i - 1) : outbox'[p][j].type \notin FailureEvents
    BY <1>3, <2>3
  <2>5. <<doc'[p], outbox'[p][i].pack>> = <<d, h>>
    BY <1>3
  <2> QED
    BY <1>3, <2>1, <2>2, <2>4, <2>5 DEF Legal, last_event_type, Over
<1>5. LegalOK(p)'
  BY <1>2, <1>3, <1>4 DEF LegalOK
<1> QED
  BY <1>1, <1>5 DEF LInv

LEMMA InstallLegal ==
    ASSUME OneProcess, IInv, MInv, NEW p \in Procs, InstallItem(p) \/ InstallItemFails(p)
    PROVE  LInv'
<1>1. PICK types \in {<<"MANIFEST_VERIFIED", "ARTIFACT_VERIFIED", "INSTALL_COMMITTED">>,
                      <<"FAILED_RETRYABLE">>, <<"FAILED_TERMINAL">>,
                      <<"MANIFEST_VERIFIED", "FAILED_TERMINAL">>} :
         Then(p, "next", ForItem(Head(todo[p]), types))
  BY DEF InstallItem, InstallItemFails
<1>2. PICK h, d : h = Head(todo[p]) /\ d = doc[p]
  OBVIOUS
<1>3. /\ pc[p] = "install" /\ todo[p] \in Seq(Packs) /\ todo[p] # <<>> /\ outbox[p] = <<>>
      /\ doc'[p] = d /\ reported' = reported /\ reported \in [Attempts -> Seq(Event)]
      /\ d \in Docs
  BY <1>2, Constants DEF InstallItem, InstallItemFails, At, IInv, ITypes, IPass, PassOK, Docs
<1>4. h \in Packs
  BY <1>2, <1>3, HeadTail
<1>5. last_event_type(<<d, h>>)' \notin Over
  <2>1. Ends(<<d, h>>, 1)
    BY <1>2, <1>3 DEF MInv, MilestonesOK
  <2>2. <<d, h>> \in Attempts /\ 1 \in 1..5
    BY <1>3, <1>4 DEF Attempts
  <2>3. last_event_type(<<d, h>>) \notin Over
    BY <1>3, <2>1, <2>2, LastOfEnds
  <2> QED
    BY <1>3, <2>3 DEF last_event_type, Over
<1>6. /\ types \in Seq(EventTypes)
      /\ \A i \in 1..Len(types) : types[i] \in InstallEvents \cup FailureEvents
      /\ \A i, j \in 1..Len(types) : j < i => types[j] \notin FailureEvents
  <2>1. CASE types = <<"MANIFEST_VERIFIED", "ARTIFACT_VERIFIED", "INSTALL_COMMITTED">>
    <3>1. Len(types) = 3 /\ \A i \in 1..3 : i = 1 \/ i = 2 \/ i = 3
      BY <2>1
    <3>2. \A i \in 1..3 : types[i] \in InstallEvents
      BY <2>1, <3>1 DEF InstallEvents
    <3>3. types \in Seq(EventTypes)
      BY <2>1 DEF EventTypes, InstallEvents
    <3> QED
      BY <3>1, <3>2, <3>3, Names
  <2>2. CASE types \in {<<"FAILED_RETRYABLE">>, <<"FAILED_TERMINAL">>}
    <3>1. Len(types) = 1 /\ types[1] \in FailureEvents /\ types \in Seq(EventTypes)
      BY <2>2 DEF EventTypes, FailureEvents
    <3>2. \A i \in 1..1 : i = 1
      OBVIOUS
    <3> QED
      BY <3>1, <3>2
  <2>3. CASE types = <<"MANIFEST_VERIFIED", "FAILED_TERMINAL">>
    <3>1. /\ Len(types) = 2 /\ types[1] \in InstallEvents /\ types[2] \in FailureEvents
          /\ types \in Seq(EventTypes)
      BY <2>3 DEF EventTypes, InstallEvents, FailureEvents
    <3>2. \A i \in 1..2 : i = 1 \/ i = 2
      OBVIOUS
    <3>3. \A i, j \in 1..2 : j < i => j = 1
      OBVIOUS
    <3> QED
      BY <3>1, <3>2, <3>3, Names
  <2> QED
    BY <2>1, <2>2, <2>3
<1> QED
  BY <1>1, <1>2, <1>3, <1>4, <1>5, <1>6, OneLegal

LEMMA CloseLegal ==
    ASSUME OneProcess, IInv, MInv, NEW p \in Procs, CloseInstalled(p) PROVE LInv'
<1>1. \A q \in Procs : q = p
  BY DEF OneProcess
<1>2. PICK out, d : out = PeersClosed(p) /\ d = doc[p]
  OBVIOUS
<1>3. /\ pc[p] = "next" /\ outbox[p] = <<>> /\ pc'[p] = "finish" /\ outbox'[p] = out
      /\ doc'[p] = d /\ reported' = reported /\ reported \in [Attempts -> Seq(Event)]
      /\ d \in Docs /\ installed[p] \subseteq Packs
  BY <1>2, Constants DEF CloseInstalled, At, Then, IInv, ITypes, Docs
<1>4. /\ out \in Seq(Receipt)
      /\ \A i \in 1..Len(out) : out[i].type = "FAILED_RETRYABLE" /\ out[i].pack \in installed[p]
      /\ \A i, j \in 1..Len(out) : out[i].pack = out[j].pack => i = j
  BY <1>2, Peers
<1>5. \A i \in 1..Len(out) : out[i].claim = NoClaim
  <2>1. PICK peers : peers = SetToSeq(installed[p])
    OBVIOUS
  <2>2. out = [i \in DOMAIN peers |->
                 [pack |-> peers[i], type |-> "FAILED_RETRYABLE", claim |-> NoClaim]]
    BY <1>2, <2>1 DEF PeersClosed
  <2>3. DOMAIN out = 1..Len(out) /\ DOMAIN out = DOMAIN peers
    BY <1>4, <2>2
  <2> QED
    BY <2>2, <2>3
<1>6. ASSUME NEW k \in installed[p] PROVE last_event_type(<<d, k>>)' \notin Over
  <2>1. Ends(<<d, k>>, 4) /\ <<d, k>> \in Attempts /\ 4 \in 1..5
    BY <1>2, <1>3, InstalledEnds DEF Attempts
  <2>2. last_event_type(<<d, k>>) \notin Over
    BY <1>3, <2>1, LastOfEnds
  <2> QED
    BY <1>3, <2>2 DEF last_event_type, Over
<1>7. ASSUME NEW i \in 1..Len(outbox'[p]) PROVE Legal(p, i)'
  <2>1. PICK k \in installed[p] : k = out[i].pack
    BY <1>3, <1>4
  <2>2. out[i].type = "FAILED_RETRYABLE" /\ out[i].claim.gen = 0
    BY <1>3, <1>4, <1>5 DEF NoClaim
  <2>3. \A j \in 1..(i - 1) : j \in 1..Len(out) /\ j # i
    BY <1>3, <1>4
  <2>4. \A j \in 1..(i - 1) : out[j].pack # k
    BY <1>3, <1>4, <2>1, <2>3
  <2>5. last_event_type(<<d, k>>)' \notin Over
    BY <1>6
  <2>6. <<doc'[p], outbox'[p][i].pack>> = <<d, k>> /\ outbox'[p] = out
    BY <1>3, <2>1
  <2> QED
    BY <2>1, <2>2, <2>4, <2>5, <2>6 DEF Legal, last_event_type, Over
<1>8. \A i \in 1..Len(outbox'[p]) : outbox'[p][i].type \notin RuntimeEvents
  BY <1>3, <1>4, Names DEF FailureEvents
<1>9. LegalOK(p)'
  BY <1>3, <1>7, <1>8 DEF LegalOK
<1> QED
  BY <1>1, <1>9 DEF LInv

LEMMA InstalledLegal ==
    ASSUME OneProcess, IInv, MInv, NEW p \in Procs,
           LeavePending(p) \/ Activate(p) \/ ActivateFails(p)
    PROVE  LInv'
<1>1. PICK d : d = doc[p]
  OBVIOUS
<1>2. /\ pc[p] = "next" /\ outbox[p] = <<>> /\ installed[p] = Packs
      /\ reported' = reported /\ doc'[p] = d /\ reported \in [Attempts -> Seq(Event)]
      /\ d \in Docs
  BY <1>1, Constants
  DEF LeavePending, Activate, ActivateFails, At, AllInstalled, IInv, ITypes, Docs
<1>3. ASSUME NEW k \in Packs PROVE last_event_type(<<d, k>>)' \notin Over
  <2>1. Ends(<<d, k>>, 4) /\ <<d, k>> \in Attempts /\ 4 \in 1..5
    BY <1>1, <1>2, InstalledEnds DEF Attempts
  <2>2. last_event_type(<<d, k>>) \notin Over
    BY <1>2, <2>1, LastOfEnds
  <2> QED
    BY <1>2, <2>2 DEF last_event_type, Over
<1>4. PICK label \in {"attest", "finish"}, t \in FailureEvents \cup {"ACTIVATION_PENDING"} :
         Then(p, label, ForAllItems(t, NoClaim))
  BY DEF LeavePending, Activate, ActivateFails
<1>5. /\ t \in EventTypes /\ t \notin {"DRIFT_DETECTED", "DESIRED_SEEN"} /\ NoClaim.gen = 0
      /\ label \in {"attest", "drift", "finish"} /\ label # "drift" /\ NoClaim \in Claim
  BY Constants DEF FailureEvents, RuntimeEvents, NoClaim
<1> QED
  BY <1>2, <1>3, <1>4, <1>5, AllLegal

LEMMA RuntimeLegal ==
    ASSUME OneProcess, IInv, MInv, LInv, NEW p \in Procs,
           \/ Attest(p) \/ AttestPending(p) \/ AttestInvalid(p)
           \/ RuntimeCallFails(p) \/ DetectDrift(p)
    PROVE  LInv'
<1>1. PICK d : d = doc[p]
  OBVIOUS
<1>2. /\ pc[p] \in {"attest", "drift"} /\ outbox[p] = <<>> /\ Len(outbox[p]) = 0
      /\ reported' = reported /\ doc'[p] = d
  BY <1>1 DEF Attest, AttestPending, AttestInvalid, RuntimeCallFails, DetectDrift, At
<1>3. ASSUME NEW k \in Packs PROVE last_event_type(<<d, k>>)' \notin Over
  <2>1. last_event_type(<<d, k>>) \in RuntimeEvents
    BY <1>1, <1>2, AfterNothing DEF MInv, MilestonesOK
  <2>2. last_event_type(<<d, k>>) \notin Over
    BY <2>1, NotOver
  <2> QED
    BY <1>2, <2>2 DEF last_event_type, Over
<1>4. CASE Attest(p)
  <2>1. PICK c : c = [gen |-> runtime.gen, inventory |-> active]
    OBVIOUS
  <2>2. c \in Claim
    BY <2>1 DEF Claim, IInv, ITypes
  <2>3. attestation'[p] = c
    BY <1>4, <2>1 DEF Attest, IInv, ITypes
  <2>4. Then(p, "drift", ForAllItems("RUNTIME_ATTESTED", c))
    BY <1>4, <2>3 DEF Attest
  <2>5. /\ "RUNTIME_ATTESTED" \in EventTypes /\ "RUNTIME_ATTESTED" \notin FailureEvents
        /\ attestation'[p].gen = c.gen
    BY <2>3, Constants DEF RuntimeEvents, FailureEvents
  <2> QED
    BY <1>2, <2>2, <2>4, <2>5, AllLegal
<1>5. CASE AttestInvalid(p) \/ RuntimeCallFails(p)
  <2>1. PICK t \in FailureEvents : Then(p, "finish", ForAllItems(t, NoClaim))
    BY <1>5 DEF AttestInvalid, RuntimeCallFails, FailureEvents
  <2>2. /\ t \in EventTypes /\ t \notin {"DRIFT_DETECTED", "DESIRED_SEEN"} /\ NoClaim.gen = 0
        /\ NoClaim \in Claim
    BY Constants DEF FailureEvents, NoClaim
  <2> QED
    BY <1>2, <1>3, <2>1, <2>2, AllLegal
<1>6. CASE DetectDrift(p) /\ Then(p, "finish", ForAllItems("DRIFT_DETECTED", attestation[p]))
  <2>1. PICK c \in Claim : c = attestation[p]
    BY DEF IInv, ITypes
  <2>2. pc[p] = "drift" /\ LegalOK(p)
    BY <1>6 DEF DetectDrift, At, LInv
  <2>3. ASSUME NEW k \in Packs
        PROVE  last_event_type(<<d, k>>) = "RUNTIME_ATTESTED"
               /\ last_runtime_generation(<<d, k>>) = c.gen
    BY <1>1, <1>2, <2>1, <2>2 DEF LegalOK
  <2>4. ASSUME NEW k \in Packs
        PROVE  last_event_type(<<d, k>>)' = "RUNTIME_ATTESTED"
               /\ last_runtime_generation(<<d, k>>)' = c.gen
    BY <1>2, <2>3 DEF last_event_type, last_runtime_generation, Last
  <2>5. "DRIFT_DETECTED" \in EventTypes /\ "DRIFT_DETECTED" \notin FailureEvents
    BY Constants DEF RuntimeEvents, FailureEvents
  <2>6. Then(p, "finish", ForAllItems("DRIFT_DETECTED", c))
    BY <1>6, <2>1
  <2> QED
    BY <1>2, <2>4, <2>5, <2>6, AllLegal
<1>7. CASE Then(p, "finish", <<>>)
  <2>1. pc'[p] = "finish" /\ outbox'[p] = <<>>
    BY <1>7 DEF Then, IInv, ITypes
  <2> QED
    BY <2>1, NothingLegal
<1> QED
  BY <1>4, <1>5, <1>6, <1>7 DEF DetectDrift, AttestPending

LEMMA SpoolLegal ==
    ASSUME OneProcess, IInv, LInv, NEW p \in Procs, Spool(p) PROVE LInv'
<1>1. \A q \in Procs : q = p
  BY DEF OneProcess
<1>2. PICK out, r, d : out = outbox[p] /\ r = Head(outbox[p]) /\ d = doc[p]
  OBVIOUS
<1>3. PICK rest, h : rest = Tail(out) /\ h = r.pack
  OBVIOUS
<1>4. PICK a : a = <<d, h>>
  OBVIOUS
<1>5. /\ out \in Seq(Receipt) /\ out # <<>> /\ reported \in [Attempts -> Seq(Event)]
      /\ outbox'[p] = rest
      /\ reported' = IF AlreadyAttested(p, r) THEN reported ELSE Appended(a, r)
      /\ UNCHANGED <<pc, doc, todo, attestation, count>>
  BY <1>2, <1>3, <1>4 DEF Spool, IInv, ITypes
<1>6. /\ r \in Receipt /\ r = out[1] /\ 1 \in 1..Len(out) /\ rest \in Seq(Receipt)
      /\ Len(rest) = Len(out) - 1 /\ Len(out) \in Nat
      /\ \A i \in 1..(Len(out) - 1) : rest[i] = out[i + 1]
  BY <1>2, <1>3, <1>5, HeadTail
<1>7. d \in Docs /\ pc[p] \in Labels \ {"idle"} /\ h \in Packs
  BY <1>2, <1>3, <1>5, <1>6, Constants DEF IInv, ITypes, Docs, Receipt
<1>8. a \in Attempts
  BY <1>4, <1>7 DEF Attempts
<1>9. LegalOK(p)
  BY DEF LInv
<1>10. last_event_type(a)' = r.type /\ last_runtime_generation(a)' = r.claim.gen
  <2>1. CASE AlreadyAttested(p, r)
    <3>1. r.type = last_event_type(a) /\ last_runtime_generation(a) = r.claim.gen
      BY <1>2, <1>3, <1>4, <2>1 DEF AlreadyAttested
    <3>2. reported' = reported
      BY <1>5, <2>1
    <3> QED
      BY <3>1, <3>2 DEF last_event_type, last_runtime_generation, Last
  <2>2. CASE ~AlreadyAttested(p, r)
    BY <1>5, <1>6, <1>8, <2>2, Newest
  <2> QED
    BY <2>1, <2>2
<1>11. \A b \in Attempts \ {a} :
          /\ last_event_type(b)' = last_event_type(b)
          /\ last_runtime_generation(b)' = last_runtime_generation(b)
  <2>1. CASE AlreadyAttested(p, r)
    <3>1. reported' = reported
      BY <1>5, <2>1
    <3> QED
      BY <3>1 DEF last_event_type, last_runtime_generation, Last
  <2>2. CASE ~AlreadyAttested(p, r)
    BY <1>5, <1>6, <1>8, <2>2, Newest
  <2> QED
    BY <2>1, <2>2
<1>12. \A k \in Packs \ {h} : <<d, k>> \in Attempts \ {a}
  BY <1>4, <1>7 DEF Attempts
<1>13. \A i \in 1..Len(rest) : i + 1 \in 2..Len(out) /\ rest[i] = out[i + 1]
  BY <1>6
<1>14. \A i \in 2..Len(out) : i - 1 \in 1..Len(rest) /\ rest[i - 1] = out[i]
  BY <1>6
<1>15. ASSUME NEW i \in 1..Len(rest) PROVE Legal(p, i)'
  <2>1. PICK x \in 2..Len(out) : x = i + 1 /\ rest[i] = out[x]
    BY <1>13
  <2>2. PICK s, k : s = rest[i] /\ k = s.pack
    OBVIOUS
  <2>3. s \in Receipt /\ k \in Packs /\ x \in 1..Len(out) /\ x # 1 /\ s = out[x]
    <3>1. x \in 1..Len(out) /\ x # 1 /\ s = out[x]
      BY <1>6, <2>1, <2>2
    <3>2. s \in Receipt
      BY <1>5, <3>1
    <3> QED
      BY <2>2, <3>1, <3>2 DEF Receipt
  <2>4. /\ s.type \notin {"RUNTIME_ATTESTED", "DRIFT_DETECTED"} => s.claim.gen = 0
        /\ s.type = "DRIFT_DETECTED" =>
              /\ last_event_type(<<d, k>>) = "RUNTIME_ATTESTED"
              /\ last_runtime_generation(<<d, k>>) = s.claim.gen
        /\ s.type = "DESIRED_SEEN" => Len(out) = 1
        /\ s.type \in FailureEvents =>
              /\ (\A j \in 1..(x - 1) : out[j].pack # k) => last_event_type(<<d, k>>) \notin Over
              /\ \A j \in 1..(x - 1) : out[j].pack = k => out[j].type \notin FailureEvents
    BY <1>2, <1>9, <2>2, <2>3 DEF LegalOK, Legal
  <2>5. s.type # "DESIRED_SEEN"
    BY <2>1, <2>4
  <2>6. s.type = "DRIFT_DETECTED" =>
              /\ last_event_type(<<d, k>>)' = "RUNTIME_ATTESTED"
              /\ last_runtime_generation(<<d, k>>)' = s.claim.gen
    <3> SUFFICES ASSUME s.type = "DRIFT_DETECTED"
                 PROVE  /\ last_event_type(<<d, k>>)' = "RUNTIME_ATTESTED"
                        /\ last_runtime_generation(<<d, k>>)' = s.claim.gen
      OBVIOUS
    <3>1. OutboxOK(p, x) /\ OutboxOK(p, 1) /\ s.type \in RuntimeEvents
      BY <1>2, <1>6, <2>3 DEF IInv, IOutbox, RuntimeEvents
    <3>2. pc[p] \in {"attest", "drift", "finish"}
      BY <1>2, <2>3, <3>1 DEF OutboxOK
    <3>3. k # h
      BY <1>2, <1>3, <1>6, <2>2, <2>3, <3>1, <3>2 DEF OutboxOK
    <3>4. <<d, k>> \in Attempts \ {a}
      BY <1>12, <2>3, <3>3
    <3> QED
      BY <1>11, <2>4, <3>4
  <2>7. s.type \in FailureEvents /\ (\A j \in 1..(i - 1) : rest[j].pack # k) =>
              last_event_type(<<d, k>>)' \notin Over
    <3> SUFFICES ASSUME s.type \in FailureEvents, \A j \in 1..(i - 1) : rest[j].pack # k
                 PROVE  last_event_type(<<d, k>>)' \notin Over
      OBVIOUS
    <3>1. CASE k = h
      <4>1. 1 \in 1..(x - 1)
        BY <2>1
      <4>2. r.type \notin FailureEvents /\ r.type \in EventTypes
        BY <1>3, <1>6, <2>4, <3>1, <4>1 DEF Receipt
      <4>3. r.type \notin Over
        BY <4>2, NotOver
      <4> QED
        BY <1>4, <1>10, <3>1, <4>3
    <3>2. CASE k # h
      <4>1. ASSUME NEW j \in 1..(x - 1) PROVE out[j].pack # k
        <5>1. CASE j = 1
          BY <1>3, <1>6, <3>2, <5>1
        <5>2. CASE j # 1
          <6>1. j \in 2..Len(out) /\ j - 1 \in 1..(i - 1)
            BY <1>6, <2>1, <5>2
          <6>2. rest[j - 1] = out[j]
            BY <1>14, <6>1
          <6> QED
            BY <6>1, <6>2
        <5> QED
          BY <5>1, <5>2
      <4>2. last_event_type(<<d, k>>) \notin Over
        BY <2>4, <4>1
      <4>3. <<d, k>> \in Attempts \ {a}
        BY <1>12, <2>3, <3>2
      <4> QED
        BY <1>11, <4>2, <4>3
    <3> QED
      BY <3>1, <3>2
  <2>8. ASSUME s.type \in FailureEvents, NEW j \in 1..(i - 1), rest[j].pack = k
        PROVE  rest[j].type \notin FailureEvents
    <3>1. j \in 1..Len(rest) /\ j + 1 \in 1..(x - 1)
      BY <2>1, <1>6
    <3>2. rest[j] = out[j + 1]
      BY <1>13, <3>1
    <3> QED
      BY <2>4, <2>8, <3>1, <3>2
  <2>9. <<doc'[p], outbox'[p][i].pack>> = <<d, k>> /\ outbox'[p] = rest /\ outbox'[p][i] = s
    BY <1>2, <1>5, <2>2
  <2> QED
    BY <2>2, <2>4, <2>5, <2>6, <2>7, <2>8, <2>9
    DEF Legal, last_event_type, last_runtime_generation, Last, Over
<1>16. ASSUME pc[p] = "drift", NEW i \in 1..Len(rest)
       PROVE  rest[i].claim.gen = attestation[p].gen
  <2>1. i + 1 \in 1..Len(out) /\ rest[i] = out[i + 1]
    BY <1>13
  <2> QED
    BY <1>2, <1>9, <1>16, <2>1 DEF LegalOK
<1>17. ASSUME pc[p] = "drift", NEW k \in Packs, \A i \in 1..Len(rest) : rest[i].pack # k
       PROVE  /\ last_event_type(<<d, k>>)' = "RUNTIME_ATTESTED"
              /\ last_runtime_generation(<<d, k>>)' = attestation[p].gen
  <2>1. CASE k = h
    <3>1. r.type = "RUNTIME_ATTESTED"
      <4>1. OutboxOK(p, 1)
        BY <1>2, <1>6 DEF IInv, IOutbox
      <4> QED
        BY <1>2, <1>6, <1>17, <4>1 DEF OutboxOK
    <3>2. r.claim.gen = attestation[p].gen
      BY <1>2, <1>6, <1>9, <1>17 DEF LegalOK
    <3> QED
      BY <1>4, <1>10, <2>1, <3>1, <3>2
  <2>2. CASE k # h
    <3>1. ASSUME NEW i \in 1..Len(out) PROVE out[i].pack # k
      <4>1. i = 1 \/ i \in 2..Len(out)
        BY <1>6
      <4> QED
        BY <1>3, <1>6, <1>14, <1>17, <2>2, <4>1
    <3>2. /\ last_event_type(<<d, k>>) = "RUNTIME_ATTESTED"
          /\ last_runtime_generation(<<d, k>>) = attestation[p].gen
      BY <1>2, <1>9, <1>17, <3>1 DEF LegalOK
    <3>3. <<d, k>> \in Attempts \ {a}
      BY <1>12, <2>2
    <3> QED
      BY <1>11, <3>2, <3>3
  <2> QED
    BY <2>1, <2>2
<1>18. ASSUME pc[p] = "finish", NEW i \in 1..Len(rest), rest[i].type \in RuntimeEvents
       PROVE  \A k \in Packs : After(p, k, RuntimeEvents)'
  <2> SUFFICES ASSUME NEW k \in Packs PROVE After(p, k, RuntimeEvents)'
    OBVIOUS
  <2>1. i + 1 \in 1..Len(out) /\ rest[i] = out[i + 1]
    BY <1>13
  <2>2. After(p, k, RuntimeEvents)
    BY <1>2, <1>9, <1>18, <2>1 DEF LegalOK
  <2> QED
    BY <1>2, <1>3, <1>4, <1>5, <1>7, <2>2, AfterSpooled
<1>19. LegalOK(p)'
  <2>1. \A i \in 1..Len(outbox'[p]) : Legal(p, i)'
    BY <1>5, <1>15
  <2>2. pc'[p] = "drift" => \A i \in 1..Len(outbox'[p]) :
           outbox'[p][i].claim.gen = attestation'[p].gen
    BY <1>5, <1>16
  <2>3. ASSUME pc'[p] = "drift", NEW k \in Packs,
               \A i \in 1..Len(outbox'[p]) : outbox'[p][i].pack # k
        PROVE  /\ last_event_type(<<d, k>>)' = "RUNTIME_ATTESTED"
               /\ last_runtime_generation(<<d, k>>)' = attestation'[p].gen
    <3>1. pc[p] = "drift" /\ \A i \in 1..Len(rest) : rest[i].pack # k
      BY <1>5, <2>3
    <3>2. attestation'[p] = attestation[p]
      BY <1>5
    <3> QED
      BY <1>17, <3>1, <3>2
  <2>4. pc'[p] = "finish"
           /\ (\E i \in 1..Len(outbox'[p]) : outbox'[p][i].type \in RuntimeEvents)
        => \A k \in Packs : After(p, k, RuntimeEvents)'
    BY <1>5, <1>18
  <2>5. doc'[p] = d
    BY <1>2, <1>5
  <2> QED
    BY <2>1, <2>2, <2>3, <2>4, <2>5
    DEF LegalOK, last_event_type, last_runtime_generation, Last
<1> QED
  BY <1>1, <1>19 DEF LInv

(* Where a last runtime event is to be spooled, no attempt is over.         *)
LEMMA StillOpen ==
    ASSUME IInv, MInv, LInv, NEW p \in Procs, outbox[p] # <<>>,
           Head(outbox[p]).type \in RuntimeEvents, NEW k \in Packs
    PROVE  last_event_type(<<doc[p], k>>) \notin Over
<1>1. PICK out, d, r : out = outbox[p] /\ d = doc[p] /\ r = Head(out)
  OBVIOUS
<1>2. /\ out \in Seq(Receipt) /\ r = out[1] /\ 1 \in 1..Len(out) /\ d \in Docs
      /\ reported \in [Attempts -> Seq(Event)] /\ r.type \in RuntimeEvents
  <2>1. out \in Seq(Receipt) /\ out # <<>> /\ reported \in [Attempts -> Seq(Event)]
    BY <1>1 DEF IInv, ITypes
  <2>2. d \in Docs
    BY <1>1, Constants DEF IInv, ITypes, Docs
  <2> QED
    BY <1>1, <2>1, <2>2, HeadTail
<1>3. OutboxOK(p, 1)
  BY <1>1, <1>2 DEF IInv, IOutbox
<1>4. pc[p] \in {"attest", "drift", "finish"}
  BY <1>1, <1>2, <1>3 DEF OutboxOK
<1>5. After(p, k, RuntimeEvents)
  BY <1>1, <1>2, <1>4 DEF MInv, MilestonesOK, LInv, LegalOK
<1>6. CASE \A i \in 1..Len(out) : out[i].pack # k
  BY <1>1, <1>5, <1>6, NotOver DEF After
<1>7. CASE \E i \in 1..Len(out) : out[i].pack = k
  <2>1. PICK i \in 1..Len(out) : out[i].pack = k
    BY <1>7
  <2>2. OutboxOK(p, i)
    BY <1>1, <2>1 DEF IInv, IOutbox
  <2>3. \A j \in (i + 1)..Len(out) : j \in 1..Len(out) /\ j # i
    BY <1>2, <2>1
  <2>4. \A j \in (i + 1)..Len(out) : out[j].pack # k
    BY <1>1, <1>4, <2>1, <2>2, <2>3 DEF OutboxOK
  <2>5. out[i].type \in RuntimeEvents
    BY <1>1, <1>5, <2>1, <2>4 DEF After
  <2>6. /\ out[i].type = "ACTIVATION_PENDING" => Ends(<<d, k>>, 4)
        /\ out[i].type \in {"RUNTIME_ATTESTED", "DRIFT_DETECTED"} =>
              last_event_type(<<d, k>>) \in RuntimeEvents
    BY <1>1, <2>1 DEF MInv, MilestonesOK, Continues
  <2>7. CASE out[i].type = "ACTIVATION_PENDING"
    <3>1. <<d, k>> \in Attempts /\ 4 \in 1..5 /\ Ends(<<d, k>>, 4)
      BY <1>2, <2>6, <2>7 DEF Attempts
    <3> QED
      BY <1>1, <1>2, <3>1, LastOfEnds
  <2>8. CASE out[i].type \in {"RUNTIME_ATTESTED", "DRIFT_DETECTED"}
    BY <1>1, <2>6, <2>8, NotOver
  <2> QED
    BY <2>5, <2>7, <2>8 DEF RuntimeEvents
<1> QED
  BY <1>6, <1>7

LEMMA SpoolFailsLegal ==
    ASSUME OneProcess, IInv, MInv, LInv, NEW p \in Procs, SpoolFails(p) PROVE LInv'
<1>1. PICK out, r, d : out = outbox[p] /\ r = Head(out) /\ d = doc[p]
  OBVIOUS
<1>2. PICK h : h = r.pack
  OBVIOUS
<1>3. /\ out \in Seq(Receipt) /\ out # <<>> /\ reported \in [Attempts -> Seq(Event)]
      /\ reported' \in {reported, Appended(<<d, h>>, r)}
  BY <1>1, <1>2 DEF SpoolFails, IInv, ITypes
<1>4. r \in Receipt /\ r = out[1] /\ 1 \in 1..Len(out)
  BY <1>1, <1>3, HeadTail
<1>5. d \in Docs /\ h \in Packs /\ <<d, h>> \in Attempts
  <2>1. d \in Docs
    BY <1>1, <1>3, Constants DEF IInv, ITypes, Docs
  <2> QED
    BY <1>2, <1>4, <2>1 DEF Receipt, Attempts
<1>6. ASSUME NEW k \in Packs, last_event_type(<<d, k>>) \notin Over, r.type \notin Over
      PROVE  last_event_type(<<d, k>>)' \notin Over
  <2>1. CASE reported' = reported
    BY <1>6, <2>1 DEF last_event_type, Over
  <2>2. CASE reported' = Appended(<<d, h>>, r) /\ k = h
    <3>1. last_event_type(<<d, h>>)' = r.type
      BY <1>3, <1>4, <1>5, <2>2, Newest
    <3> QED
      BY <1>6, <2>2, <3>1
  <2>3. CASE reported' = Appended(<<d, h>>, r) /\ k # h
    <3>1. <<d, k>> \in Attempts \ {<<d, h>>}
      BY <1>5, <2>3 DEF Attempts
    <3>2. last_event_type(<<d, k>>)' = last_event_type(<<d, k>>)
      BY <1>3, <1>4, <1>5, <2>3, <3>1, Newest
    <3> QED
      BY <1>6, <3>2
  <2> QED
    BY <1>3, <2>1, <2>2, <2>3
<1>7. CASE Leave(p)
  <2>1. pc'[p] = "idle" /\ outbox'[p] = <<>>
    BY <1>7, ToIdle
  <2> QED
    BY <2>1, NothingLegal
<1>8. CASE /\ r.type \in RuntimeEvents
           /\ Then(p, "finish", ForAllItems("FAILED_RETRYABLE", NoClaim))
           /\ UNCHANGED doc
  <2>1. r.type \notin Over /\ doc'[p] = d
    BY <1>1, <1>8, NotOver
  <2>2. \A k \in Packs : last_event_type(<<d, k>>)' \notin Over
    BY <1>1, <1>3, <1>6, <1>8, <2>1, StillOpen
  <2>3. PICK t : t = "FAILED_RETRYABLE"
    OBVIOUS
  <2>4. /\ t \in EventTypes /\ t \notin {"DRIFT_DETECTED", "DESIRED_SEEN"} /\ NoClaim.gen = 0
        /\ NoClaim \in Claim /\ Then(p, "finish", ForAllItems(t, NoClaim))
    BY <1>8, <2>3, Constants DEF FailureEvents, NoClaim
  <2> QED
    BY <2>1, <2>2, <2>4, AllLegal
<1>9. CASE /\ r.type \in InstallEvents
           /\ Then(p, "next", ForItem(h, <<"FAILED_RETRYABLE">>))
           /\ UNCHANGED doc
  <2>1. PICK types : types = <<"FAILED_RETRYABLE">>
    OBVIOUS
  <2>2. /\ types \in Seq(EventTypes) /\ Len(types) = 1 /\ types[1] \in FailureEvents
        /\ Then(p, "next", ForItem(h, types)) /\ doc'[p] = d
    BY <1>1, <1>9, <2>1, Constants DEF FailureEvents
  <2>3. PICK m \in 2..4 : r.type = Path[m]
    <3>1. 2 \in 2..4 /\ 3 \in 2..4 /\ 4 \in 2..4
      OBVIOUS
    <3> QED
      BY <1>9, <3>1, Names DEF InstallEvents
  <2>4. Ends(<<d, h>>, m - 1)
    BY <1>1, <1>2, <1>4, <2>3 DEF MInv, MilestonesOK, Continues
  <2>5. last_event_type(<<d, h>>) \notin Over /\ r.type \notin Over
    <3>1. m - 1 \in 1..5
      OBVIOUS
    <3> QED
      BY <1>3, <1>5, <1>9, <2>4, <3>1, LastOfEnds, NotOver
  <2>6. last_event_type(<<d, h>>)' \notin Over
    BY <1>5, <1>6, <2>5
  <2>7. /\ \A i \in 1..Len(types) : types[i] \in InstallEvents \cup FailureEvents
        /\ \A i, j \in 1..Len(types) : j < i => types[j] \notin FailureEvents
    BY <2>2
  <2> QED
    BY <1>5, <2>2, <2>6, <2>7, OneLegal
<1> QED
  BY <1>1, <1>2, <1>7, <1>8, <1>9 DEF SpoolFails

LEMMA StepLegal == OneProcess /\ IInv /\ UInv /\ MInv /\ LInv /\ [Next]_vars => LInv'
<1> SUFFICES ASSUME OneProcess, IInv, UInv, MInv, LInv, [Next]_vars PROVE LInv'
  OBVIOUS
<1>1. CASE Publish \/ RuntimeStart \/ Tamper \/ UNCHANGED vars
  <2>1. UNCHANGED <<reported, procVars>>
    BY <1>1 DEF Publish, RuntimeStart, Tamper, vars
  <2>2. count'.stops = count.stops
    BY <1>1, Counting DEF Publish, RuntimeStart, Tamper, vars
  <2> QED
    BY <2>1, <2>2, LegalKept DEF EveryPassEnded
<1>2. ASSUME NEW p \in Procs, NEW d \in Delivered, Begin(p, d) \/ Resume(p, d) PROVE LInv'
  BY <1>2, BeginLegal
<1>3. ASSUME NEW p \in Procs, Step(p) PROVE LInv'
  <2>1. CASE NextItem(p) \/ InstallItem(p) \/ InstallItemFails(p)
    BY <2>1, NextItemLegal, InstallLegal
  <2>2. CASE CloseInstalled(p) \/ LeavePending(p) \/ Activate(p) \/ ActivateFails(p)
    BY <2>2, CloseLegal, InstalledLegal
  <2>3. CASE Attest(p) \/ AttestPending(p) \/ AttestInvalid(p) \/ DetectDrift(p)
             \/ RuntimeCallFails(p)
    BY <2>3, RuntimeLegal
  <2>4. CASE Spool(p)
    BY <2>4, SpoolLegal
  <2>5. CASE Finish(p)
    <3>1. pc'[p] = "idle" /\ outbox'[p] = <<>>
      BY <2>5, ToIdle DEF Finish
    <3> QED
      BY <3>1, NothingLegal
  <2> QED
    BY <1>3, <2>1, <2>2, <2>3, <2>4, <2>5 DEF Step
<1>4. ASSUME NEW p \in Procs, SpoolFails(p) PROVE LInv'
  BY <1>4, SpoolFailsLegal
<1>5. ASSUME NEW p \in Procs, Crash(p) PROVE LInv'
  <2>1. pc'[p] = "idle" /\ outbox'[p] = <<>>
    BY <1>5, ToIdle DEF Crash
  <2> QED
    BY <2>1, NothingLegal
<1> QED
  BY <1>1, <1>2, <1>3, <1>4, <1>5 DEF Next

LEMMA InitLegal == Init => LInv
<1> SUFFICES ASSUME Init, NEW p \in Procs PROVE LegalOK(p)
  BY DEF LInv
<1>1. Len(outbox[p]) = 0 /\ pc[p] = "idle"
  BY DEF Init
<1> QED
  BY <1>1 DEF LegalOK

(* What the server has seen of an attempt. *)
Seen(a) == [type |-> last_event_type(a), gen |-> last_runtime_generation(a)]

(* A receipt that is spooled is one the server may receive next. *)
LEMMA Receives ==
    ASSUME IInv, MInv, LInv, NEW p \in Procs, NEW out, out = outbox[p], out # <<>>,
           NEW r, r = Head(out), NEW a, a = <<doc[p], r.pack>>,
           ~AlreadyAttested(p, r), reported' = Appended(a, r)
    PROVE  /\ a \in Attempts /\ Attempt!Receive(a)
           /\ \/ [b \in Attempts |-> Seen(b)]' = [b \in Attempts |-> Seen(b)]
              \/ [b \in Attempts |-> Seen(b)]'[a] # [b \in Attempts |-> Seen(b)][a]
<1>1. PICK d, h : d = doc[p] /\ h = r.pack
  OBVIOUS
<1>2. /\ out \in Seq(Receipt) /\ reported \in [Attempts -> Seq(Event)]
      /\ r \in Receipt /\ r = out[1] /\ 1 \in 1..Len(out)
  <2>1. out \in Seq(Receipt) /\ reported \in [Attempts -> Seq(Event)]
    BY DEF IInv, ITypes
  <2> QED
    BY <2>1, HeadTail
<1>3. a \in Attempts /\ pc[p] \in Labels \ {"idle"}
  <2>1. d \in Docs /\ h \in Packs /\ pc[p] \in Labels \ {"idle"}
    BY <1>1, <1>2, Constants DEF IInv, ITypes, Docs, Receipt
  <2> QED
    BY <1>1, <2>1 DEF Attempts
<1>4. /\ last_event_type(a)' = r.type /\ last_runtime_generation(a)' = r.claim.gen
      /\ \A b \in Attempts \ {a} :
            /\ last_event_type(b)' = last_event_type(b)
            /\ last_runtime_generation(b)' = last_runtime_generation(b)
  BY <1>2, <1>3, Newest
<1>5. PICK st, st2 : /\ st = [b \in Attempts |-> Seen(b)]
                     /\ st2 = [b \in Attempts |-> Seen(b)]'
  OBVIOUS
<1>6. st2 = [st EXCEPT ![a] = [type |-> r.type, gen |-> r.claim.gen]]
  <2>1. \A b \in Attempts \ {a} : Seen(b)' = Seen(b)
    BY <1>4 DEF Seen
  <2>2. Seen(a)' = [type |-> r.type, gen |-> r.claim.gen]
    BY <1>4 DEF Seen
  <2> QED
    BY <1>3, <1>5, <2>1, <2>2
<1>7. st[a].type = last_event_type(a) /\ st[a].gen = last_runtime_generation(a)
  BY <1>3, <1>5 DEF Seen
<1>8. Legal(p, 1) /\ Continues(p, 1) /\ OutboxOK(p, 1)
  BY <1>2 DEF LInv, LegalOK, MInv, MilestonesOK, IInv, IOutbox
<1>9. /\ r.type \notin {"RUNTIME_ATTESTED", "DRIFT_DETECTED"} => r.claim.gen = 0
      /\ r.type = "DRIFT_DETECTED" =>
            last_event_type(a) = "RUNTIME_ATTESTED" /\ last_runtime_generation(a) = r.claim.gen
      /\ r.type = "DESIRED_SEEN" => (EveryPassEnded => last_event_type(a) = "")
      /\ r.type \in FailureEvents => last_event_type(a) \notin Over
  <2>1. \A j \in 1..(1 - 1) : out[j].pack # h
    OBVIOUS
  <2> QED
    BY <1>1, <1>2, <1>8, <2>1 DEF Legal
<1>10. /\ r.type = "ACTIVATION_PENDING" => Ends(a, 4)
       /\ r.type \in {"RUNTIME_ATTESTED", "DRIFT_DETECTED"} =>
             last_event_type(a) \in RuntimeEvents
       /\ \A m \in 2..4 : r.type = Path[m] => Ends(a, m - 1)
  BY <1>1, <1>2, <1>8 DEF Continues
<1>11. Attempt!Path = Path /\ \A t, g : Attempt!At(t, g) = [type |-> t, gen |-> g]
  BY DEF Attempt!Path, Path, Attempt!At
<1>12. \A t, g : st2 = [st EXCEPT ![a] = [type |-> t, gen |-> g]] => Attempt!Report(a, t, g)
  BY <1>5, <1>11 DEF Attempt!Report, Seen
<1>a. st2 = st \/ st2[a] # st[a]
  BY <1>5, <1>6
<1>b. SUFFICES Attempt!Receive(a)
  BY <1>3, <1>5, <1>a
<1>13. CASE r.type = "DESIRED_SEEN"
  <2>1. Attempt!Report(a, Path[1], 0)
    BY <1>6, <1>9, <1>12, <1>13, Names
  <2>2. st[a].type = "" \/ ~EveryPassEnded
    BY <1>7, <1>9, <1>13
  <2>3. Attempt!Announce(a)
    BY <1>5, <1>11, <2>1, <2>2 DEF Attempt!Announce, Seen
  <2> QED
    BY <1>3, <2>3 DEF Attempt!Receive
<1>14. CASE r.type \in InstallEvents \cup {"ACTIVATION_PENDING"}
  <2>1. PICK m \in 2..5 : r.type = Path[m]
    <3>1. 2 \in 2..5 /\ 3 \in 2..5 /\ 4 \in 2..5 /\ 5 \in 2..5
      OBVIOUS
    <3> QED
      BY <1>14, <3>1, Names DEF InstallEvents
  <2>2. Ends(a, m - 1)
    <3>1. CASE m = 5
      <4>1. r.type = "ACTIVATION_PENDING" /\ m - 1 = 4
        BY <2>1, <3>1, Names
      <4> QED
        BY <1>10, <4>1
    <3>2. CASE m # 5
      <4>1. m \in 2..4
        BY <3>2
      <4> QED
        BY <1>10, <2>1, <4>1
    <3> QED
      BY <3>1, <3>2
  <2>3. st[a].type = Path[m - 1]
    <3>1. m - 1 \in 1..5
      OBVIOUS
    <3> QED
      BY <1>2, <1>3, <1>7, <2>2, <3>1, LastOfEnds
  <2>4. r.claim.gen = 0
    BY <1>9, <1>14 DEF InstallEvents
  <2>5. Attempt!Report(a, Path[m], 0)
    BY <1>6, <1>12, <2>1, <2>4
  <2>6. Attempt!Advance(a)
    BY <1>5, <1>11, <2>3, <2>5 DEF Attempt!Advance, Seen
  <2> QED
    BY <1>3, <2>6 DEF Attempt!Receive
<1>15. CASE r.type = "RUNTIME_ATTESTED"
  <2>1. PICK g : g = r.claim.gen
    OBVIOUS
  <2>2. Attempt!Report(a, "RUNTIME_ATTESTED", g)
    BY <1>6, <1>12, <1>15, <2>1
  <2>3. g \in {st2[b].gen : b \in Attempts}
    <3>1. st2[a] = [type |-> r.type, gen |-> r.claim.gen]
      BY <1>3, <1>5, <1>6
    <3> QED
      BY <1>3, <2>1, <3>1
  <2>4. /\ st[a].type \in {Path[5], "DRIFT_DETECTED", "RUNTIME_ATTESTED"}
        /\ st[a].type = "RUNTIME_ATTESTED" => st[a].gen # g
    <3>1. last_event_type(a) \in {Path[5], "DRIFT_DETECTED", "RUNTIME_ATTESTED"}
      BY <1>10, <1>15, Names DEF RuntimeEvents
    <3>2. ASSUME last_event_type(a) = "RUNTIME_ATTESTED" PROVE last_runtime_generation(a) # g
      <4>1. pc[p] = "drift"
        BY <1>2, <1>8, <1>15 DEF OutboxOK
      <4>2. seen[p]
        BY <1>1, <1>2, <3>2, <4>1 DEF IInv, IFirst
      <4> QED
        BY <1>1, <1>15, <2>1, <3>2, <4>2 DEF AlreadyAttested
    <3> QED
      BY <1>7, <3>1, <3>2
  <2>5. Attempt!Attest(a)
    BY <1>5, <1>11, <2>2, <2>3, <2>4 DEF Attempt!Attest, Attempt!Generations, Seen
  <2> QED
    BY <1>3, <2>5 DEF Attempt!Receive
<1>16. CASE r.type = "DRIFT_DETECTED"
  <2>1. st[a].type = "RUNTIME_ATTESTED" /\ st[a].gen = r.claim.gen
    BY <1>7, <1>9, <1>16
  <2>2. Attempt!Report(a, "DRIFT_DETECTED", st[a].gen)
    BY <1>6, <1>12, <1>16, <2>1
  <2>3. Attempt!Drift(a)
    BY <1>5, <2>1, <2>2 DEF Attempt!Drift, Seen
  <2> QED
    BY <1>3, <2>3 DEF Attempt!Receive
<1>17. CASE r.type \in FailureEvents
  <2>1. r.claim.gen = 0
    BY <1>9, <1>17 DEF FailureEvents
  <2>2. Attempt!Report(a, r.type, 0)
    BY <1>6, <1>12, <2>1
  <2>3. st[a].type \notin Over /\ Over = Attempt!Over /\ r.type \in Attempt!Failures
    BY <1>7, <1>9, <1>17 DEF Over, Attempt!Over, Attempt!Failures, FailureEvents
  <2>4. Attempt!GiveUp(a)
    BY <1>5, <2>2, <2>3 DEF Attempt!GiveUp, Seen
  <2> QED
    BY <1>3, <2>4 DEF Attempt!Receive
<1>18. r.type \in EventTypes
  BY <1>2 DEF Receipt
<1> QED
  BY <1>3, <1>13, <1>14, <1>15, <1>16, <1>17, <1>18
  DEF EventTypes, RuntimeEvents, FailureEvents

(* Every step of the reconciler is one of the attempts, or none the server  *)
(* can see.                                                                 *)
LEMMA StepReceived ==
    ASSUME IInv, MInv, LInv, [Next]_vars
    PROVE  [Attempt!AttemptNext]_<<[a \in Attempts |-> [type |-> last_event_type(a),
                                                       gen |-> last_runtime_generation(a)]],
                                   ~EveryPassEnded>>
<1> DEFINE st == [a \in Attempts |-> [type |-> last_event_type(a),
                                     gen |-> last_runtime_generation(a)]]
<1>1. count.stops \in Nat
  BY Counting
<1>2. ASSUME reported' = reported PROVE st' = st
  BY <1>2 DEF last_event_type, last_runtime_generation, Last
<1>3. ASSUME reported' = reported, count'.stops = count.stops PROVE UNCHANGED <<st, ~EveryPassEnded>>
  BY <1>2, <1>3 DEF EveryPassEnded
<1>4. ASSUME NEW p \in Procs, Spool(p) \/ SpoolFails(p), reported' # reported
      PROVE  \/ st' = st
             \/ \E a \in Attempts : st'[a] # st[a] /\ Attempt!Receive(a)
  <2>1. PICK out, r, a : out = outbox[p] /\ r = Head(out) /\ a = <<doc[p], r.pack>>
    OBVIOUS
  <2>2. out # <<>> /\ ~AlreadyAttested(p, r) /\ reported' = Appended(a, r)
    BY <1>4, <2>1 DEF Spool, SpoolFails
  <2> QED
    BY <2>1, <2>2, Receives DEF Seen
<1>5. CASE \E p \in Procs : Spool(p)
  <2>1. PICK p \in Procs : Spool(p)
    BY <1>5
  <2>2. count'.stops = count.stops
    BY <2>1 DEF Spool
  <2>3. CASE reported' # reported
    BY <1>4, <2>1, <2>2, <2>3 DEF Attempt!AttemptNext, EveryPassEnded
  <2> QED
    BY <1>3, <2>2, <2>3
<1>6. CASE \E p \in Procs : SpoolFails(p) \/ Crash(p)
  <2>1. PICK p \in Procs : SpoolFails(p) \/ Crash(p)
    BY <1>6
  <2>2. count'.stops = count.stops + 1
    BY <2>1, Counting DEF SpoolFails, Crash
  <2>3. ~EveryPassEnded'
    BY <1>1, <2>2 DEF EveryPassEnded
  <2>4. reported' # reported => SpoolFails(p)
    BY <2>1 DEF Crash
  <2> QED
    BY <1>2, <1>4, <2>1, <2>3, <2>4 DEF Attempt!AttemptNext
<1>7. CASE \A p \in Procs : ~Spool(p) /\ ~SpoolFails(p) /\ ~Crash(p)
  <2>1. CASE Publish \/ RuntimeStart \/ Tamper \/ UNCHANGED vars
    <3>1. reported' = reported
      BY <2>1 DEF Publish, RuntimeStart, Tamper, vars
    <3>2. count'.stops = count.stops
      BY <2>1, Counting DEF Publish, RuntimeStart, Tamper, vars
    <3> QED
      BY <1>3, <3>1, <3>2
  <2>2. ASSUME NEW p \in Procs, NEW d \in Delivered, Begin(p, d) \/ Resume(p, d)
        PROVE  reported' = reported /\ count'.stops = count.stops
    BY <2>2 DEF Begin, Resume
  <2>3. ASSUME NEW p \in Procs, Step(p) PROVE reported' = reported /\ count'.stops = count.stops
    <3>1. CASE NextItem(p) \/ InstallItem(p) \/ InstallItemFails(p) \/ CloseInstalled(p)
      <4>1. reported' = reported
        BY <3>1 DEF NextItem, InstallItem, InstallItemFails, CloseInstalled
      <4>2. count' = count \/ Occurs("faults")
        BY <3>1 DEF NextItem, InstallItem, InstallItemFails, CloseInstalled
      <4> QED
        BY <4>1, <4>2, Counting
    <3>2. CASE LeavePending(p) \/ Activate(p) \/ ActivateFails(p)
      <4>1. reported' = reported
        BY <3>2 DEF LeavePending, Activate, ActivateFails
      <4>2. count' = count \/ Occurs("faults")
        BY <3>2 DEF LeavePending, Activate, ActivateFails
      <4> QED
        BY <4>1, <4>2, Counting
    <3>3. CASE Attest(p) \/ AttestPending(p) \/ AttestInvalid(p) \/ DetectDrift(p)
               \/ RuntimeCallFails(p) \/ Finish(p)
      <4>1. reported' = reported
        BY <3>3 DEF Attest, AttestPending, AttestInvalid, DetectDrift, RuntimeCallFails, Finish
      <4>2. count' = count \/ Occurs("faults")
        BY <3>3 DEF Attest, AttestPending, AttestInvalid, DetectDrift, RuntimeCallFails, Finish
      <4> QED
        BY <4>1, <4>2, Counting
    <3> QED
      BY <1>7, <2>3, <3>1, <3>2, <3>3 DEF Step
  <2> QED
    BY <1>3, <1>7, <2>1, <2>2, <2>3 DEF Next
<1> QED
  BY <1>5, <1>6, <1>7

LEMMA InitReceived == Init => Attempt!AttemptInit
<1> SUFFICES ASSUME Init PROVE Attempt!AttemptInit
  OBVIOUS
<1>1. \A a \in Attempts : last_event_type(a) = "" /\ last_runtime_generation(a) = 0
  BY DEF Init, last_event_type, last_runtime_generation
<1>2. [a \in Attempts |-> [type |-> last_event_type(a), gen |-> last_runtime_generation(a)]]
         = [a \in Attempts |-> Attempt!At("", 0)]
  BY <1>1 DEF Attempt!At
<1>3. EveryPassEnded
  BY DEF Init, EveryPassEnded
<1> QED
  BY <1>2, <1>3 DEF Attempt!AttemptInit

(* Whatever crashes, appends that fail, adapter calls that fail and passes  *)
(* that are resumed, the receipts of an attempt are a walk through the state *)
(* machine of the wire contract.                                            *)
THEOREM AttemptsImplemented == OneProcess /\ Spec => ImplementsAttempt
<1> SUFFICES ASSUME OneProcess PROVE Spec => ImplementsAttempt
  OBVIOUS
<1>1. IInv /\ UInv /\ MInv /\ LInv /\ [Next]_vars => LInv'
  BY StepLegal
<1>2. IInv /\ MInv /\ [Next]_vars => MInv'
  BY StepMilestones
<1>3. IInv /\ MInv /\ LInv /\ [Next]_vars =>
         [Attempt!AttemptNext]_<<[a \in Attempts |-> [type |-> last_event_type(a),
                                                     gen |-> last_runtime_generation(a)]],
                                 ~EveryPassEnded>>
  BY StepReceived
<1>4. Spec => []IInv /\ []UInv
  BY Invariant, UnkilledHolds
<1> QED
  BY <1>1, <1>2, <1>3, <1>4, InitLegal, InitMilestones, InitReceived, PTL
  DEF Spec, ImplementsAttempt, Attempt!AttemptSpec

--------------------------------------------------------------------------------
(* Any number of processes *)

(* What a receipt to be spooled, and what a pass holds, can be relied upon  *)
(* to be with other passes under way: d is the pass's document, l what it   *)
(* does next, o its outbox, t what is to do, s installed, c attested.       *)
ReceiptHolds(d, l, o, i) ==
    /\ o[i].type \in InstallEvents => l = "next"
    /\ o[i].type \in {"RUNTIME_ATTESTED", "DRIFT_DETECTED"} => o[i].claim.inventory = d

PassHolds(d, l, o, t, s, c) ==
    /\ \A i, j \in 1..Len(t) : t[i] = t[j] => i = j
    /\ \A i \in 1..Len(t) : t[i] \notin s
    /\ l = "install" => t # <<>>
    /\ l = "drift" => c.inventory = d
    /\ \A i \in 1..Len(o) : ReceiptHolds(d, l, o, i)

IAlone ==
    \A p \in Procs :
        PassHolds(doc[p], pc[p], outbox[p], todo[p], installed[p], attestation[p])

(* A receipt on the running inventory names the one of its document.        *)
ClaimsOwnInventory ==
    \A a \in Attempts : \A i \in 1..Len(reported[a]) :
        reported[a][i].type \in {"RUNTIME_ATTESTED", "DRIFT_DETECTED"} =>
            reported[a][i].claim.inventory = a[1]

OInv == ITypes /\ IAlone /\ ClaimsOwnInventory

(* More than the steps that a pass can still take, whatever fails: a failed *)
(* append replaces what was to be spooled by receipts of a failure, and one *)
(* of those that fails to be spooled ends the pass.                         *)
Open(o) == \E i \in 1..Len(o) : o[i].type \notin FailureEvents

Remaining(l, o, t) ==
    LET n == Len(items)
    IN  CASE l = "idle" -> 0
          [] l = "next" -> Len(o) + (IF Open(o) THEN 1 ELSE 0) + 7 * Len(t) + 4 * n + 5
          [] l = "install" -> Len(o) + 7 * Len(t) + 4 * n + 3
          [] l = "attest" -> Len(o) + 3 * n + 4
          [] l = "drift" -> Len(o) + 2 * n + 3
          [] l = "finish" -> Len(o) + (IF Open(o) THEN n + 1 ELSE 0) + 1

StepsLeft(p) == Remaining(pc[p], outbox[p], todo[p])

PassBound == 11 * Len(items) + 5

Fewer(p) ==
    /\ StepsLeft(p)' < StepsLeft(p)
    /\ \A q \in Procs \ {p} : StepsLeft(q)' = StepsLeft(q)

(* A process in reconcile goes on, and is in it still.                      *)
Goes(p) ==
    /\ UNCHANGED <<published, epoch, doc, auto, seen>>
    /\ pc' \in [Procs -> Labels]
    /\ todo' \in [Procs -> Seq(Packs)] /\ installed' \in [Procs -> SUBSET Packs]
    /\ attestation' \in [Procs -> Claim] /\ outbox' \in [Procs -> Seq(Receipt)]
    /\ \A q \in Procs \ {p} :
          /\ pc'[q] = pc[q] /\ todo'[q] = todo[q] /\ installed'[q] = installed[q]
          /\ attestation'[q] = attestation[q] /\ outbox'[q] = outbox[q]

Shared ==
    /\ active \in 0..published /\ drifted \in BOOLEAN
    /\ lost \in BOOLEAN /\ (lost => drifted /\ active # 0)
    /\ runtime \in [gen : Nat, current : BOOLEAN]
    /\ reported \in [Attempts -> Seq(Event)]
    /\ count \in [stops : Nat, faults : Nat, drifts : Nat, starts : Nat]

LEMMA Lengths ==
    ASSUME NEW o \in Seq(Receipt), NEW t \in Seq(Packs)
    PROVE  Len(o) \in Nat /\ Len(t) \in Nat /\ Len(items) \in Nat
BY Items

(* What each part of a pass weighs.                                         *)
LEMMA WeightInstall ==
    ASSUME NEW o \in Seq(Receipt), NEW t \in Seq(Packs), NEW n, n = Len(items)
    PROVE  Remaining("install", o, t) = Len(o) + 7 * Len(t) + 4 * n + 3
BY DEF Remaining

LEMMA WeightAttest ==
    ASSUME NEW o \in Seq(Receipt), NEW t \in Seq(Packs), NEW n, n = Len(items)
    PROVE  Remaining("attest", o, t) = Len(o) + 3 * n + 4
BY DEF Remaining

LEMMA WeightDrift ==
    ASSUME NEW o \in Seq(Receipt), NEW t \in Seq(Packs), NEW n, n = Len(items)
    PROVE  Remaining("drift", o, t) = Len(o) + 2 * n + 3
BY DEF Remaining

LEMMA WeightNext ==
    ASSUME NEW o \in Seq(Receipt), NEW t \in Seq(Packs), NEW n, n = Len(items)
    PROVE  /\ Open(o) => Remaining("next", o, t) = Len(o) + 7 * Len(t) + 4 * n + 6
           /\ ~Open(o) => Remaining("next", o, t) = Len(o) + 7 * Len(t) + 4 * n + 5
           /\ Remaining("next", o, t) >= Len(o) + 7 * Len(t) + 4 * n + 5
           /\ Remaining("next", o, t) <= Len(o) + 7 * Len(t) + 4 * n + 6
           /\ Remaining("next", o, t) \in Nat
<1>1. n \in Nat /\ Len(o) \in Nat /\ Len(t) \in Nat
  BY Lengths
<1>2. Remaining("next", o, t) = Len(o) + (IF Open(o) THEN 1 ELSE 0) + 7 * Len(t) + 4 * n + 5
  BY DEF Remaining
<1>3. CASE Open(o)
  <2>1. Remaining("next", o, t) = Len(o) + 1 + 7 * Len(t) + 4 * n + 5
    BY <1>2, <1>3
  <2> QED
    BY <1>1, <1>3, <2>1
<1>4. CASE ~Open(o)
  <2>1. Remaining("next", o, t) = Len(o) + 0 + 7 * Len(t) + 4 * n + 5
    BY <1>2, <1>4
  <2> QED
    BY <1>1, <1>4, <2>1
<1> QED
  BY <1>3, <1>4

LEMMA WeightFinish ==
    ASSUME NEW o \in Seq(Receipt), NEW t \in Seq(Packs), NEW n, n = Len(items)
    PROVE  /\ Open(o) => Remaining("finish", o, t) = Len(o) + n + 2
           /\ ~Open(o) => Remaining("finish", o, t) = Len(o) + 1
           /\ Remaining("finish", o, t) >= Len(o) + 1
           /\ Remaining("finish", o, t) <= Len(o) + n + 2
           /\ Remaining("finish", o, t) \in Nat
<1>1. n \in Nat /\ Len(o) \in Nat /\ Len(t) \in Nat
  BY Lengths
<1>2. Remaining("finish", o, t) = Len(o) + (IF Open(o) THEN n + 1 ELSE 0) + 1
  BY DEF Remaining
<1>3. CASE Open(o)
  <2>1. Remaining("finish", o, t) = Len(o) + (n + 1) + 1
    BY <1>2, <1>3
  <2> QED
    BY <1>1, <1>3, <2>1
<1>4. CASE ~Open(o)
  <2>1. Remaining("finish", o, t) = Len(o) + 0 + 1
    BY <1>2, <1>4
  <2> QED
    BY <1>1, <1>4, <2>1
<1> QED
  BY <1>3, <1>4

LEMMA WeightPositive ==
    ASSUME NEW o \in Seq(Receipt), NEW t \in Seq(Packs), NEW l \in Labels \ {"idle"}
    PROVE  Remaining(l, o, t) \in Nat /\ Remaining(l, o, t) > 0
<1>1. PICK n \in Nat : n = Len(items)
  BY Lengths
<1>2. Len(o) \in Nat /\ Len(t) \in Nat
  BY Lengths
<1>3. l = "install" => Remaining(l, o, t) = Len(o) + 7 * Len(t) + 4 * n + 3
  BY <1>1, WeightInstall
<1>4. l = "attest" => Remaining(l, o, t) = Len(o) + 3 * n + 4
  BY <1>1, WeightAttest
<1>5. l = "drift" => Remaining(l, o, t) = Len(o) + 2 * n + 3
  BY <1>1, WeightDrift
<1>6. l = "next" => /\ Remaining(l, o, t) >= Len(o) + 7 * Len(t) + 4 * n + 5
                    /\ Remaining(l, o, t) \in Nat
  BY <1>1, WeightNext
<1>7. l = "finish" => Remaining(l, o, t) >= Len(o) + 1 /\ Remaining(l, o, t) \in Nat
  BY <1>1, WeightFinish
<1> QED
  BY <1>2, <1>3, <1>4, <1>5, <1>6, <1>7 DEF Labels

LEMMA Moved ==
    ASSUME OInv, NEW p \in Procs, Goes(p), Shared', ClaimsOwnInventory',
           NEW d, d = doc[p], d # 0,
           NEW l \in Labels \ {"idle"}, pc'[p] = l, NEW o, outbox'[p] = o, NEW t, todo'[p] = t,
           NEW s, installed'[p] = s, NEW c, attestation'[p] = c,
           PassHolds(d, l, o, t, s, c),
           NEW m, m = StepsLeft(p), Remaining(l, o, t) < m
    PROVE  OInv' /\ Fewer(p)
<1>1. pc' \in [Procs -> Labels]
  BY DEF Goes
<1>2. ITypes'
  <2>1. \A q \in Procs :
           IF pc'[q] = "idle"
           THEN /\ doc'[q] = 0 /\ todo'[q] = <<>> /\ installed'[q] = {}
                /\ outbox'[q] = <<>> /\ ~seen'[q]
           ELSE doc'[q] # 0
    <3> SUFFICES ASSUME NEW q \in Procs
                 PROVE  IF pc'[q] = "idle"
                        THEN /\ doc'[q] = 0 /\ todo'[q] = <<>> /\ installed'[q] = {}
                             /\ outbox'[q] = <<>> /\ ~seen'[q]
                        ELSE doc'[q] # 0
      OBVIOUS
    <3>1. CASE q = p
      BY <3>1 DEF Goes
    <3>2. CASE q # p
      BY <3>2 DEF Goes, OInv, ITypes
    <3> QED
      BY <3>1, <3>2
  <2> QED
    BY <1>1, <2>1 DEF Shared, Goes, OInv, ITypes
<1>3. IAlone'
  <2> SUFFICES ASSUME NEW q \in Procs
               PROVE  PassHolds(doc'[q], pc'[q], outbox'[q], todo'[q], installed'[q],
                                attestation'[q])
    BY DEF IAlone, PassHolds, ReceiptHolds
  <2>1. CASE q = p
    BY <2>1 DEF Goes
  <2>2. CASE q # p
    BY <2>2 DEF Goes, OInv, IAlone
  <2> QED
    BY <2>1, <2>2
<1>4. Fewer(p)
  <2>1. StepsLeft(p)' = Remaining(l, o, t)
    BY DEF StepsLeft, Remaining, Open
  <2>2. \A q \in Procs \ {p} : StepsLeft(q)' = StepsLeft(q)
    BY DEF StepsLeft, Remaining, Open, Goes
  <2> QED
    BY <2>1, <2>2 DEF Fewer
<1> QED
  BY <1>2, <1>3, <1>4 DEF OInv

(* The process leaves reconcile. *)
LEMMA Left ==
    ASSUME OInv, NEW p \in Procs, pc[p] # "idle", Leave(p), Shared', ClaimsOwnInventory',
           published' = published, epoch' \in 0..published
    PROVE  OInv' /\ Fewer(p)
<1>1. /\ pc' \in [Procs -> Labels] /\ doc' \in [Procs -> 0..published]
      /\ auto' \in [Procs -> BOOLEAN] /\ seen' \in [Procs -> BOOLEAN]
      /\ todo' \in [Procs -> Seq(Packs)] /\ installed' \in [Procs -> SUBSET Packs]
      /\ attestation' \in [Procs -> Claim] /\ outbox' \in [Procs -> Seq(Receipt)]
      /\ pc'[p] = "idle" /\ doc'[p] = 0 /\ todo'[p] = <<>> /\ installed'[p] = {}
      /\ outbox'[p] = <<>> /\ ~seen'[p]
  BY Constants DEF OInv, ITypes, Leave, Then, Labels
<1>2. \A q \in Procs \ {p} :
         /\ pc'[q] = pc[q] /\ doc'[q] = doc[q] /\ seen'[q] = seen[q] /\ todo'[q] = todo[q]
         /\ installed'[q] = installed[q] /\ attestation'[q] = attestation[q]
         /\ outbox'[q] = outbox[q]
  BY DEF OInv, ITypes, Leave, Then
<1>3. ITypes'
  <2>1. \A q \in Procs :
           IF pc'[q] = "idle"
           THEN /\ doc'[q] = 0 /\ todo'[q] = <<>> /\ installed'[q] = {}
                /\ outbox'[q] = <<>> /\ ~seen'[q]
           ELSE doc'[q] # 0
    <3> SUFFICES ASSUME NEW q \in Procs
                 PROVE  IF pc'[q] = "idle"
                        THEN /\ doc'[q] = 0 /\ todo'[q] = <<>> /\ installed'[q] = {}
                             /\ outbox'[q] = <<>> /\ ~seen'[q]
                        ELSE doc'[q] # 0
      OBVIOUS
    <3>1. CASE q = p
      BY <1>1, <3>1
    <3>2. CASE q # p
      BY <1>2, <3>2 DEF OInv, ITypes
    <3> QED
      BY <3>1, <3>2
  <2> QED
    BY <1>1, <2>1 DEF Shared, OInv, ITypes
<1>4. IAlone'
  <2> SUFFICES ASSUME NEW q \in Procs
               PROVE  PassHolds(doc'[q], pc'[q], outbox'[q], todo'[q], installed'[q],
                                attestation'[q])
    BY DEF IAlone, PassHolds, ReceiptHolds
  <2>1. CASE q = p
    <3>1. Len(outbox'[q]) = 0 /\ Len(todo'[q]) = 0 /\ pc'[q] = "idle"
      BY <1>1, <2>1
    <3> QED
      BY <3>1 DEF PassHolds
  <2>2. CASE q # p
    BY <1>2, <2>2 DEF OInv, IAlone
  <2> QED
    BY <2>1, <2>2
<1>5. Fewer(p)
  <2>1. StepsLeft(p)' = 0
    BY <1>1 DEF StepsLeft, Remaining
  <2>2. \A q \in Procs \ {p} : StepsLeft(q)' = StepsLeft(q)
    BY <1>2 DEF StepsLeft, Remaining, Open
  <2>3. StepsLeft(p) > 0
    <3>1. pc[p] \in Labels \ {"idle"} /\ outbox[p] \in Seq(Receipt) /\ todo[p] \in Seq(Packs)
      BY DEF OInv, ITypes
    <3>2. PICK o \in Seq(Receipt), t \in Seq(Packs) : o = outbox[p] /\ t = todo[p]
      BY <3>1
    <3>3. PICK l \in Labels \ {"idle"} : l = pc[p]
      BY <3>1
    <3>4. Remaining(l, o, t) > 0
      BY WeightPositive
    <3> QED
      BY <3>2, <3>3, <3>4 DEF StepsLeft
  <2> QED
    BY <2>1, <2>2, <2>3 DEF Fewer
<1> QED
  BY <1>3, <1>4, <1>5 DEF OInv

(* A process about to act: what it holds.                                   *)
LEMMA Holding ==
    ASSUME OInv, NEW p \in Procs, pc[p] # "idle"
    PROVE  /\ pc[p] \in Labels \ {"idle"} /\ doc[p] \in 0..published /\ doc[p] # 0
           /\ outbox[p] \in Seq(Receipt) /\ todo[p] \in Seq(Packs)
           /\ installed[p] \in SUBSET Packs /\ attestation[p] \in Claim
           /\ PassHolds(doc[p], pc[p], outbox[p], todo[p], installed[p], attestation[p])
           /\ StepsLeft(p) = Remaining(pc[p], outbox[p], todo[p])
BY DEF OInv, ITypes, IAlone, StepsLeft

LEMMA Untouched ==
    ASSUME OInv, UNCHANGED <<published, epoch, reported, adapterVars>>,
           count' \in [stops : Nat, faults : Nat, drifts : Nat, starts : Nat]
    PROVE  Shared' /\ ClaimsOwnInventory'
BY DEF OInv, ITypes, ClaimsOwnInventory, Shared, adapterVars

(* Nor does what an activation leaves half done matter to other passes.     *)
LEMMA HalfUntouched ==
    ASSUME OInv, NEW p \in Procs, UNCHANGED <<published, reported>>,
           UNCHANGED adapterVars \/ HalfExchanged(p),
           count' \in [stops : Nat, faults : Nat, drifts : Nat, starts : Nat]
    PROVE  Shared' /\ ClaimsOwnInventory'
<1>1. /\ UNCHANGED <<active, runtime>> /\ drifted' \in BOOLEAN
      /\ lost' \in BOOLEAN /\ (lost' => drifted' /\ active' # 0)
  BY Constants, HalfExchangeKeeps DEF OInv, ITypes
<1> QED
  BY <1>1 DEF OInv, ITypes, ClaimsOwnInventory, Shared

LEMMA Counted ==
    ASSUME OInv
    PROVE  \A what \in {"stops", "faults", "drifts", "starts"} :
              Occurs(what) => count' \in [stops : Nat, faults : Nat, drifts : Nat, starts : Nat]
<1>1. count \in [stops : Nat, faults : Nat, drifts : Nat, starts : Nat]
  BY DEF OInv, ITypes
<1>2. Occurs("stops") => count' \in [stops : Nat, faults : Nat, drifts : Nat, starts : Nat]
  BY <1>1 DEF Occurs
<1>3. Occurs("faults") => count' \in [stops : Nat, faults : Nat, drifts : Nat, starts : Nat]
  BY <1>1 DEF Occurs
<1>4. Occurs("drifts") => count' \in [stops : Nat, faults : Nat, drifts : Nat, starts : Nat]
  BY <1>1 DEF Occurs
<1>5. Occurs("starts") => count' \in [stops : Nat, faults : Nat, drifts : Nat, starts : Nat]
  BY <1>1 DEF Occurs
<1> QED
  BY <1>2, <1>3, <1>4, <1>5

(* Receipts for every item, and a later part of the pass.                   *)
LEMMA AllSpooled ==
    ASSUME OInv, NEW p \in Procs, pc[p] # "idle", Shared', ClaimsOwnInventory',
           UNCHANGED <<published, epoch, doc, auto, seen, todo, installed, attestation>>,
           NEW d, d = doc[p],
           NEW l \in {"attest", "drift", "finish"}, NEW e \in Closed, NEW c \in Claim,
           Then(p, l, ForAllItems(e, c)),
           e \in {"RUNTIME_ATTESTED", "DRIFT_DETECTED"} => c.inventory = d,
           l = "drift" => attestation[p].inventory = d,
           \A o \in Seq(Receipt), t \in Seq(Packs) :
              Len(o) = Len(items) /\ (e \in FailureEvents => ~Open(o)) =>
                 Remaining(l, o, t) < StepsLeft(p)
    PROVE  OInv' /\ Fewer(p)
<1>1. PICK o \in Seq(Receipt) : o = ForAllItems(e, c)
  BY ForAll, Constants DEF Closed
<1>2. /\ Len(o) = Len(items)
      /\ \A i \in 1..Len(o) : o[i].type = e /\ o[i].claim = c
  BY <1>1, ForAll, ClaimsForAll, Constants DEF Closed
<1>3. PICK t \in Seq(Packs), s \in SUBSET Packs, a \in Claim :
         t = todo[p] /\ s = installed[p] /\ a = attestation[p]
  BY Holding
<1>4. Goes(p) /\ pc'[p] = l /\ outbox'[p] = o /\ todo'[p] = t /\ installed'[p] = s
      /\ attestation'[p] = a
  BY <1>1, <1>3 DEF Then, Goes, OInv, ITypes, Labels
<1>5. PassHolds(d, l, o, t, s, a)
  <2>1. PassHolds(doc[p], pc[p], outbox[p], todo[p], installed[p], attestation[p])
    BY Holding
  <2>2. e \notin InstallEvents
    BY DEF Closed, RuntimeEvents, FailureEvents, InstallEvents
  <2> QED
    BY <1>2, <1>3, <2>1, <2>2 DEF PassHolds, ReceiptHolds
<1>6. Remaining(l, o, t) < StepsLeft(p)
  BY <1>2 DEF Open
<1>7. d # 0 /\ l \in Labels \ {"idle"}
  BY Holding DEF Labels
<1> QED
  BY <1>4, <1>5, <1>6, <1>7, Moved

(* Receipts for one item, inside the install loop.                          *)
LEMMA OneSpooled ==
    ASSUME OInv, NEW p \in Procs, pc[p] # "idle", Shared', ClaimsOwnInventory',
           UNCHANGED <<published, epoch, doc, auto, seen, attestation>>,
           NEW l \in {"next", "install"}, NEW h \in Packs, NEW types \in Seq(EventTypes),
           Then(p, l, ForItem(h, types)),
           \A i \in 1..Len(types) : types[i] \notin RuntimeEvents /\
              (types[i] \in InstallEvents => l = "next"),
           NEW t \in Seq(Packs), todo' = [todo EXCEPT ![p] = t],
           NEW s \in SUBSET Packs, installed' = [installed EXCEPT ![p] = s],
           \A i, j \in 1..Len(t) : t[i] = t[j] => i = j,
           \A i \in 1..Len(t) : t[i] \notin s,
           l = "install" => t # <<>>,
           \A o \in Seq(Receipt) :
              /\ Len(o) = Len(types)
              /\ (\A i \in 1..Len(types) : types[i] \in FailureEvents) => ~Open(o)
              => Remaining(l, o, t) < StepsLeft(p)
    PROVE  OInv' /\ Fewer(p)
<1>1. PICK o \in Seq(Receipt) : o = ForItem(h, types)
  BY ForOne
<1>2. /\ Len(o) = Len(types)
      /\ \A i \in 1..Len(o) : o[i].type = types[i]
  BY <1>1, ForOne
<1>3. PICK a \in Claim : a = attestation[p]
  BY Holding
<1>4. PICK d \in 0..published : d = doc[p] /\ d # 0
  BY Holding
<1>5. Goes(p) /\ pc'[p] = l /\ outbox'[p] = o /\ todo'[p] = t /\ installed'[p] = s
      /\ attestation'[p] = a
  BY <1>1, <1>3 DEF Then, Goes, OInv, ITypes, Labels
<1>6. PassHolds(d, l, o, t, s, a)
  <2>1. \A i \in 1..Len(o) : ReceiptHolds(d, l, o, i)
    BY <1>2 DEF ReceiptHolds, RuntimeEvents
  <2> QED
    BY <2>1 DEF PassHolds
<1>7. Remaining(l, o, t) < StepsLeft(p)
  BY <1>2 DEF Open
<1>8. l \in Labels \ {"idle"}
  BY DEF Labels
<1> QED
  BY <1>4, <1>5, <1>6, <1>7, <1>8, Moved

LEMMA NextItemGoes ==
    ASSUME OInv, NEW p \in Procs, NextItem(p) PROVE OInv' /\ Fewer(p)
<1>1. pc[p] = "next" /\ outbox[p] = <<>> /\ todo[p] # <<>>
  BY DEF NextItem, At
<1>2. Shared' /\ ClaimsOwnInventory'
  BY Untouched DEF NextItem, OInv, ITypes
<1>3. PICK t \in Seq(Packs), s \in SUBSET Packs : t = todo[p] /\ s = installed[p]
  BY <1>1, Holding
<1>4. todo' = [todo EXCEPT ![p] = t] /\ installed' = [installed EXCEPT ![p] = s]
  BY <1>3 DEF NextItem, OInv, ITypes
<1>5. /\ \A i, j \in 1..Len(t) : t[i] = t[j] => i = j
      /\ \A i \in 1..Len(t) : t[i] \notin s
  BY <1>1, <1>3, Holding DEF PassHolds
<1>6. Head(t) \in Packs /\ t # <<>>
  BY <1>1, <1>3, HeadTail
<1>7. PICK types : types = <<"DESIRED_SEEN">>
  OBVIOUS
<1>11. types \in Seq(EventTypes)
  BY <1>7, Constants
<1>8. /\ Len(types) = 1
      /\ \A i \in 1..Len(types) : types[i] \notin RuntimeEvents /\ types[i] \notin InstallEvents
  BY <1>7 DEF RuntimeEvents, InstallEvents
<1>9. \A o \in Seq(Receipt) : Len(o) = 1 => Remaining("install", o, t) < StepsLeft(p)
  <2>a. <<>> \in Seq(Receipt) /\ Len(<<>>) = 0 /\ Len(items) \in Nat
    BY Items
  <2>1. PICK e \in Seq(Receipt), n \in Nat : e = <<>> /\ Len(e) = 0 /\ n = Len(items)
    BY <2>a
  <2>2. StepsLeft(p) = Remaining("next", e, t)
    BY <1>1, <1>3, <2>1, Holding
  <2>3. /\ Remaining("next", e, t) >= Len(e) + 7 * Len(t) + 4 * n + 5
        /\ Remaining("next", e, t) \in Nat /\ Len(t) \in Nat
    BY <2>1, WeightNext, Lengths
  <2>5. ASSUME NEW o \in Seq(Receipt), Len(o) = 1
        PROVE  Remaining("install", o, t) = 7 * Len(t) + 4 * n + 4
    <3>1. Remaining("install", o, t) = Len(o) + 7 * Len(t) + 4 * n + 3
      BY <2>1, WeightInstall
    <3> QED
      BY <2>3, <2>5, <3>1
  <2> QED
    BY <2>1, <2>2, <2>3, <2>5
<1>10. Then(p, "install", ForItem(Head(t), types))
  BY <1>3, <1>7 DEF NextItem
<1> QED
  BY <1>1, <1>2, <1>4, <1>5, <1>6, <1>8, <1>9, <1>10, <1>11, OneSpooled DEF NextItem

(* One item is done, for better or worse.                                   *)
LEMMA ItemGoes ==
    ASSUME OInv, NEW p \in Procs, At(p, "install"), Shared', ClaimsOwnInventory',
           UNCHANGED <<published, epoch, doc, auto, seen, attestation>>,
           NEW t \in Seq(Packs), t = todo[p],
           NEW s \in SUBSET Packs, s \subseteq installed[p] \cup {Head(t)},
           NEW types \in Seq(EventTypes), Len(types) <= 3,
           \A i \in 1..Len(types) : types[i] \notin RuntimeEvents,
           Then(p, "next", ForItem(Head(t), types)),
           todo' = [todo EXCEPT ![p] = Tail(t)], installed' = [installed EXCEPT ![p] = s]
    PROVE  OInv' /\ Fewer(p)
<1>1. pc[p] = "install" /\ outbox[p] = <<>>
  BY DEF At
<1>2. t # <<>> /\ (\A i, j \in 1..Len(t) : t[i] = t[j] => i = j)
      /\ \A i \in 1..Len(t) : t[i] \notin installed[p]
  BY <1>1, Holding DEF PassHolds
<1>3. /\ Head(t) \in Packs /\ Head(t) = t[1] /\ 1 \in 1..Len(t)
      /\ Tail(t) \in Seq(Packs) /\ Len(Tail(t)) = Len(t) - 1 /\ Len(t) \in Nat
      /\ \A i \in 1..(Len(t) - 1) : Tail(t)[i] = t[i + 1]
  BY <1>2, HeadTail
<1>4. PICK u \in Seq(Packs) : u = Tail(t)
  BY <1>3
<1>5. \A i \in 1..Len(u) : i + 1 \in 1..Len(t) /\ i + 1 # 1 /\ u[i] = t[i + 1]
  BY <1>3, <1>4
<1>6. \A i, j \in 1..Len(u) : u[i] = u[j] => i = j
  <2> SUFFICES ASSUME NEW i \in 1..Len(u), NEW j \in 1..Len(u), u[i] = u[j] PROVE i = j
    OBVIOUS
  <2>1. t[i + 1] = t[j + 1] /\ i + 1 \in 1..Len(t) /\ j + 1 \in 1..Len(t)
    BY <1>5
  <2>2. i + 1 = j + 1
    BY <1>2, <2>1
  <2> QED
    BY <2>2
<1>7. \A i \in 1..Len(u) : u[i] \notin s
  BY <1>2, <1>3, <1>5
<1>8. ASSUME NEW o \in Seq(Receipt), Len(o) = Len(types)
      PROVE  Remaining("next", o, u) < StepsLeft(p)
  <2>a. <<>> \in Seq(Receipt) /\ Len(<<>>) = 0 /\ Len(items) \in Nat
    BY Items
  <2>1. PICK e \in Seq(Receipt), n \in Nat : e = <<>> /\ Len(e) = 0 /\ n = Len(items)
    BY <2>a
  <2>2. StepsLeft(p) = Remaining("install", e, t)
    BY <1>1, <2>1, Holding
  <2>3. Remaining("install", e, t) = Len(e) + 7 * Len(t) + 4 * n + 3
    <3>1. e \in Seq(Receipt) /\ t \in Seq(Packs) /\ n = Len(items)
      BY <2>1
    <3> QED
      BY <3>1, WeightInstall
  <2>4. /\ Remaining("next", o, u) <= Len(o) + 7 * Len(u) + 4 * n + 6
        /\ Remaining("next", o, u) \in Nat /\ Len(o) \in Nat
    BY <2>1, WeightNext, Lengths
  <2>5. PICK k \in Nat : Len(u) = k /\ Len(t) = k + 1
    <3>1. Len(u) \in Nat /\ Len(t) = Len(u) + 1
      BY <1>3, <1>4
    <3> QED
      BY <3>1
  <2>6. Len(o) <= 3
    BY <1>8
  <2> QED
    BY <2>1, <2>2, <2>3, <2>4, <2>5, <2>6
<1>9. pc[p] # "idle"
  BY <1>1
<1> QED
  <2>1. Head(t) \in Packs /\ Tail(t) = u
    BY <1>3, <1>4
  <2> QED
    BY <1>6, <1>7, <1>8, <1>9, <2>1, OneSpooled

LEMMA InstallItemGoes ==
    ASSUME OInv, NEW p \in Procs, InstallItem(p) PROVE OInv' /\ Fewer(p)
<1>1. At(p, "install") /\ pc[p] # "idle"
  BY DEF InstallItem, At
<1>2. Shared' /\ ClaimsOwnInventory'
  BY Untouched DEF InstallItem, OInv, ITypes
<1>3. PICK t \in Seq(Packs) : t = todo[p] /\ t # <<>>
  BY <1>1, Holding DEF PassHolds, At
<1>4. Head(t) \in Packs
  BY <1>3, HeadTail
<1>5. PICK s \in SUBSET Packs : s = installed[p] \cup {Head(t)}
  BY <1>1, <1>4, Holding
<1>6. PICK types : types = <<"MANIFEST_VERIFIED", "ARTIFACT_VERIFIED", "INSTALL_COMMITTED">>
  OBVIOUS
<1>9. types \in Seq(EventTypes)
  BY <1>6 DEF EventTypes, InstallEvents
<1>7. Len(types) = 3 /\ \A i \in 1..Len(types) : types[i] \notin RuntimeEvents
  BY <1>6 DEF RuntimeEvents
<1>8. /\ Then(p, "next", ForItem(Head(t), types))
      /\ todo' = [todo EXCEPT ![p] = Tail(t)] /\ installed' = [installed EXCEPT ![p] = s]
  BY <1>3, <1>5, <1>6 DEF InstallItem
<1>10. UNCHANGED <<published, epoch, doc, auto, seen, attestation>>
  BY DEF InstallItem
<1>11. s \subseteq installed[p] \cup {Head(t)} /\ Len(types) <= 3
  BY <1>5, <1>7
<1> QED
  BY <1>1, <1>2, <1>3, <1>7, <1>8, <1>9, <1>10, <1>11, ItemGoes

LEMMA InstallItemFailsGoes ==
    ASSUME OInv, NEW p \in Procs, InstallItemFails(p) PROVE OInv' /\ Fewer(p)
<1>1. At(p, "install") /\ pc[p] # "idle"
  BY DEF InstallItemFails, At
<1>2. Shared' /\ ClaimsOwnInventory'
  BY Untouched, Counted DEF InstallItemFails
<1>3. PICK t \in Seq(Packs), s \in SUBSET Packs : t = todo[p] /\ t # <<>> /\ s = installed[p]
  BY <1>1, Holding DEF PassHolds, At
<1>4. PICK types \in {<<"FAILED_RETRYABLE">>, <<"FAILED_TERMINAL">>,
                      <<"MANIFEST_VERIFIED", "FAILED_TERMINAL">>} :
         Then(p, "next", ForItem(Head(t), types))
  BY <1>3 DEF InstallItemFails
<1>8. {"MANIFEST_VERIFIED", "FAILED_RETRYABLE", "FAILED_TERMINAL"} \subseteq
         EventTypes \ RuntimeEvents
  BY DEF EventTypes, InstallEvents, FailureEvents, RuntimeEvents
<1>5. types \in Seq(EventTypes) /\ Len(types) <= 3
      /\ \A i \in 1..Len(types) : types[i] \notin RuntimeEvents
  <2>1. CASE types = <<"FAILED_RETRYABLE">>
    BY <1>8, <2>1
  <2>2. CASE types = <<"FAILED_TERMINAL">>
    BY <1>8, <2>2
  <2>3. CASE types = <<"MANIFEST_VERIFIED", "FAILED_TERMINAL">>
    BY <1>8, <2>3
  <2> QED
    BY <1>4, <2>1, <2>2, <2>3
<1>6. todo' = [todo EXCEPT ![p] = Tail(t)] /\ installed' = [installed EXCEPT ![p] = s]
  BY <1>3 DEF InstallItemFails, OInv, ITypes
<1>7. s \subseteq installed[p] \cup {Head(t)}
  BY <1>3
<1> QED
  BY <1>1, <1>2, <1>3, <1>4, <1>5, <1>6, <1>7, ItemGoes DEF InstallItemFails

LEMMA OrderLength ==
    ASSUME NEW S, IsFiniteSet(S)
    PROVE  Len(SetToSeq(S)) = Cardinality(S)
<1> DEFINE n == Cardinality(S)
<1>1. n \in Nat /\ \E f \in [1..n -> S] : IsInjective(f)
  BY FS_CardinalityType DEF ExistsBijection, Bijection, Injection, IsInjective
<1>2. SetToSeq(S) \in [1..n -> S]
  BY <1>1 DEF SetToSeq
<1> QED
  BY <1>1, <1>2

(* What is left when the outbox is empty.                                   *)
LEMMA LeftAt ==
    ASSUME OInv, NEW p \in Procs, NEW n, n = Len(items)
    PROVE  /\ n \in Nat
           /\ At(p, "next") => StepsLeft(p) >= 4 * n + 5
           /\ At(p, "attest") => StepsLeft(p) = 3 * n + 4
           /\ At(p, "drift") => StepsLeft(p) = 2 * n + 3
           /\ At(p, "finish") => StepsLeft(p) > 0
           /\ StepsLeft(p) \in Nat
<1>1. /\ outbox[p] \in Seq(Receipt) /\ todo[p] \in Seq(Packs) /\ pc[p] \in Labels
      /\ StepsLeft(p) = Remaining(pc[p], outbox[p], todo[p])
  BY DEF OInv, ITypes, StepsLeft
<1>2. PICK o \in Seq(Receipt), t \in Seq(Packs) : o = outbox[p] /\ t = todo[p]
  BY <1>1
<1>3. Len(o) \in Nat /\ Len(t) \in Nat /\ n \in Nat
  BY Lengths
<1>4. ASSUME At(p, "next") PROVE StepsLeft(p) >= 4 * n + 5
  <2>1. Remaining("next", o, t) >= Len(o) + 7 * Len(t) + 4 * n + 5 /\ Remaining("next", o, t) \in Nat
    BY WeightNext
  <2>2. StepsLeft(p) = Remaining("next", o, t)
    BY <1>1, <1>2, <1>4 DEF At
  <2> QED
    BY <1>3, <2>1, <2>2
<1>5. ASSUME At(p, "attest") PROVE StepsLeft(p) = 3 * n + 4
  <2>1. Remaining("attest", o, t) = Len(o) + 3 * n + 4 /\ Len(o) = 0
    BY <1>2, <1>5, WeightAttest DEF At
  <2> QED
    BY <1>1, <1>2, <1>3, <1>5, <2>1 DEF At
<1>6. ASSUME At(p, "drift") PROVE StepsLeft(p) = 2 * n + 3
  <2>1. Remaining("drift", o, t) = Len(o) + 2 * n + 3 /\ Len(o) = 0
    BY <1>2, <1>6, WeightDrift DEF At
  <2> QED
    BY <1>1, <1>2, <1>3, <1>6, <2>1 DEF At
<1>7. ASSUME pc[p] # "idle" PROVE StepsLeft(p) > 0 /\ StepsLeft(p) \in Nat
  <2>1. PICK l \in Labels \ {"idle"} : l = pc[p]
    BY <1>1, <1>7
  <2> QED
    BY <1>1, <1>2, <2>1, WeightPositive
<1>8. ASSUME pc[p] = "idle" PROVE StepsLeft(p) = 0
  BY <1>8 DEF StepsLeft, Remaining
<1> QED
  BY <1>3, <1>4, <1>5, <1>6, <1>7, <1>8 DEF At

(* Nothing but failures is still to be reported.                            *)
LEMMA FailuresSpooled ==
    ASSUME OInv, NEW p \in Procs, pc[p] # "idle", Shared', ClaimsOwnInventory',
           UNCHANGED <<published, epoch, doc, auto, seen, todo, installed, attestation>>,
           NEW o \in Seq(Receipt), Then(p, "finish", o),
           \A i \in 1..Len(o) : o[i].type \in FailureEvents,
           NEW m \in Nat, m = StepsLeft(p), Len(o) + 1 < m
    PROVE  OInv' /\ Fewer(p)
<1>1. PICK t \in Seq(Packs), s \in SUBSET Packs, a \in Claim :
         t = todo[p] /\ s = installed[p] /\ a = attestation[p]
  BY Holding
<1>2. PICK d \in 0..published : d = doc[p] /\ d # 0
  BY Holding
<1>3. Goes(p) /\ pc'[p] = "finish" /\ outbox'[p] = o /\ todo'[p] = t /\ installed'[p] = s
      /\ attestation'[p] = a
  BY <1>1 DEF Then, Goes, OInv, ITypes, Labels
<1>4. PassHolds(d, "finish", o, t, s, a)
  <2>1. PassHolds(doc[p], pc[p], outbox[p], todo[p], installed[p], attestation[p])
    BY Holding
  <2>2. \A i \in 1..Len(o) : ReceiptHolds(d, "finish", o, i)
    BY DEF ReceiptHolds, FailureEvents, InstallEvents
  <2> QED
    BY <1>1, <2>1, <2>2 DEF PassHolds
<1>5. Remaining("finish", o, t) < m
  <2>1. PICK n \in Nat : n = Len(items)
    BY Lengths
  <2>2. ~Open(o)
    BY DEF Open
  <2>3. Remaining("finish", o, t) = Len(o) + 1
    BY <2>1, <2>2, WeightFinish
  <2> QED
    BY <2>3
<1>6. "finish" \in Labels \ {"idle"}
  BY DEF Labels
<1> QED
  BY <1>2, <1>3, <1>4, <1>5, <1>6, Moved

LEMMA CloseInstalledGoes ==
    ASSUME OInv, NEW p \in Procs, CloseInstalled(p) PROVE OInv' /\ Fewer(p)
<1>1. Shared' /\ ClaimsOwnInventory'
  BY Untouched DEF CloseInstalled, OInv, ITypes
<1>2. PICK s \in SUBSET Packs : s = installed[p]
  BY DEF OInv, ITypes
<1>3. PICK peers : peers = SetToSeq(s)
  OBVIOUS
<1>4. IsFiniteSet(s) /\ Cardinality(s) <= Cardinality(Packs) /\ IsFiniteSet(Packs)
  BY ReconcilerConstants, FS_Subset
<1>5. peers \in Seq(s) /\ Len(peers) = Cardinality(s) /\ Cardinality(s) \in Nat
  BY <1>3, <1>4, InSomeOrder, OrderLength, FS_CardinalityType
<1>6. PICK n \in Nat : n = Len(items) /\ Len(peers) <= n
  BY <1>4, <1>5, OrderLength, FS_CardinalityType DEF items
<1>7. PICK o : o = [i \in 1..Len(peers) |->
                       [pack |-> peers[i], type |-> "FAILED_RETRYABLE", claim |-> NoClaim]]
  OBVIOUS
<1>8. o \in Seq(Receipt)
  <2>1. \A i \in 1..Len(peers) : peers[i] \in Packs
    BY <1>5
  <2>2. o \in [1..Len(peers) -> Receipt]
    BY <1>7, <2>1, Constants DEF Receipt, FailureEvents
  <2> QED
    BY <1>5, <2>2
<1>9. Len(o) = Len(peers) /\ \A i \in 1..Len(o) : o[i].type \in FailureEvents
  BY <1>5, <1>7, <1>8 DEF FailureEvents
<1>10. Then(p, "finish", o)
  <2>1. DOMAIN peers = 1..Len(peers)
    BY <1>5
  <2>2. PeersClosed(p) = o
    BY <1>2, <1>3, <1>7, <2>1 DEF PeersClosed
  <2> QED
    BY <2>2 DEF CloseInstalled
<1>11. StepsLeft(p) \in Nat /\ StepsLeft(p) >= 4 * n + 5
  BY <1>6, LeftAt DEF CloseInstalled
<1>12. PICK m \in Nat : m = StepsLeft(p) /\ Len(o) + 1 < m
  BY <1>5, <1>6, <1>9, <1>11
<1>13. pc[p] # "idle"
  BY DEF CloseInstalled, At
<1> QED
  BY <1>1, <1>8, <1>9, <1>10, <1>12, <1>13, FailuresSpooled DEF CloseInstalled

(* The activation, or what is done in its place.                            *)
LEMMA ActivationGoes ==
    ASSUME OInv, NEW p \in Procs, LeavePending(p) \/ Activate(p) \/ ActivateFails(p)
    PROVE  OInv' /\ Fewer(p)
<1>1. At(p, "next") /\ pc[p] # "idle"
  BY DEF LeavePending, Activate, ActivateFails, At
<1>2. PICK d \in 0..published : d = doc[p] /\ d # 0
  BY <1>1, Holding
<1>3. PICK n \in Nat : n = Len(items) /\ StepsLeft(p) >= 4 * n + 5 /\ StepsLeft(p) \in Nat
  BY <1>1, Lengths, LeftAt
<1>4. UNCHANGED <<published, epoch, doc, auto, seen, todo, installed, attestation>>
  BY DEF LeavePending, Activate, ActivateFails
<1>5. Shared' /\ ClaimsOwnInventory'
  <2>1. CASE LeavePending(p) \/ ActivateFails(p)
    BY <2>1, HalfUntouched, Counted DEF LeavePending, ActivateFails, OInv, ITypes
  <2>2. CASE Activate(p)
    <3>1. runtime' \in [gen : Nat, current : BOOLEAN]
      BY <2>2 DEF Activate, OInv, ITypes
    <3> QED
      BY <1>2, <2>2, <3>1 DEF Activate, OInv, ITypes, Shared, ClaimsOwnInventory
  <2> QED
    BY <2>1, <2>2
<1>6. ASSUME NEW o \in Seq(Receipt), NEW t \in Seq(Packs), Len(o) = Len(items)
      PROVE  /\ Remaining("finish", o, t) < StepsLeft(p)
             /\ Remaining("attest", o, t) < StepsLeft(p)
  <2>1. Remaining("finish", o, t) <= Len(o) + n + 2 /\ Remaining("finish", o, t) \in Nat
    BY <1>3, WeightFinish
  <2>2. Remaining("attest", o, t) = Len(o) + 3 * n + 4
    BY <1>3, WeightAttest
  <2>3. Len(o) = n
    BY <1>3, <1>6
  <2> QED
    BY <1>3, <2>1, <2>2, <2>3
<1>7. PICK l \in {"attest", "finish"}, e \in Closed \ {"RUNTIME_ATTESTED", "DRIFT_DETECTED"} :
         Then(p, l, ForAllItems(e, NoClaim))
  BY DEF LeavePending, Activate, ActivateFails, Closed, RuntimeEvents, FailureEvents
<1>8. NoClaim \in Claim
  BY Constants
<1> QED
  BY <1>1, <1>2, <1>4, <1>5, <1>6, <1>7, <1>8, AllSpooled

(* What the adapter says of the runtime.                                    *)
LEMMA AttestGoes ==
    ASSUME OInv, NEW p \in Procs, Attest(p) PROVE OInv' /\ Fewer(p)
<1>1. At(p, "attest") /\ pc[p] # "idle" /\ active = doc[p]
  BY DEF Attest, At, Attestable
<1>2. PICK d \in 0..published : d = doc[p] /\ d # 0
  BY <1>1, Holding
<1>3. PICK n \in Nat : n = Len(items) /\ StepsLeft(p) = 3 * n + 4
  BY <1>1, Lengths, LeftAt
<1>4. Shared' /\ ClaimsOwnInventory'
  BY Untouched DEF Attest, OInv, ITypes
<1>5. PICK c \in Claim : c = [gen |-> runtime.gen, inventory |-> active]
  <2>1. published \in Nat /\ active \in 0..published /\ runtime.gen \in Nat
    BY Constants DEF OInv, ITypes
  <2>2. active \in Nat
    BY <2>1
  <2>3. [gen |-> runtime.gen, inventory |-> active] \in Claim
    BY <2>1, <2>2 DEF Claim
  <2> QED
    BY <2>3
<1>6. c.inventory = d
  BY <1>1, <1>2, <1>5
<1>7. attestation' = [attestation EXCEPT ![p] = c] /\ attestation'[p] = c
  BY <1>5 DEF Attest, OInv, ITypes
<1>8. PICK o \in Seq(Receipt) : o = ForAllItems("RUNTIME_ATTESTED", c)
  BY ForAll DEF EventTypes, RuntimeEvents
<1>9. /\ Len(o) = n
      /\ \A i \in 1..Len(o) : o[i].type = "RUNTIME_ATTESTED" /\ o[i].claim = c
  BY <1>3, <1>8, ForAll, ClaimsForAll DEF EventTypes, RuntimeEvents
<1>10. PICK t \in Seq(Packs), s \in SUBSET Packs : t = todo[p] /\ s = installed[p]
  BY <1>1, Holding
<1>11. Then(p, "drift", o)
  BY <1>7, <1>8 DEF Attest
<1>12. /\ Goes(p) /\ pc'[p] = "drift" /\ outbox'[p] = o /\ todo'[p] = t /\ installed'[p] = s
       /\ attestation'[p] = c
  BY <1>7, <1>10, <1>11 DEF Attest, Then, Goes, OInv, ITypes, Labels
<1>13. PassHolds(d, "drift", o, t, s, c)
  <2>1. PassHolds(doc[p], pc[p], outbox[p], todo[p], installed[p], attestation[p])
    BY <1>1, Holding
  <2>2. \A i \in 1..Len(o) : ReceiptHolds(d, "drift", o, i)
    BY <1>6, <1>9 DEF ReceiptHolds, InstallEvents
  <2> QED
    BY <1>6, <1>10, <2>1, <2>2 DEF PassHolds
<1>14. Remaining("drift", o, t) < StepsLeft(p)
  <2>1. Remaining("drift", o, t) = Len(o) + 2 * n + 3
    BY <1>3, WeightDrift
  <2> QED
    BY <1>3, <1>9, <2>1
<1>15. "drift" \in Labels \ {"idle"}
  BY DEF Labels
<1> QED
  BY <1>2, <1>4, <1>12, <1>13, <1>14, <1>15, Moved

LEMMA AttestPendingGoes ==
    ASSUME OInv, NEW p \in Procs, AttestPending(p) PROVE OInv' /\ Fewer(p)
<1>1. At(p, "attest") /\ pc[p] # "idle"
  BY DEF AttestPending, At
<1>2. PICK n \in Nat : n = Len(items) /\ StepsLeft(p) = 3 * n + 4
  BY <1>1, Lengths, LeftAt
<1>3. PICK m \in Nat : m = StepsLeft(p) /\ 1 < m
  BY <1>2
<1>4. Shared' /\ ClaimsOwnInventory'
  BY Untouched DEF AttestPending, OInv, ITypes
<1>a. <<>> \in Seq(Receipt) /\ Len(<<>>) = 0
  OBVIOUS
<1>5. PICK o \in Seq(Receipt) : o = <<>> /\ Len(o) = 0
  BY <1>a
<1>6. Then(p, "finish", o)
  BY <1>5 DEF AttestPending
<1>7. Len(o) + 1 < m
  BY <1>3, <1>5
<1>8. \A i \in 1..Len(o) : o[i].type \in FailureEvents
  BY <1>5
<1> QED
  BY <1>1, <1>3, <1>4, <1>6, <1>7, <1>8, FailuresSpooled DEF AttestPending

LEMMA CallGoes ==
    ASSUME OInv, NEW p \in Procs, AttestInvalid(p) \/ DetectDrift(p) \/ RuntimeCallFails(p)
    PROVE  OInv' /\ Fewer(p)
<1>1. (At(p, "attest") \/ At(p, "drift")) /\ pc[p] # "idle"
  BY DEF AttestInvalid, DetectDrift, RuntimeCallFails, At
<1>2. PICK d \in 0..published : d = doc[p] /\ d # 0
  BY <1>1, Holding
<1>3. PICK n \in Nat : n = Len(items) /\ StepsLeft(p) >= 2 * n + 3 /\ StepsLeft(p) \in Nat
  <2>1. PICK n \in Nat : n = Len(items)
    BY Lengths
  <2>2. StepsLeft(p) = 3 * n + 4 \/ StepsLeft(p) = 2 * n + 3
    BY <1>1, <2>1, LeftAt
  <2> QED
    BY <2>1, <2>2
<1>4. UNCHANGED <<published, epoch, doc, auto, seen, todo, installed, attestation>>
  BY DEF AttestInvalid, DetectDrift, RuntimeCallFails
<1>5. Shared' /\ ClaimsOwnInventory'
  BY Untouched, Counted DEF AttestInvalid, DetectDrift, RuntimeCallFails, OInv, ITypes
<1>6. ASSUME NEW o \in Seq(Receipt), NEW t \in Seq(Packs), Len(o) = Len(items)
      PROVE  Remaining("finish", o, t) < StepsLeft(p)
  <2>1. Remaining("finish", o, t) <= Len(o) + n + 2 /\ Remaining("finish", o, t) \in Nat
    BY <1>3, WeightFinish
  <2>2. Len(o) = n
    BY <1>3, <1>6
  <2> QED
    BY <1>3, <2>1, <2>2
<1>7. CASE \E e \in FailureEvents : Then(p, "finish", ForAllItems(e, NoClaim))
  <2>1. PICK e \in Closed \ {"RUNTIME_ATTESTED", "DRIFT_DETECTED"} :
           Then(p, "finish", ForAllItems(e, NoClaim))
    BY <1>7 DEF Closed, FailureEvents, RuntimeEvents
  <2> QED
    BY <1>1, <1>2, <1>4, <1>5, <1>6, <2>1, Constants, AllSpooled
<1>8. CASE Then(p, "finish", <<>>)
  <2>a. <<>> \in Seq(Receipt) /\ Len(<<>>) = 0
    OBVIOUS
  <2>1. PICK o \in Seq(Receipt) : o = <<>> /\ Len(o) = 0
    BY <2>a
  <2>2. PICK m \in Nat : m = StepsLeft(p) /\ Len(o) + 1 < m
    BY <1>3, <2>1
  <2>3. \A i \in 1..Len(o) : o[i].type \in FailureEvents
    BY <2>1
  <2> QED
    BY <1>1, <1>4, <1>5, <1>8, <2>1, <2>2, <2>3, FailuresSpooled
<1>9. CASE At(p, "drift") /\ Then(p, "finish", ForAllItems("DRIFT_DETECTED", attestation[p]))
  <2>1. PICK c \in Claim : c = attestation[p]
    BY <1>1, Holding
  <2>2. c.inventory = d
    BY <1>1, <1>2, <1>9, <2>1, Holding DEF At, PassHolds
  <2>3. Then(p, "finish", ForAllItems("DRIFT_DETECTED", c)) /\ "DRIFT_DETECTED" \in Closed
    BY <1>9, <2>1, Constants
  <2> QED
    BY <1>1, <1>2, <1>4, <1>5, <1>6, <2>2, <2>3, AllSpooled
<1> QED
  BY <1>7, <1>8, <1>9 DEF AttestInvalid, DetectDrift, RuntimeCallFails, FailureEvents

(* A receipt that is reported claims the inventory of its document.         *)
LEMMA ReportedClaims ==
    ASSUME OInv, NEW p \in Procs, outbox[p] # <<>>,
           NEW r, r = Head(outbox[p]), NEW d, d = doc[p],
           reported' = Appended(<<d, r.pack>>, r)
    PROVE  /\ ClaimsOwnInventory'
           /\ reported' \in [Attempts -> Seq(Event)]
<1> DEFINE a == <<d, r.pack>>
<1>1. /\ outbox[p] \in Seq(Receipt) /\ reported \in [Attempts -> Seq(Event)]
      /\ d \in Docs
  <2>1. pc[p] # "idle"
    BY DEF OInv, ITypes
  <2>2. d \in 0..published /\ d # 0 /\ published \in 0..MaxEpoch
    BY <2>1 DEF OInv, ITypes
  <2>3. d \in Docs
    BY <2>2, Constants DEF Docs
  <2> QED
    BY <2>3 DEF OInv, ITypes
<1>2. r \in Receipt /\ r = outbox[p][1] /\ 1 \in 1..Len(outbox[p])
  BY <1>1, HeadTail
<1>3. r.type \in {"RUNTIME_ATTESTED", "DRIFT_DETECTED"} => r.claim.inventory = d
  BY <1>2 DEF OInv, IAlone, PassHolds, ReceiptHolds
<1>4. a \in Attempts
  BY <1>1, <1>2 DEF Attempts, Receipt
<1>5. /\ reported' \in [Attempts -> Seq(Event)]
      /\ Len(reported'[a]) = Len(reported[a]) + 1
      /\ reported'[a][Len(reported[a]) + 1] = [type |-> r.type, claim |-> r.claim]
      /\ \A i \in 1..Len(reported[a]) : reported'[a][i] = reported[a][i]
      /\ \A b \in Attempts \ {a} : reported'[b] = reported[b]
  BY <1>1, <1>2, <1>4, LastAppended
<1>6. ASSUME NEW b \in Attempts, NEW i \in 1..Len(reported'[b]),
             reported'[b][i].type \in {"RUNTIME_ATTESTED", "DRIFT_DETECTED"}
      PROVE  reported'[b][i].claim.inventory = b[1]
  <2>1. CASE b # a
    <3>1. reported'[b] = reported[b]
      BY <1>5, <2>1
    <3> QED
      BY <1>6, <3>1 DEF OInv, ClaimsOwnInventory
  <2>2. CASE b = a /\ i = Len(reported[a]) + 1
    BY <1>3, <1>5, <1>6, <2>2
  <2>3. CASE b = a /\ i \in 1..Len(reported[a])
    <3>1. reported'[b][i] = reported[a][i]
      BY <1>5, <2>3
    <3> QED
      BY <1>4, <1>6, <2>3, <3>1 DEF OInv, ClaimsOwnInventory
  <2>4. b = a => i \in 1..(Len(reported[a]) + 1) /\ Len(reported[a]) \in Nat
    BY <1>1, <1>4, <1>5
  <2>5. b = a => i = Len(reported[a]) + 1 \/ i \in 1..Len(reported[a])
    BY <2>4
  <2> QED
    BY <2>1, <2>2, <2>3, <2>5
<1> QED
  BY <1>5, <1>6 DEF ClaimsOwnInventory

(* A receipt less weighs less.                                              *)
LEMMA TailWeighs ==
    ASSUME NEW q \in Seq(Receipt), q # <<>>, NEW t \in Seq(Packs), NEW l \in Labels \ {"idle"}
    PROVE  Tail(q) \in Seq(Receipt) /\ Remaining(l, Tail(q), t) < Remaining(l, q, t)
<1>1. PICK o : o = Tail(q)
  OBVIOUS
<1>2. o \in Seq(Receipt) /\ Len(o) = Len(q) - 1 /\ \A i \in 1..Len(o) : o[i] = q[i + 1]
  BY <1>1, HeadTail
<1>3. Len(o) \in Nat /\ Len(q) = Len(o) + 1 /\ Len(t) \in Nat
  BY <1>2, Lengths
<1>4. PICK n \in Nat : n = Len(items)
  BY Lengths
<1>5. Open(o) => Open(q)
  <2> SUFFICES ASSUME NEW i \in 1..Len(o), o[i].type \notin FailureEvents PROVE Open(q)
    BY DEF Open
  <2>1. i + 1 \in 1..Len(q) /\ q[i + 1].type \notin FailureEvents
    BY <1>2, <1>3
  <2> QED
    BY <2>1 DEF Open
<1>6. CASE l = "next"
  <2>1. /\ Open(o) => Remaining(l, o, t) = Len(o) + 7 * Len(t) + 4 * n + 6
        /\ ~Open(o) => Remaining(l, o, t) = Len(o) + 7 * Len(t) + 4 * n + 5
    BY <1>2, <1>4, <1>6, WeightNext
  <2>2. /\ Open(q) => Remaining(l, q, t) = Len(q) + 7 * Len(t) + 4 * n + 6
        /\ ~Open(q) => Remaining(l, q, t) = Len(q) + 7 * Len(t) + 4 * n + 5
    BY <1>4, <1>6, WeightNext
  <2> QED
    BY <1>1, <1>2, <1>3, <1>5, <2>1, <2>2
<1>7. CASE l = "finish"
  <2>1. /\ Open(o) => Remaining(l, o, t) = Len(o) + n + 2
        /\ ~Open(o) => Remaining(l, o, t) = Len(o) + 1
    BY <1>2, <1>4, <1>7, WeightFinish
  <2>2. /\ Open(q) => Remaining(l, q, t) = Len(q) + n + 2
        /\ ~Open(q) => Remaining(l, q, t) = Len(q) + 1
    BY <1>4, <1>7, WeightFinish
  <2> QED
    BY <1>1, <1>2, <1>3, <1>5, <2>1, <2>2
<1>8. CASE l = "install"
  <2>1. Remaining(l, o, t) = Len(o) + 7 * Len(t) + 4 * n + 3
    BY <1>2, <1>4, <1>8, WeightInstall
  <2>2. Remaining(l, q, t) = Len(q) + 7 * Len(t) + 4 * n + 3
    BY <1>4, <1>8, WeightInstall
  <2> QED
    BY <1>1, <1>2, <1>3, <2>1, <2>2
<1>9. CASE l = "attest"
  <2>1. Remaining(l, o, t) = Len(o) + 3 * n + 4
    BY <1>2, <1>4, <1>9, WeightAttest
  <2>2. Remaining(l, q, t) = Len(q) + 3 * n + 4
    BY <1>4, <1>9, WeightAttest
  <2> QED
    BY <1>1, <1>2, <1>3, <2>1, <2>2
<1>10. CASE l = "drift"
  <2>1. Remaining(l, o, t) = Len(o) + 2 * n + 3
    BY <1>2, <1>4, <1>10, WeightDrift
  <2>2. Remaining(l, q, t) = Len(q) + 2 * n + 3
    BY <1>4, <1>10, WeightDrift
  <2> QED
    BY <1>1, <1>2, <1>3, <2>1, <2>2
<1> QED
  BY <1>6, <1>7, <1>8, <1>9, <1>10 DEF Labels

LEMMA SpoolGoes ==
    ASSUME OInv, NEW p \in Procs, Spool(p) PROVE OInv' /\ Fewer(p)
<1>1. outbox[p] # <<>> /\ pc[p] # "idle"
  BY DEF Spool, OInv, ITypes
<1>2. PICK d \in 0..published : d = doc[p] /\ d # 0
  BY <1>1, Holding
<1>3. PICK r : r = Head(outbox[p])
  OBVIOUS
<1>4. Shared' /\ ClaimsOwnInventory'
  <2>1. CASE reported' = reported
    BY <2>1, Untouched DEF Spool, OInv, ITypes
  <2>2. CASE reported' = Appended(<<d, r.pack>>, r)
    <3>1. ClaimsOwnInventory' /\ reported' \in [Attempts -> Seq(Event)]
      BY <1>1, <1>2, <1>3, <2>2, ReportedClaims
    <3> QED
      BY <3>1 DEF Spool, OInv, ITypes, Shared, adapterVars
  <2> QED
    BY <1>2, <1>3, <2>1, <2>2 DEF Spool
<1>5. PICK q \in Seq(Receipt), t \in Seq(Packs) : q = outbox[p] /\ t = todo[p]
  BY <1>1, Holding
<1>6. PICK l \in Labels \ {"idle"}, s \in SUBSET Packs, c \in Claim :
         l = pc[p] /\ s = installed[p] /\ c = attestation[p]
  BY <1>1, Holding
<1>7. PICK o : o = Tail(q)
  OBVIOUS
<1>8. /\ o \in Seq(Receipt) /\ Len(o) = Len(q) - 1 /\ Len(q) \in Nat
      /\ \A i \in 1..(Len(q) - 1) : o[i] = q[i + 1]
  BY <1>1, <1>5, <1>7, HeadTail
<1>9. Goes(p) /\ pc'[p] = l /\ outbox'[p] = o /\ todo'[p] = t /\ installed'[p] = s
      /\ attestation'[p] = c
  BY <1>5, <1>6, <1>7, <1>8 DEF Spool, Goes, OInv, ITypes
<1>10. PassHolds(d, l, o, t, s, c)
  <2>1. PassHolds(d, l, q, t, s, c)
    BY <1>1, <1>2, <1>5, <1>6, Holding
  <2>2. \A i \in 1..Len(o) : i + 1 \in 1..Len(q) /\ o[i] = q[i + 1]
    BY <1>8
  <2>3. \A i \in 1..Len(o) : ReceiptHolds(d, l, o, i)
    BY <2>1, <2>2 DEF PassHolds, ReceiptHolds
  <2> QED
    BY <2>1, <2>3 DEF PassHolds
<1>11. Remaining(l, o, t) < StepsLeft(p)
  BY <1>1, <1>5, <1>6, <1>7, TailWeighs DEF StepsLeft
<1> QED
  BY <1>2, <1>4, <1>9, <1>10, <1>11, Moved

LEMMA LeaveGoes ==
    ASSUME OInv, NEW p \in Procs, Finish(p) \/ Crash(p) PROVE OInv' /\ Fewer(p)
<1>1. pc[p] # "idle" /\ Leave(p) /\ published' = published
  BY DEF Finish, Crash, At
<1>2. epoch' \in 0..published
  BY <1>1, Holding DEF Finish, Crash, OInv, ITypes
<1>3. count' \in [stops : Nat, faults : Nat, drifts : Nat, starts : Nat]
  BY Counted DEF Finish, Crash, OInv, ITypes
<1>4. Shared' /\ ClaimsOwnInventory'
  BY <1>3, HalfUntouched DEF Finish, Crash
<1> QED
  BY <1>1, <1>2, <1>4, Left

(* A pass that has more to report than failures is far enough from its end  *)
(* to report a failure of every item.                                       *)
LEMMA OpenWeighs ==
    ASSUME NEW q \in Seq(Receipt), Open(q), NEW t \in Seq(Packs), NEW l \in Labels \ {"idle"},
           NEW n \in Nat, n = Len(items)
    PROVE  Remaining(l, q, t) > n + 1
<1>1. Len(q) \in Nat /\ Len(t) \in Nat
  BY Lengths
<1>2. CASE l = "next"
  <2>1. Remaining(l, q, t) = Len(q) + 7 * Len(t) + 4 * n + 6
    BY <1>2, WeightNext
  <2> QED
    BY <1>1, <2>1
<1>3. CASE l = "finish"
  <2>1. Remaining(l, q, t) = Len(q) + n + 2
    BY <1>3, WeightFinish
  <2> QED
    BY <1>1, <2>1
<1>4. CASE l = "install"
  <2>1. Remaining(l, q, t) = Len(q) + 7 * Len(t) + 4 * n + 3
    BY <1>4, WeightInstall
  <2> QED
    BY <1>1, <2>1
<1>5. CASE l = "attest"
  <2>1. Remaining(l, q, t) = Len(q) + 3 * n + 4
    BY <1>5, WeightAttest
  <2> QED
    BY <1>1, <2>1
<1>6. CASE l = "drift"
  <2>1. Remaining(l, q, t) = Len(q) + 2 * n + 3
    BY <1>6, WeightDrift
  <2> QED
    BY <1>1, <2>1
<1> QED
  BY <1>2, <1>3, <1>4, <1>5, <1>6 DEF Labels

LEMMA SpoolFailsGoes ==
    ASSUME OInv, NEW p \in Procs, SpoolFails(p) PROVE OInv' /\ Fewer(p)
<1>1. outbox[p] # <<>> /\ pc[p] # "idle" /\ UNCHANGED <<published, epoch, adapterVars>>
  BY DEF SpoolFails, OInv, ITypes
<1>2. PICK d \in 0..published : d = doc[p] /\ d # 0
  BY <1>1, Holding
<1>3. PICK r : r = Head(outbox[p])
  OBVIOUS
<1>4. Shared' /\ ClaimsOwnInventory'
  <2>1. count' \in [stops : Nat, faults : Nat, drifts : Nat, starts : Nat]
    BY Counted DEF SpoolFails
  <2>2. CASE reported' = reported
    BY <1>1, <2>1, <2>2, Untouched
  <2>3. CASE reported' = Appended(<<d, r.pack>>, r)
    <3>1. ClaimsOwnInventory' /\ reported' \in [Attempts -> Seq(Event)]
      BY <1>1, <1>2, <1>3, <2>3, ReportedClaims
    <3> QED
      BY <1>1, <2>1, <3>1 DEF OInv, ITypes, Shared, adapterVars
  <2> QED
    BY <1>2, <1>3, <2>2, <2>3 DEF SpoolFails
<1>5. PICK q \in Seq(Receipt), t \in Seq(Packs) : q = outbox[p] /\ t = todo[p]
  BY <1>1, Holding
<1>6. PICK l \in Labels \ {"idle"} : l = pc[p]
  BY <1>1, Holding
<1>7. r \in Receipt /\ r = q[1] /\ 1 \in 1..Len(q) /\ StepsLeft(p) = Remaining(l, q, t)
  <2>1. StepsLeft(p) = Remaining(l, q, t)
    BY <1>1, <1>5, <1>6, Holding
  <2>2. q # <<>> /\ r = Head(q)
    BY <1>1, <1>3, <1>5
  <2> QED
    BY <2>1, <2>2, HeadTail
<1>8. PICK n \in Nat : n = Len(items)
  BY Lengths
<1>9. PassHolds(d, l, q, t, installed[p], attestation[p])
  BY <1>1, <1>2, <1>5, <1>6, Holding
<1>10. CASE /\ r.type \in InstallEvents
            /\ Then(p, "next", ForItem(r.pack, <<"FAILED_RETRYABLE">>))
            /\ installed' = [installed EXCEPT ![p] = @ \ {r.pack}]
            /\ UNCHANGED <<doc, auto, seen, todo, attestation>>
  <2>1. l = "next"
    BY <1>7, <1>9, <1>10 DEF PassHolds, ReceiptHolds
  <2>2. PICK types : types = <<"FAILED_RETRYABLE">>
    OBVIOUS
  <2>3. types \in Seq(EventTypes) /\ Len(types) = 1 /\ r.pack \in Packs
    BY <1>7, <2>2, Constants DEF FailureEvents, Receipt
  <2>4. \A i \in 1..Len(types) :
           types[i] \in FailureEvents /\ types[i] \notin RuntimeEvents /\ types[i] \notin InstallEvents
    BY <2>2 DEF FailureEvents, RuntimeEvents, InstallEvents
  <2>5. PICK s \in SUBSET Packs : s = installed[p] \ {r.pack}
    BY <1>1, Holding
  <2>6. installed' = [installed EXCEPT ![p] = s] /\ todo' = [todo EXCEPT ![p] = t]
    BY <1>5, <1>10, <2>5 DEF OInv, ITypes
  <2>7. (\A i, j \in 1..Len(t) : t[i] = t[j] => i = j) /\ \A i \in 1..Len(t) : t[i] \notin s
    BY <1>9, <2>5 DEF PassHolds
  <2>8. Open(q)
    BY <1>7, <1>10 DEF Open, InstallEvents, FailureEvents
  <2>9. ASSUME NEW o \in Seq(Receipt), Len(o) = 1, ~Open(o)
        PROVE  Remaining("next", o, t) < StepsLeft(p)
    <3>1. Remaining("next", o, t) = Len(o) + 7 * Len(t) + 4 * n + 5
      BY <1>8, <2>9, WeightNext
    <3>2. Remaining("next", q, t) = Len(q) + 7 * Len(t) + 4 * n + 6
      BY <1>8, <2>8, WeightNext
    <3>3. Len(q) \in Nat /\ Len(t) \in Nat /\ Len(q) >= 1
      BY <1>7, Lengths
    <3> QED
      BY <1>7, <2>1, <2>9, <3>1, <3>2, <3>3
  <2>10. /\ Then(p, "next", ForItem(r.pack, types))
         /\ UNCHANGED <<published, epoch, doc, auto, seen, attestation>>
    BY <1>1, <1>10, <2>2
  <2> QED
    BY <1>1, <1>4, <2>3, <2>4, <2>6, <2>7, <2>9, <2>10, OneSpooled
<1>11. CASE /\ r.type \in RuntimeEvents
            /\ Then(p, "finish", ForAllItems("FAILED_RETRYABLE", NoClaim))
            /\ UNCHANGED <<doc, auto, seen, todo, installed, attestation>>
  <2>1. Open(q)
    BY <1>7, <1>11 DEF Open, RuntimeEvents, FailureEvents
  <2>2. Remaining(l, q, t) > n + 1 /\ Remaining(l, q, t) \in Nat
    BY <1>8, <2>1, OpenWeighs, WeightPositive
  <2>3. PICK o : o = ForAllItems("FAILED_RETRYABLE", NoClaim)
    OBVIOUS
  <2>4. /\ "FAILED_RETRYABLE" \in FailureEvents /\ "FAILED_RETRYABLE" \in EventTypes
        /\ NoClaim \in Claim
    BY Constants DEF FailureEvents
  <2>5. /\ o \in Seq(Receipt) /\ Len(o) = n
        /\ \A i \in 1..Len(o) : o[i].type \in FailureEvents
    BY <1>8, <2>3, <2>4, ForAll
  <2>6. PICK m \in Nat : m = StepsLeft(p) /\ Len(o) + 1 < m
    BY <1>7, <2>2, <2>5
  <2>7. Then(p, "finish", o)
    BY <1>11, <2>3
  <2>8. UNCHANGED <<published, epoch, doc, auto, seen, todo, installed, attestation>>
    BY <1>1, <1>11
  <2> QED
    BY <1>1, <1>4, <2>5, <2>6, <2>7, <2>8, FailuresSpooled
<1>12. CASE Leave(p)
  <2>1. epoch' \in 0..published /\ published' = published
    BY <1>1 DEF OInv, ITypes
  <2> QED
    BY <1>1, <1>4, <1>12, <2>1, Left
<1> QED
  BY <1>3, <1>10, <1>11, <1>12 DEF SpoolFails

LEMMA Going ==
    ASSUME OInv, NEW p \in Procs, Step(p) \/ SpoolFails(p) \/ Crash(p)
    PROVE  OInv' /\ Fewer(p)
<1>1. CASE NextItem(p) \/ InstallItem(p) \/ InstallItemFails(p) \/ CloseInstalled(p)
  BY <1>1, NextItemGoes, InstallItemGoes, InstallItemFailsGoes, CloseInstalledGoes
<1>2. CASE LeavePending(p) \/ Activate(p) \/ ActivateFails(p)
  BY <1>2, ActivationGoes
<1>3. CASE Attest(p) \/ AttestPending(p) \/ AttestInvalid(p) \/ DetectDrift(p)
           \/ RuntimeCallFails(p)
  BY <1>3, AttestGoes, AttestPendingGoes, CallGoes
<1>4. CASE Spool(p) \/ SpoolFails(p)
  BY <1>4, SpoolGoes, SpoolFailsGoes
<1>5. CASE Finish(p) \/ Crash(p)
  BY <1>5, LeaveGoes
<1> QED
  BY <1>1, <1>2, <1>3, <1>4, <1>5 DEF Step

(* A pass starts.                                                           *)
LEMMA Starting ==
    ASSUME OInv, NEW p \in Procs, NEW d \in Delivered, Begin(p, d) \/ Resume(p, d)
    PROVE  /\ OInv'
           /\ pc[p] = "idle" /\ StepsLeft(p)' <= PassBound
           /\ \A q \in Procs \ {p} : StepsLeft(q)' = StepsLeft(q)
<1>1. /\ pc[p] = "idle" /\ outbox[p] = <<>> /\ todo[p] = <<>> /\ installed[p] = {}
      /\ UNCHANGED <<published, epoch, reported, adapterVars, installed, attestation, outbox,
                     count>>
  BY DEF Begin, Resume, OInv, ITypes
<1>2. d \in 1..published /\ d # 0
  BY DEF Delivered, OInv, ITypes
<1>3. Shared' /\ ClaimsOwnInventory'
  BY <1>1, Untouched DEF OInv, ITypes
<1>4. PICK l \in {"next", "attest"}, t \in Seq(Packs) :
         /\ pc' = [pc EXCEPT ![p] = l] /\ todo' = [todo EXCEPT ![p] = t]
         /\ \A i, j \in 1..Len(t) : t[i] = t[j] => i = j
         /\ l = "attest" => t = <<>>
         /\ l = "next" => t = items
         /\ auto' \in [Procs -> BOOLEAN] /\ seen' \in [Procs -> BOOLEAN]
         /\ \A q \in Procs \ {p} : seen'[q] = seen[q]
  <2>1. CASE Begin(p, d)
    <3>1. PICK t \in Seq(Packs) : t = items
      BY Items
    <3>2. \A i, j \in 1..Len(t) : t[i] = t[j] => i = j
      BY <3>1, Items
    <3>3. auto' \in [Procs -> BOOLEAN] /\ seen' = seen /\ seen \in [Procs -> BOOLEAN]
      BY <2>1, ReconcilerConstants DEF Begin, OInv, ITypes
    <3>4. pc' = [pc EXCEPT ![p] = "next"] /\ todo' = [todo EXCEPT ![p] = t]
      BY <2>1, <3>1 DEF Begin
    <3> QED
      BY <3>1, <3>2, <3>3, <3>4
  <2>2. CASE Resume(p, d)
    <3>1. PICK t \in Seq(Packs) : t = <<>> /\ Len(t) = 0
      BY <1>1, Holding DEF OInv, ITypes
    <3>2. todo' = [todo EXCEPT ![p] = t]
      BY <1>1, <2>2, <3>1 DEF Resume, OInv, ITypes
    <3>3. /\ auto' \in [Procs -> BOOLEAN] /\ seen' \in [Procs -> BOOLEAN]
          /\ \A q \in Procs \ {p} : seen'[q] = seen[q]
      BY <2>2 DEF Resume, OInv, ITypes
    <3>4. pc' = [pc EXCEPT ![p] = "attest"]
      BY <2>2 DEF Resume
    <3>5. \A i, j \in 1..Len(t) : t[i] = t[j] => i = j
      BY <3>1
    <3> QED
      BY <3>1, <3>2, <3>3, <3>4, <3>5
  <2> QED
    BY <2>1, <2>2
<1>5. doc' = [doc EXCEPT ![p] = d]
  BY DEF Begin, Resume
<1>6. /\ pc' \in [Procs -> Labels] /\ todo' \in [Procs -> Seq(Packs)]
      /\ doc' \in [Procs -> 0..published]
      /\ pc'[p] = l /\ todo'[p] = t /\ doc'[p] = d
      /\ \A q \in Procs \ {p} : pc'[q] = pc[q] /\ todo'[q] = todo[q] /\ doc'[q] = doc[q]
  BY <1>2, <1>4, <1>5 DEF OInv, ITypes, Labels
<1>7. ITypes'
  <2>1. \A q \in Procs :
           IF pc'[q] = "idle"
           THEN /\ doc'[q] = 0 /\ todo'[q] = <<>> /\ installed'[q] = {}
                /\ outbox'[q] = <<>> /\ ~seen'[q]
           ELSE doc'[q] # 0
    <3> SUFFICES ASSUME NEW q \in Procs
                 PROVE  IF pc'[q] = "idle"
                        THEN /\ doc'[q] = 0 /\ todo'[q] = <<>> /\ installed'[q] = {}
                             /\ outbox'[q] = <<>> /\ ~seen'[q]
                        ELSE doc'[q] # 0
      OBVIOUS
    <3>1. CASE q = p
      BY <1>2, <1>4, <1>6, <3>1
    <3>2. CASE q # p
      BY <1>1, <1>4, <1>6, <3>2 DEF OInv, ITypes
    <3> QED
      BY <3>1, <3>2
  <2> QED
    BY <1>1, <1>3, <1>4, <1>6, <2>1 DEF OInv, ITypes, Shared
<1>8. IAlone'
  <2> SUFFICES ASSUME NEW q \in Procs
               PROVE  PassHolds(doc'[q], pc'[q], outbox'[q], todo'[q], installed'[q],
                                attestation'[q])
    BY DEF IAlone, PassHolds, ReceiptHolds
  <2>1. CASE q = p
    <3>1. Len(outbox'[p]) = 0 /\ installed'[p] = {} /\ pc'[p] = l /\ todo'[p] = t
      BY <1>1, <1>6
    <3> QED
      BY <1>4, <2>1, <3>1 DEF PassHolds
  <2>2. CASE q # p
    BY <1>1, <1>6, <2>2 DEF OInv, IAlone
  <2> QED
    BY <2>1, <2>2
<1>9. StepsLeft(p)' <= PassBound
  <2>1. PICK o \in Seq(Receipt) : o = outbox'[p] /\ Len(o) = 0
    <3>1. outbox'[p] = <<>> /\ <<>> \in Seq(Receipt) /\ Len(<<>>) = 0
      BY <1>1
    <3> QED
      BY <3>1
  <2>2. StepsLeft(p)' = Remaining(l, o, t)
    BY <1>6, <2>1 DEF StepsLeft, Remaining, Open
  <2>3. PICK n \in Nat : n = Len(items)
    BY Lengths
  <2>4. CASE l = "next"
    <3>1. ~Open(o) /\ Len(t) = n
      BY <1>4, <2>1, <2>3, <2>4 DEF Open
    <3>2. Remaining("next", o, t) = Len(o) + 7 * Len(t) + 4 * n + 5
      BY <2>3, <3>1, WeightNext
    <3> QED
      BY <2>1, <2>2, <2>3, <2>4, <3>1, <3>2 DEF PassBound
  <2>5. CASE l = "attest"
    <3>1. Remaining("attest", o, t) = Len(o) + 3 * n + 4
      BY <2>3, WeightAttest
    <3> QED
      BY <2>1, <2>2, <2>3, <2>5, <3>1 DEF PassBound
  <2> QED
    BY <2>4, <2>5
<1>10. \A q \in Procs \ {p} : StepsLeft(q)' = StepsLeft(q)
  BY <1>1, <1>6 DEF StepsLeft, Remaining, Open
<1> QED
  BY <1>1, <1>3, <1>7, <1>8, <1>9, <1>10 DEF OInv

(* The server, the runtime and whoever tampers leave every pass alone.      *)
LEMMA Standing ==
    ASSUME OInv, Publish \/ RuntimeStart \/ Tamper \/ UNCHANGED vars
    PROVE  OInv' /\ \A p \in Procs : StepsLeft(p)' = StepsLeft(p)
<1>1. UNCHANGED <<epoch, reported, procVars>>
  BY DEF Publish, RuntimeStart, Tamper, vars
<1>2. ITypes'
  <2>1. count' \in [stops : Nat, faults : Nat, drifts : Nat, starts : Nat]
    <3>1. count' = count \/ Occurs("starts") \/ Occurs("drifts")
      BY DEF Publish, RuntimeStart, Tamper, vars
    <3> QED
      BY <3>1, Counted DEF OInv, ITypes
  <2>2. /\ drifted' \in BOOLEAN /\ runtime' \in [gen : Nat, current : BOOLEAN]
        /\ lost' \in BOOLEAN /\ (lost' => drifted' /\ active' # 0)
    <3>1. CASE RuntimeStart
      <4>1. PICK c \in BOOLEAN : runtime' = [gen |-> runtime.gen + 1, current |-> c]
        BY <3>1 DEF OInv, ITypes, RuntimeStart
      <4> QED
        BY <3>1, <4>1 DEF OInv, ITypes, RuntimeStart
    <3>2. CASE Tamper
      BY <3>2 DEF OInv, ITypes, Tamper
    <3>3. CASE Publish \/ UNCHANGED vars
      BY <3>3 DEF OInv, ITypes, Publish, vars, adapterVars
    <3> QED
      BY <3>1, <3>2, <3>3
  <2>3. /\ published' \in 0..MaxEpoch /\ epoch' \in 0..published' /\ active' \in 0..published'
        /\ \A p \in Procs : doc[p] \in 0..published'
    BY Constants DEF Publish, RuntimeStart, Tamper, vars, adapterVars, OInv, ITypes
  <2>4. doc' \in [Procs -> 0..published']
    BY <1>1, <2>3 DEF OInv, ITypes, procVars
  <2> QED
    BY <1>1, <2>1, <2>2, <2>3, <2>4 DEF OInv, ITypes, procVars
<1>3. IAlone'
  BY <1>1 DEF OInv, IAlone, PassHolds, ReceiptHolds, procVars
<1>4. ClaimsOwnInventory'
  BY <1>1 DEF OInv, ClaimsOwnInventory
<1>5. \A p \in Procs : StepsLeft(p)' = StepsLeft(p)
  BY <1>1 DEF StepsLeft, Remaining, Open, procVars
<1> QED
  BY <1>2, <1>3, <1>4, <1>5 DEF OInv

LEMMA InitAlone == Init => OInv /\ \A p \in Procs : StepsLeft(p) = 0
<1> SUFFICES ASSUME Init PROVE OInv /\ \A p \in Procs : StepsLeft(p) = 0
  OBVIOUS
<1>1. ITypes
  BY InitInv DEF IInv
<1>2. \A p \in Procs : Len(outbox[p]) = 0 /\ Len(todo[p]) = 0 /\ pc[p] = "idle"
  BY DEF Init
<1>3. IAlone
  BY <1>2 DEF IAlone, PassHolds
<1>4. ClaimsOwnInventory
  <2>1. \A a \in Attempts : Len(reported[a]) = 0
    BY DEF Init
  <2> QED
    BY <2>1 DEF ClaimsOwnInventory
<1>5. \A p \in Procs : StepsLeft(p) = 0
  BY <1>2 DEF StepsLeft, Remaining
<1> QED
  BY <1>1, <1>3, <1>4, <1>5 DEF OInv

LEMMA StepAlone == OInv /\ [Next]_vars => OInv'
<1> SUFFICES ASSUME OInv, [Next]_vars PROVE OInv'
  OBVIOUS
<1>1. CASE Publish \/ RuntimeStart \/ Tamper \/ UNCHANGED vars
  BY <1>1, Standing
<1>2. ASSUME NEW p \in Procs, NEW d \in Delivered, Begin(p, d) \/ Resume(p, d) PROVE OInv'
  BY <1>2, Starting
<1>3. ASSUME NEW p \in Procs, Step(p) \/ SpoolFails(p) \/ Crash(p) PROVE OInv'
  BY <1>3, Going
<1> QED
  BY <1>1, <1>2, <1>3 DEF Next

(* What a pass holds alone, whatever the passes beside it do.               *)
THEOREM AloneHolds == Spec => []OInv
BY InitAlone, StepAlone, PTL DEF Spec

(* However many processes run the reconciler, variables hold what their     *)
(* comments say; a process that is not in reconcile holds nothing.          *)
THEOREM TypesHold == Spec => []TypeOK
<1>1. OInv => TypeOK
  <2> SUFFICES ASSUME OInv PROVE TypeOK
    OBVIOUS
  <2>1. \A a \in Attempts : \A i \in DOMAIN reported[a] : reported[a][i] \in Event
    <3> SUFFICES ASSUME NEW a \in Attempts, NEW i \in DOMAIN reported[a]
                 PROVE  reported[a][i] \in Event
      OBVIOUS
    <3>1. reported[a] \in Seq(Event)
      BY DEF OInv, ITypes
    <3> QED
      BY <3>1
  <2>2. ASSUME NEW p \in Procs
        PROVE  /\ doc[p] \in 0..published
               /\ {auto[p], seen[p]} \subseteq BOOLEAN
               /\ installed[p] \subseteq Packs \ ToSet(todo[p])
               /\ attestation[p] \in Claim
               /\ ToSet(outbox[p]) \subseteq Receipt
               /\ pc[p] = "idle" =>
                     doc[p] = 0 /\ todo[p] = <<>> /\ installed[p] = {} /\ outbox[p] = <<>>
    <3>1. /\ doc[p] \in 0..published /\ {auto[p], seen[p]} \subseteq BOOLEAN
          /\ attestation[p] \in Claim /\ installed[p] \subseteq Packs
          /\ todo[p] \in Seq(Packs) /\ outbox[p] \in Seq(Receipt)
      BY DEF OInv, ITypes
    <3>2. DOMAIN todo[p] = 1..Len(todo[p])
      BY <3>1
    <3>3. \A i \in 1..Len(todo[p]) : todo[p][i] \notin installed[p]
      BY DEF OInv, IAlone, PassHolds
    <3>4. installed[p] \subseteq Packs \ ToSet(todo[p])
      BY <3>1, <3>2, <3>3 DEF ToSet
    <3>5. ToSet(outbox[p]) \subseteq Receipt
      BY <3>1 DEF ToSet
    <3>6. pc[p] = "idle" =>
             doc[p] = 0 /\ todo[p] = <<>> /\ installed[p] = {} /\ outbox[p] = <<>>
      BY DEF OInv, ITypes
    <3> QED
      BY <3>1, <3>4, <3>5, <3>6
  <2>3. /\ published \in 0..MaxEpoch /\ epoch \in 0..published /\ active \in 0..published
        /\ drifted \in BOOLEAN /\ runtime \in [gen : Nat, current : BOOLEAN]
        /\ lost \in BOOLEAN /\ (lost => drifted /\ active # 0)
        /\ pc \in [Procs -> {"idle", "next", "install", "attest", "drift", "finish"}]
    BY DEF OInv, ITypes, Labels
  <2> QED
    BY <2>1, <2>2, <2>3 DEF TypeOK
<1> QED
  BY <1>1, AloneHolds, PTL

(* A receipt that attests the runtime, or reports its drift, claims the     *)
(* inventory of the document it is about, although processes that overlap   *)
(* activate other documents in between.                                     *)
THEOREM ClaimsHold == Spec => []ClaimsOwnInventory
<1>1. OInv => ClaimsOwnInventory
  BY DEF OInv
<1> QED
  BY <1>1, AloneHolds, PTL

(* So no drift receipt is ever what the contract asks for: from the first   *)
(* one that is spooled, DriftClaimsOtherInventory is violated for good.     *)
THEOREM EveryDriftIsRefused ==
    Spec => [](DriftClaimsOtherInventory <=>
                  \A a \in Attempts : \A i \in 1..Len(reported[a]) :
                      reported[a][i].type # "DRIFT_DETECTED")
<1>1. ASSUME OInv
      PROVE  DriftClaimsOtherInventory <=>
                \A a \in Attempts : \A i \in 1..Len(reported[a]) :
                    reported[a][i].type # "DRIFT_DETECTED"
  <2>1. \A a \in Attempts : DOMAIN reported[a] = 1..Len(reported[a])
    <3> SUFFICES ASSUME NEW a \in Attempts PROVE DOMAIN reported[a] = 1..Len(reported[a])
      OBVIOUS
    <3>1. reported[a] \in Seq(Event)
      BY <1>1 DEF OInv, ITypes
    <3> QED
      BY <3>1
  <2>2. ASSUME DriftClaimsOtherInventory, NEW a \in Attempts, NEW i \in 1..Len(reported[a]),
               reported[a][i].type = "DRIFT_DETECTED"
        PROVE  FALSE
    <3>1. PICK d \in Docs, k \in Packs : a = <<d, k>>
      BY DEF Attempts
    <3>2. reported[a][i].claim.inventory = d
      BY <1>1, <2>2, <3>1 DEF OInv, ClaimsOwnInventory
    <3>3. reported[a][i].claim.inventory # d
      BY <2>1, <2>2, <3>1 DEF DriftClaimsOtherInventory
    <3> QED
      BY <3>2, <3>3
  <2>3. ASSUME \A a \in Attempts : \A i \in 1..Len(reported[a]) :
                  reported[a][i].type # "DRIFT_DETECTED"
        PROVE  DriftClaimsOtherInventory
    BY <2>1, <2>3 DEF DriftClaimsOtherInventory, Attempts
  <2> QED
    BY <2>2, <2>3
<1> QED
  BY <1>1, AloneHolds, PTL

(* What is left of a pass is a number, before a step and after it.          *)
LEMMA LeftIsNat ==
    ASSUME OInv, NEW p \in Procs
    PROVE  StepsLeft(p) \in Nat
<1>1. PICK n : n = Len(items)
  OBVIOUS
<1> QED
  BY <1>1, LeftAt

LEMMA LeftStaysNat ==
    ASSUME OInv', NEW p \in Procs
    PROVE  StepsLeft(p)' \in Nat
<1>1. outbox'[p] \in Seq(Receipt) /\ todo'[p] \in Seq(Packs) /\ pc'[p] \in Labels
  BY DEF OInv, ITypes
<1>2. PICK o \in Seq(Receipt), t \in Seq(Packs) : o = outbox'[p] /\ t = todo'[p]
  BY <1>1
<1>3. PICK l \in Labels : l = pc'[p]
  BY <1>1
<1>4. StepsLeft(p)' = Remaining(l, o, t)
  BY <1>2, <1>3 DEF StepsLeft, Remaining, Open
<1>5. Remaining("idle", o, t) = 0
  BY DEF Remaining
<1>6. CASE l # "idle"
  BY <1>4, <1>6, WeightPositive
<1>7. CASE l = "idle"
  BY <1>4, <1>5, <1>7
<1> QED
  BY <1>6, <1>7

(* It grows when a pass starts, and at no other time.                       *)
LEMMA Onward ==
    ASSUME OInv, [Next]_vars, NEW p \in Procs,
           NEW m, m = StepsLeft(p), NEW k, k = StepsLeft(p)'
    PROVE  /\ m \in Nat /\ k \in Nat
           /\ k <= m \/ (pc[p] = "idle" /\ k <= PassBound)
<1>1. m \in Nat /\ k \in Nat
  BY StepAlone, LeftIsNat, LeftStaysNat
<1>2. CASE Publish \/ RuntimeStart \/ Tamper \/ UNCHANGED vars
  <2>1. k = m
    BY <1>2, Standing
  <2>2. k <= m
    BY <1>1, <2>1
  <2> QED
    BY <1>1, <2>2
<1>3. ASSUME NEW q \in Procs, NEW d \in Delivered, Begin(q, d) \/ Resume(q, d)
      PROVE  k <= m \/ (pc[p] = "idle" /\ k <= PassBound)
  <2>1. CASE q = p
    BY <1>3, <2>1, Starting
  <2>2. CASE q # p
    <3>1. k = m
      BY <1>3, <2>2, Starting
    <3>2. k <= m
      BY <1>1, <3>1
    <3> QED
      BY <3>2
  <2> QED
    BY <2>1, <2>2
<1>4. ASSUME NEW q \in Procs, Step(q) \/ SpoolFails(q) \/ Crash(q) PROVE k <= m
  <2>1. k < m \/ k = m
    BY <1>4, Going DEF Fewer
  <2> QED
    BY <1>1, <2>1
<1> QED
  BY <1>1, <1>2, <1>3, <1>4 DEF Next

Bounded == \A p \in Procs : StepsLeft(p) <= PassBound

LEMMA StepBounded == OInv /\ Bounded /\ [Next]_vars => Bounded'
<1> SUFFICES ASSUME OInv, Bounded, [Next]_vars, NEW p \in Procs
             PROVE  StepsLeft(p)' <= PassBound'
  BY DEF Bounded
<1>1. PICK m : m = StepsLeft(p)
  OBVIOUS
<1>2. PICK k : k = StepsLeft(p)'
  OBVIOUS
<1>3. m <= PassBound
  BY <1>1 DEF Bounded
<1>4. m \in Nat /\ k \in Nat /\ (k <= m \/ k <= PassBound)
  BY <1>1, <1>2, Onward
<1>5. PassBound \in Nat /\ PassBound' = PassBound
  BY Items DEF PassBound, items
<1> QED
  BY <1>2, <1>3, <1>4, <1>5

(* A pass comes to its end: each step of its process, a failing append and  *)
(* a crash included, leaves fewer, and only the start of a pass adds any.   *)
PassesGetOn ==
    \A p \in Procs :
        /\ Step(p) \/ SpoolFails(p) \/ Crash(p) => StepsLeft(p)' < StepsLeft(p)
        /\ StepsLeft(p)' > StepsLeft(p) => pc[p] = "idle"

(* Whatever fails, a pass over n items is over after at most 11 n + 5 steps *)
(* of its process: failures that are reported do not feed on each other.    *)
THEOREM PassesEnd ==
    Spec => /\ [](\A p \in Procs : StepsLeft(p) \in Nat /\ StepsLeft(p) <= PassBound)
            /\ [][PassesGetOn]_vars
<1>1. ASSUME OInv, [Next]_vars PROVE [PassesGetOn]_vars
  <2> SUFFICES ASSUME NEW p \in Procs
               PROVE  /\ Step(p) \/ SpoolFails(p) \/ Crash(p) => StepsLeft(p)' < StepsLeft(p)
                      /\ StepsLeft(p)' > StepsLeft(p) => pc[p] = "idle"
    BY DEF PassesGetOn
  <2>1. Step(p) \/ SpoolFails(p) \/ Crash(p) => StepsLeft(p)' < StepsLeft(p)
    BY <1>1, Going DEF Fewer
  <2>2. PICK m : m = StepsLeft(p)
    OBVIOUS
  <2>3. PICK k : k = StepsLeft(p)'
    OBVIOUS
  <2>4. m \in Nat /\ k \in Nat /\ (k <= m \/ pc[p] = "idle")
    BY <1>1, <2>2, <2>3, Onward
  <2>5. k > m => pc[p] = "idle"
    BY <2>4
  <2> QED
    BY <2>1, <2>2, <2>3, <2>5
<1>2. Init => Bounded
  <2> SUFFICES ASSUME Init, NEW p \in Procs PROVE StepsLeft(p) <= PassBound
    BY DEF Bounded
  <2>1. StepsLeft(p) = 0
    BY InitAlone
  <2> QED
    BY <2>1, Items DEF PassBound
<1>3. OInv /\ Bounded => \A p \in Procs : StepsLeft(p) \in Nat /\ StepsLeft(p) <= PassBound
  BY LeftIsNat DEF Bounded
<1>4. Spec => []Bounded
  BY <1>2, AloneHolds, StepBounded, PTL DEF Spec
<1> QED
  BY <1>1, <1>3, <1>4, AloneHolds, PTL DEF Spec

================================================================================
