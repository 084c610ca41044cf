--------------------------- MODULE ReceiptSpoolProofs ---------------------------
(***************************************************************************)
(* Proofs about ReceiptSpool: its invariants, for every set of attempts,    *)
(* types and generations and any bound, and that it implements              *)
(* ReceiptLedger.                                                           *)
(***************************************************************************)
EXTENDS ReceiptSpool, TLAPS

(* Every attempt has a newest number, so that Max is defined. *)
HasNewest == \A a \in Attempts : \E m \in Seqs(a) : \A n \in Seqs(a) : n <= m

(* A live builder is never behind the directory. *)
BuilderAhead == \A a \in open : \A n \in Seqs(a) : n <= builder[a]

(* No number is forgotten: some file or the record is at least as new. *)
Remembered == \A r \in issued : \E n \in Seqs(r.attempt) : r.seq <= n

(* What is recorded for a number agrees with its receipt. *)
RecordAgrees ==
    \A r \in issued : r.seq = seqState[r.attempt].seq =>
        /\ seqState[r.attempt].type \in {NoType, r.type}
        /\ seqState[r.attempt].gen \in {NoGen, r.gen}

(* A receipt about to be unlinked has been recorded, in full. *)
AckedRecorded ==
    acked # NoReceipt =>
        /\ acked.seq <= seqState[acked.attempt].seq
        /\ acked.seq = seqState[acked.attempt].seq =>
              seqState[acked.attempt] =
                  [seq |-> acked.seq, type |-> acked.type, gen |-> acked.gen]

(* Only one call of the spool runs at a time. *)
OneCall == appending = NoReceipt \/ acking = {}

IInv ==
    /\ TypeOK
    /\ OneCall
    /\ HasNewest
    /\ BuilderAhead
    /\ Remembered
    /\ SequenceNeverReused
    /\ RecordAgrees
    /\ AckedRecorded

--------------------------------------------------------------------------------

(* A receipt's fields have the types Receipt gives them. *)
LEMMA ReceiptFields ==
    ASSUME NEW r \in Receipt
    PROVE  /\ r.attempt \in Attempts
           /\ r.seq \in Nat
           /\ r.seq > 0
           /\ r.type \in Types
           /\ r.gen \in Gens \cup {NoGen}
BY DEF Receipt

(* The numbers known of an attempt are naturals. *)
LEMMA SeqsAreNat ==
    ASSUME TypeOK, NEW a \in Attempts
    PROVE  Seqs(a) \subseteq Nat
<1>1. seqState[a].seq \in Nat
  BY DEF TypeOK, EventState
<1>2. \A r \in files : r.seq \in Nat
  BY DEF TypeOK, Receipt
<1>. QED BY <1>1, <1>2 DEF Seqs, FilesOf

(* A greatest element of a set of naturals is its Max. *)
LEMMA MaxIsGreatest ==
    ASSUME NEW S \in SUBSET Nat, NEW m \in S, \A n \in S : n <= m
    PROVE  Max(S) = m
<1>1. \E x \in S : \A n \in S : x >= n
  OBVIOUS
<1>2. /\ Max(S) \in S
      /\ \A n \in S : Max(S) >= n
  BY <1>1, Zenon DEF Max
<1>3. m \in Nat /\ Max(S) \in Nat
  BY <1>2
<1>4. m <= Max(S) /\ Max(S) <= m
  BY <1>2, <1>3
<1>. QED BY <1>3, <1>4

(* last_event_sequence returns the greatest number known of the attempt. *)
LEMMA NewestIsGreatest ==
    ASSUME TypeOK, HasNewest, NEW a \in Attempts
    PROVE  /\ last_event_sequence(a) \in Seqs(a)
           /\ last_event_sequence(a) \in Nat
           /\ \A n \in Seqs(a) : n <= last_event_sequence(a)
<1>1. Seqs(a) \subseteq Nat
  BY SeqsAreNat
<1>2. \E m \in Seqs(a) : \A n \in Seqs(a) : m >= n
  BY <1>1 DEF HasNewest
<1>3. /\ Max(Seqs(a)) \in Seqs(a)
      /\ \A n \in Seqs(a) : Max(Seqs(a)) >= n
  BY <1>2, Zenon DEF Max
<1>. QED BY <1>1, <1>3 DEF last_event_sequence

(* Recording a spooled receipt changes only the record of its attempt, and  *)
(* leaves it at the receipt's number or above.                              *)
LEMMA RecordedState ==
    ASSUME IInv, NEW r \in files, seqState' = _record_event_sequence(r)
    PROVE  LET a == r.attempt
               new == seqState'[a]
           IN  /\ seqState' \in [Attempts -> EventState]
               /\ \A b \in Attempts : b # a => seqState'[b] = seqState[b]
               /\ \/ r.seq < seqState[a].seq /\ new = seqState[a]
                  \/ /\ r.seq >= seqState[a].seq
                     /\ new = [seq |-> r.seq, type |-> r.type, gen |-> r.gen]
<1>. DEFINE a == r.attempt
            cur == seqState[a]
<1>1. /\ r \in issued
      /\ a \in Attempts /\ r.seq \in Nat /\ r.type \in Types
      /\ r.gen \in Gens \cup {NoGen}
  BY ReceiptFields DEF IInv, TypeOK
<1>2. /\ seqState \in [Attempts -> EventState]
      /\ cur \in EventState
  BY <1>1 DEF IInv, TypeOK
<1>3. cur.seq \in Nat /\ cur.type \in Types \cup {NoType} /\ cur.gen \in Gens \cup {NoGen}
  BY <1>2 DEF EventState
<1>4. CASE r.seq < cur.seq
  <2>1. seqState' = seqState
    BY <1>1, <1>3, <1>4 DEF _record_event_sequence
  <2>. QED BY <2>1, <1>2, <1>4
<1>5. CASE r.seq = cur.seq
  <2>1. cur.type \in {NoType, r.type} /\ cur.gen \in {NoGen, r.gen}
    BY <1>1, <1>5 DEF IInv, RecordAgrees
  <2>2. OrElse(cur.type, r.type, NoType) = r.type
    BY <2>1 DEF OrElse
  <2>3. OrElse(cur.gen, r.gen, NoGen) = r.gen
    BY <2>1 DEF OrElse
  <2>4. seqState' = [seqState EXCEPT ![a] =
                        [seq |-> r.seq, type |-> r.type, gen |-> r.gen]]
    BY <1>1, <1>3, <1>5, <2>2, <2>3 DEF _record_event_sequence
  <2>. QED BY <2>4, <1>1, <1>2, <1>5 DEF EventState
<1>6. CASE r.seq > cur.seq
  <2>1. seqState' = [seqState EXCEPT ![a] =
                        [seq |-> r.seq, type |-> r.type, gen |-> r.gen]]
    BY <1>1, <1>3, <1>6 DEF _record_event_sequence
  <2>. QED BY <2>1, <1>1, <1>2, <1>3, <1>6 DEF EventState
<1>. QED BY <1>1, <1>3, <1>4, <1>5, <1>6

(* An invariant of the initial spools. *)
LEMMA InitIInv ==
    ASSUME Init
    PROVE  IInv
<1>0. PICK legacy \in SUBSET Attempts, type \in [Attempts -> Types],
           gen \in [Attempts -> Gens \cup {NoGen}] :
        /\ issued = {[id |-> 0, attempt |-> a, seq |-> 1,
                      type |-> type[a], gen |-> gen[a]] : a \in legacy}
        /\ files \in SUBSET issued
        /\ \E schema \in {1, 2} :
              seqState = [a \in Attempts |->
                IF a \in legacy
                THEN [seq  |-> 1,
                      type |-> IF schema = 1 THEN NoType ELSE type[a],
                      gen  |-> NoGen]
                ELSE NoEvent]
  BY DEF Init
<1>1. PICK schema \in {1, 2} :
        seqState = [a \in Attempts |->
                IF a \in legacy
                THEN [seq  |-> 1,
                      type |-> IF schema = 1 THEN NoType ELSE type[a],
                      gen  |-> NoGen]
                ELSE NoEvent]
  BY <1>0
<1>2. \A r \in issued :
        /\ r \in Receipt
        /\ r.attempt \in legacy
        /\ r.id = 0
        /\ r.seq = 1
        /\ r.type = type[r.attempt]
        /\ r.gen = gen[r.attempt]
  BY <1>0 DEF Receipt
<1>3. seqState \in [Attempts -> EventState]
  <2>1. \A a \in Attempts : seqState[a] \in EventState
    BY <1>1 DEF EventState, NoEvent
  <2>. QED BY <2>1, <1>1
<1>4. \A a \in Attempts :
        /\ FilesOf(a) # {} => a \in legacy
        /\ a \in legacy => Seqs(a) = {1}
        /\ a \notin legacy => Seqs(a) = {0}
  <2>. SUFFICES ASSUME NEW a \in Attempts
                PROVE  /\ FilesOf(a) # {} => a \in legacy
                       /\ a \in legacy => Seqs(a) = {1}
                       /\ a \notin legacy => Seqs(a) = {0}
    OBVIOUS
  <2>1. \A r \in FilesOf(a) : a \in legacy /\ r.seq = 1
    BY <1>0, <1>2 DEF FilesOf
  <2>2. a \in legacy => seqState[a].seq = 1
    BY <1>1
  <2>3. a \notin legacy => seqState[a].seq = 0
    BY <1>1 DEF NoEvent
  <2>. QED BY <2>1, <2>2, <2>3 DEF Seqs
<1>5. TypeOK
  BY <1>0, <1>2, <1>3, SpoolConstants DEF Init, TypeOK
<1>6. HasNewest
  BY <1>4 DEF HasNewest
<1>7. BuilderAhead
  BY DEF Init, BuilderAhead
<1>8. Remembered
  BY <1>2, <1>4 DEF Remembered
<1>9. SequenceNeverReused
  BY <1>0, <1>2 DEF SequenceNeverReused
<1>10. RecordAgrees
  <2>. SUFFICES ASSUME NEW r \in issued
                PROVE  /\ seqState[r.attempt].type \in {NoType, r.type}
                       /\ seqState[r.attempt].gen \in {NoGen, r.gen}
    BY DEF RecordAgrees
  <2>1. seqState[r.attempt] = [seq  |-> 1,
                               type |-> IF schema = 1 THEN NoType ELSE type[r.attempt],
                               gen  |-> NoGen]
    BY <1>1, <1>2
  <2>. QED BY <2>1, <1>2
<1>11. AckedRecorded /\ OneCall
  BY DEF Init, AckedRecorded, OneCall
<1>. QED BY <1>5, <1>6, <1>7, <1>8, <1>9, <1>10, <1>11 DEF IInv

--------------------------------------------------------------------------------

(* Recording a spooled receipt keeps the invariant, and changes neither the *)
(* newest number of an attempt nor the newest event.                        *)
LEMMA RecordKeeps ==
    ASSUME IInv, NEW r \in files, seqState' = _record_event_sequence(r),
           UNCHANGED <<files, open, builder, issued>>
    PROVE  /\ HasNewest' /\ BuilderAhead' /\ Remembered'
           /\ SequenceNeverReused' /\ RecordAgrees'
           /\ \A a \in Attempts :
                 /\ last_event_sequence(a)' = last_event_sequence(a)
                 /\ _last_event_state(a)' = _last_event_state(a)
<1>. DEFINE cur(a) == seqState[a]
            new(a) == seqState'[a]
<1>0. /\ TypeOK
      /\ r \in issued
      /\ r.attempt \in Attempts /\ r.seq \in Nat /\ r.type \in Types
      /\ r.gen \in Gens \cup {NoGen}
  BY ReceiptFields DEF IInv, TypeOK
<1>1. /\ seqState' \in [Attempts -> EventState]
      /\ \A a \in Attempts \ {r.attempt} : new(a) = cur(a)
      /\ \/ r.seq < cur(r.attempt).seq /\ new(r.attempt) = cur(r.attempt)
         \/ /\ r.seq >= cur(r.attempt).seq
            /\ new(r.attempt) = [seq |-> r.seq, type |-> r.type, gen |-> r.gen]
  BY RecordedState
<1>2. ASSUME NEW a \in Attempts
      PROVE  LET m == last_event_sequence(a)
             IN  /\ m \in Nat /\ m \in Seqs(a)' /\ \A n \in Seqs(a)' : n <= m
                 /\ Seqs(a)' \subseteq Nat
                 /\ \A n \in Seqs(a) : n <= m
                 /\ Seqs(a) \subseteq Nat
  <2>. DEFINE m == last_event_sequence(a)
  <2>1. m \in Seqs(a) /\ m \in Nat /\ (\A n \in Seqs(a) : n <= m)
    BY <1>0, NewestIsGreatest DEF IInv
  <2>2. Seqs(a) \subseteq Nat
    BY <1>0, SeqsAreNat
  <2>3. FilesOf(a)' = FilesOf(a)
    BY DEF FilesOf
  <2>4. Seqs(a)' = {new(a).seq} \cup {x.seq : x \in FilesOf(a)}
    BY <2>3 DEF Seqs
  <2>5. CASE a # r.attempt
    <3>1. Seqs(a)' = Seqs(a)
      BY <2>4, <2>5, <1>1 DEF Seqs
    <3>. QED BY <3>1, <2>1, <2>2
  <2>6. CASE a = r.attempt
    <3>1. r.seq \in {x.seq : x \in FilesOf(a)}
      BY <2>6 DEF FilesOf
    <3>2. r.seq \in Seqs(a) /\ cur(a).seq \in Seqs(a)
      BY <3>1 DEF Seqs
    <3>3. new(a).seq \in Seqs(a) /\ new(a).seq >= cur(a).seq /\ cur(a).seq \in Nat
      BY <3>2, <1>1, <2>2, <2>6
    <3>4. Seqs(a)' \subseteq Seqs(a)
      BY <2>4, <3>3 DEF Seqs
    <3>5. m \in Seqs(a)'
      <4>1. r.seq <= m
        BY <2>1, <3>2
      <4>2. CASE m \in {x.seq : x \in FilesOf(a)}
        BY <4>2, <2>4
      <4>3. CASE m = cur(a).seq
        <5>1. new(a).seq = m
          BY <4>1, <4>3, <3>3, <1>0, <1>1, <2>1, <2>6
        <5>. QED BY <5>1, <2>4
      <4>. QED BY <4>2, <4>3, <2>1 DEF Seqs
    <3>. QED BY <3>4, <3>5, <2>1, <2>2
  <2>. QED BY <2>5, <2>6
<1>3. ASSUME NEW a \in Attempts
      PROVE  last_event_sequence(a)' = last_event_sequence(a)
  <2>1. Max(Seqs(a)') = last_event_sequence(a)
    BY <1>2, MaxIsGreatest
  <2>. QED BY <2>1 DEF last_event_sequence
<1>4. HasNewest'
  BY <1>2 DEF HasNewest
<1>5. BuilderAhead'
  <2>. SUFFICES ASSUME NEW a \in open, NEW n \in Seqs(a)'
                PROVE  n <= builder[a]
    BY DEF BuilderAhead
  <2>1. a \in Attempts /\ builder[a] \in Nat
    BY <1>0 DEF TypeOK
  <2>2. last_event_sequence(a) <= builder[a]
    BY <1>0, <2>1, NewestIsGreatest DEF IInv, BuilderAhead
  <2>3. /\ n <= last_event_sequence(a)
        /\ n \in Nat /\ last_event_sequence(a) \in Nat
    BY <1>2, <2>1
  <2>. QED BY <2>1, <2>2, <2>3
<1>6. Remembered'
  <2>. SUFFICES ASSUME NEW x \in issued
                PROVE  \E n \in Seqs(x.attempt)' : x.seq <= n
    BY DEF Remembered
  <2>1. x.attempt \in Attempts /\ x.seq \in Nat
    BY <1>0, ReceiptFields DEF TypeOK
  <2>2. PICK n \in Seqs(x.attempt) : x.seq <= n
    BY DEF IInv, Remembered
  <2>. QED BY <2>1, <2>2, <1>2
<1>7. SequenceNeverReused'
  BY DEF IInv, SequenceNeverReused
<1>8. RecordAgrees'
  <2>. SUFFICES ASSUME NEW x \in issued, x.seq = new(x.attempt).seq
                PROVE  /\ new(x.attempt).type \in {NoType, x.type}
                       /\ new(x.attempt).gen \in {NoGen, x.gen}
    BY DEF RecordAgrees
  <2>1. x.attempt \in Attempts
    BY <1>0, ReceiptFields DEF TypeOK
  <2>2. CASE new(x.attempt) = cur(x.attempt)
    BY <2>2 DEF IInv, RecordAgrees
  <2>3. CASE new(x.attempt) # cur(x.attempt)
    <3>1. /\ x.attempt = r.attempt
          /\ new(x.attempt) = [seq |-> r.seq, type |-> r.type, gen |-> r.gen]
      BY <2>1, <2>3, <1>1
    <3>2. x = r
      BY <3>1, <1>0 DEF IInv, SequenceNeverReused
    <3>. QED BY <3>1, <3>2
  <2>. QED BY <2>2, <2>3
<1>9. ASSUME NEW a \in Attempts
      PROVE  _last_event_state(a)' = _last_event_state(a)
  <2>. DEFINE m == last_event_sequence(a)
              newest == {x \in FilesOf(a) : x.seq = m}
              known(s) == IF s[a].seq = m THEN s[a] ELSE [NoEvent EXCEPT !.seq = m]
              before == known(seqState)
              after == known(seqState')
              merged(k) == IF newest = {} THEN k
                           ELSE LET x == CHOOSE y \in newest : TRUE
                                IN [seq  |-> m,
                                    type |-> OrElse(k.type, x.type, NoType),
                                    gen  |-> OrElse(k.gen, x.gen, NoGen)]
  <2>1. _last_event_state(a) = merged(before)
    BY DEF _last_event_state
  <2>2. FilesOf(a)' = FilesOf(a)
    BY DEF FilesOf
  <2>3. _last_event_state(a)' = merged(after)
    BY <2>2, <1>3 DEF _last_event_state
  <2>4. CASE new(a) = cur(a)
    <3>1. before = after
      BY <2>4
    <3>. HIDE DEF before, after, newest
    <3>. QED BY <3>1, <2>1, <2>3
  <2>5. CASE new(a) # cur(a) /\ r.seq # m
    <3>1. a = r.attempt /\ new(a).seq = r.seq /\ r.seq >= cur(a).seq
      BY <2>5, <1>1
    <3>2. r.seq \in Seqs(a)
      BY <3>1 DEF Seqs, FilesOf
    <3>3. cur(a).seq \in Seqs(a)
      BY DEF Seqs
    <3>4. r.seq < m /\ cur(a).seq < m
      BY <3>1, <3>2, <3>3, <2>5, <1>2
    <3>5. before = after
      BY <3>1, <3>4, <1>2, <1>0
    <3>. HIDE DEF before, after, newest
    <3>. QED BY <3>5, <2>1, <2>3
  <2>6. CASE new(a) # cur(a) /\ r.seq = m
    <3>1. a = r.attempt /\ new(a) = [seq |-> r.seq, type |-> r.type, gen |-> r.gen]
      BY <2>6, <1>1
    <3>2. r \in newest
      BY <2>6, <3>1 DEF FilesOf
    <3>3. newest = {r}
      BY <3>2, <1>0 DEF FilesOf, IInv, SequenceNeverReused, TypeOK
    <3>4. after = new(a)
      BY <3>1, <2>6
    <3>5. /\ before.type \in {NoType, r.type}
          /\ before.gen \in {NoGen, r.gen}
      BY <1>0, <2>6, <3>1 DEF IInv, RecordAgrees, NoEvent
    <3>. HIDE DEF newest, before, after
    <3>6. (CHOOSE y \in newest : TRUE) = r
      BY <3>3
    <3>7. merged(before) = [seq |-> m, type |-> r.type, gen |-> r.gen]
      BY <3>2, <3>3, <3>5, <3>6 DEF OrElse
    <3>8. merged(after) = [seq |-> m, type |-> r.type, gen |-> r.gen]
      BY <3>1, <3>2, <3>3, <3>4, <3>6 DEF OrElse
    <3>. QED BY <2>1, <2>3, <3>7, <3>8
  <2>. QED BY <2>4, <2>5, <2>6
<1>. QED BY <1>3, <1>4, <1>5, <1>6, <1>7, <1>8, <1>9

(* The newest event has the newest number and is well typed. *)
LEMMA LastEventType ==
    ASSUME TypeOK, HasNewest, NEW a \in Attempts
    PROVE  /\ _last_event_state(a) \in EventState
           /\ _last_event_state(a).seq = last_event_sequence(a)
<1>. DEFINE m == last_event_sequence(a)
            newest == {x \in FilesOf(a) : x.seq = m}
            known == IF seqState[a].seq = m THEN seqState[a]
                     ELSE [NoEvent EXCEPT !.seq = m]
<1>1. m \in Nat
  BY NewestIsGreatest
<1>2. known \in EventState /\ known.seq = m
  BY <1>1 DEF TypeOK, EventState, NoEvent
<1>3. CASE newest = {}
  <2>1. _last_event_state(a) = known
    BY <1>3 DEF _last_event_state
  <2>. QED BY <2>1, <1>2
<1>4. CASE newest # {}
  <2>. DEFINE x == CHOOSE y \in newest : TRUE
  <2>1. x \in newest
    BY <1>4
  <2>2. x.type \in Types /\ x.gen \in Gens \cup {NoGen}
    BY <2>1, ReceiptFields DEF FilesOf, TypeOK
  <2>3. /\ OrElse(known.type, x.type, NoType) \in Types \cup {NoType}
        /\ OrElse(known.gen, x.gen, NoGen) \in Gens \cup {NoGen}
    BY <1>2, <2>2 DEF OrElse, EventState
  <2>4. _last_event_state(a) = [seq  |-> m,
                                type |-> OrElse(known.type, x.type, NoType),
                                gen  |-> OrElse(known.gen, x.gen, NoGen)]
    BY <1>4 DEF _last_event_state
  <2>. HIDE DEF x, known, newest, m
  <2>. QED BY <2>3, <2>4, <1>1 DEF EventState, m
<1>. QED BY <1>3, <1>4

(* A newly linked receipt is the newest event of its attempt, above every   *)
(* earlier number, and no other attempt notices.                            *)
LEMMA LinkKeeps ==
    ASSUME IInv, NEW a \in Attempts, NEW t \in Types, NEW g \in Gens \cup {NoGen},
           BuildAndLink(a, t, g)
    PROVE  /\ IInv'
           /\ \E r \in Receipt :
                /\ r.attempt = a
                /\ r \notin files
                /\ files' = files \cup {r}
                /\ r.seq > last_event_sequence(a)
                /\ _last_event_state(a)' =
                       [seq |-> r.seq, type |-> r.type, gen |-> r.gen]
                /\ \A b \in Attempts \ {a} :
                      _last_event_state(b)' = _last_event_state(b)
<1>. DEFINE r == [id |-> nextId, attempt |-> a, seq |-> builder[a] + 1,
                  type |-> t, gen |-> g]
            n == builder[a] + 1
<1>0. /\ TypeOK /\ HasNewest /\ BuilderAhead
      /\ a \in open /\ builder[a] \in Nat /\ n \in Nat /\ nextId \in Nat \ {0}
      /\ acked = NoReceipt /\ appending = NoReceipt /\ acking = {}
  BY DEF IInv, TypeOK, BuildAndLink, Idle
<1>1. r \in Receipt /\ r.attempt = a /\ r.seq = n /\ r.type = t /\ r.gen = g
  BY <1>0 DEF Receipt
<1>2. /\ files' = files \cup {r}
      /\ issued' = issued \cup {r}
      /\ appending' = r
      /\ builder' = [builder EXCEPT ![a] = @ + 1]
      /\ nextId' = nextId + 1
      /\ UNCHANGED <<seqState, open, acking, acked, ioErrors>>
  BY DEF BuildAndLink
<1>. HIDE DEF r, n
<1>3. last_event_sequence(a) \in Nat /\ last_event_sequence(a) < n
  <2>1. /\ last_event_sequence(a) \in Nat
        /\ last_event_sequence(a) \in Seqs(a)
    BY <1>0, NewestIsGreatest
  <2>2. last_event_sequence(a) <= builder[a]
    BY <1>0, <2>1 DEF BuilderAhead
  <2>. QED BY <1>0, <2>1, <2>2 DEF n
<1>4. \A b \in Attempts :
        /\ Seqs(b) \subseteq Nat
        /\ \A k \in Seqs(b) : k <= last_event_sequence(b)
        /\ last_event_sequence(b) \in Seqs(b)
  BY <1>0, NewestIsGreatest, SeqsAreNat
<1>5. r \notin files /\ (\A x \in issued : x.attempt = a => x.seq < n)
  <2>1. ASSUME NEW x \in issued, x.attempt = a
        PROVE  x.seq < n
    <3>1. PICK k \in Seqs(a) : x.seq <= k
      BY <2>1 DEF IInv, Remembered
    <3>2. k \in Nat /\ k <= last_event_sequence(a) /\ x.seq \in Nat
      BY <1>4, <1>0, ReceiptFields DEF TypeOK
    <3>. QED BY <3>1, <3>2, <1>0, <1>3
  <2>2. r \notin issued
    BY <2>1, <1>0, <1>1
  <2>. QED BY <2>1, <2>2, <1>0 DEF TypeOK
<1>6. /\ FilesOf(a)' = FilesOf(a) \cup {r}
      /\ Seqs(a)' = Seqs(a) \cup {n}
      /\ \A b \in Attempts \ {a} : FilesOf(b)' = FilesOf(b) /\ Seqs(b)' = Seqs(b)
  <2>1. FilesOf(a)' = FilesOf(a) \cup {r}
    BY <1>1, <1>2 DEF FilesOf
  <2>2. \A b \in Attempts \ {a} : FilesOf(b)' = FilesOf(b)
    BY <1>1, <1>2 DEF FilesOf
  <2>3. Seqs(a)' = Seqs(a) \cup {n}
    BY <2>1, <1>1, <1>2 DEF Seqs
  <2>4. \A b \in Attempts \ {a} : Seqs(b)' = Seqs(b)
    BY <2>2, <1>2 DEF Seqs
  <2>. QED BY <2>1, <2>2, <2>3, <2>4
<1>7. last_event_sequence(a)' = n
  <2>1. \A k \in Seqs(a) \cup {n} : k <= n
    BY <1>0, <1>3, <1>4
  <2>2. Max(Seqs(a) \cup {n}) = n
    BY <2>1, <1>0, <1>4, MaxIsGreatest
  <2>. QED BY <2>2, <1>6 DEF last_event_sequence
<1>8. \A b \in Attempts \ {a} : last_event_sequence(b)' = last_event_sequence(b)
  BY <1>6 DEF last_event_sequence
<1>9. _last_event_state(a)' = [seq |-> r.seq, type |-> r.type, gen |-> r.gen]
  <2>. DEFINE known == [NoEvent EXCEPT !.seq = n]
              newest == {x \in FilesOf(a)' : x.seq = n}
  <2>1. seqState'[a].seq # n
    <3>1. seqState[a].seq \in Seqs(a)
      BY DEF Seqs
    <3>. QED BY <3>1, <1>2, <1>3, <1>4, <1>0
  <2>2. newest = {r}
    BY <1>0, <1>1, <1>5, <1>6 DEF FilesOf, TypeOK
  <2>3. (CHOOSE x \in newest : TRUE) = r
    BY <2>2
  <2>4. known.type = NoType /\ known.gen = NoGen
    BY DEF NoEvent
  <2>5. _last_event_state(a)' =
            [seq  |-> n,
             type |-> OrElse(known.type, r.type, NoType),
             gen  |-> OrElse(known.gen, r.gen, NoGen)]
    <3>1. (IF seqState'[a].seq = n THEN seqState'[a] ELSE known) = known
      BY <2>1
    <3>. HIDE DEF known
    <3>2. _last_event_state(a)' =
            LET seq == n
                k   == IF seqState'[a].seq = n THEN seqState'[a] ELSE known
            IN  IF newest = {} THEN k
                ELSE LET x == CHOOSE y \in newest : TRUE
                     IN  [seq  |-> n,
                          type |-> OrElse(k.type, x.type, NoType),
                          gen  |-> OrElse(k.gen, x.gen, NoGen)]
      BY <1>7 DEF _last_event_state, known
    <3>. HIDE DEF newest
    <3>. QED BY <3>1, <3>2, <2>2, <2>3
  <2>. QED BY <2>4, <2>5, <1>1 DEF OrElse
<1>10. \A b \in Attempts \ {a} : _last_event_state(b)' = _last_event_state(b)
  BY <1>2, <1>6, <1>8 DEF _last_event_state
<1>11. TypeOK'
  <2>1. builder' \in [Attempts -> Nat] /\ nextId' \in Nat \ {0}
    BY <1>0, <1>2 DEF TypeOK
  <2>. QED BY <2>1, <1>0, <1>1, <1>2 DEF TypeOK
<1>12. HasNewest'
  <2>1. \A k \in Seqs(a) \cup {n} : k <= n
    BY <1>0, <1>3, <1>4
  <2>. QED BY <2>1, <1>0, <1>6 DEF HasNewest
<1>13. BuilderAhead'
  <2>. SUFFICES ASSUME NEW b \in open, NEW k \in Seqs(b)'
                PROVE  k <= builder'[b]
    BY <1>2 DEF BuilderAhead
  <2>1. CASE b = a
    <3>1. builder'[a] = n
      BY <1>0, <1>2 DEF TypeOK, n
    <3>2. k \in Seqs(a) \cup {n}
      BY <2>1, <1>6
    <3>. QED BY <3>1, <3>2, <2>1, <1>0, <1>3, <1>4
  <2>2. CASE b # a
    <3>1. b \in Attempts /\ builder'[b] = builder[b]
      BY <2>2, <1>0, <1>2 DEF TypeOK
    <3>. QED BY <3>1, <2>2, <1>0, <1>6 DEF BuilderAhead
  <2>. QED BY <2>1, <2>2
<1>14. Remembered'
  <2>. SUFFICES ASSUME NEW x \in issued'
                PROVE  \E k \in Seqs(x.attempt)' : x.seq <= k
    BY DEF Remembered
  <2>1. CASE x = r
    BY <2>1, <1>0, <1>1, <1>6
  <2>2. CASE x \in issued
    <3>1. PICK k \in Seqs(x.attempt) : x.seq <= k
      BY <2>2 DEF IInv, Remembered
    <3>2. x.attempt \in Attempts
      BY <2>2, <1>0, ReceiptFields DEF TypeOK
    <3>3. k \in Seqs(x.attempt)'
      BY <3>1, <3>2, <1>6
    <3>. QED BY <3>1, <3>3
  <2>. QED BY <2>1, <2>2, <1>2
<1>15. SequenceNeverReused'
  <2>1. \A x \in issued : x.attempt = a => x.seq # n
    BY <1>0, <1>5, ReceiptFields DEF TypeOK
  <2>. QED BY <2>1, <1>1, <1>2 DEF IInv, SequenceNeverReused
<1>16. RecordAgrees'
  <2>1. seqState[a].seq # n
    BY <1>0, <1>3, <1>4 DEF Seqs
  <2>. QED BY <2>1, <1>1, <1>2 DEF IInv, RecordAgrees
<1>17. AckedRecorded' /\ OneCall'
  BY <1>0, <1>2 DEF AckedRecorded, OneCall
<1>. QED
  BY <1>1, <1>2, <1>3, <1>5, <1>9, <1>10, <1>11, <1>12, <1>13, <1>14,
     <1>15, <1>16, <1>17 DEF IInv

(* A recorded receipt can go: every number and the newest event stay known. *)
LEMMA UnlinkKeeps ==
    ASSUME IInv, AcknowledgeUnlink
    PROVE  /\ IInv'
           /\ acked \in files
           /\ \A a \in Attempts : _last_event_state(a)' = _last_event_state(a)
<1>. DEFINE r == acked
<1>0. /\ TypeOK /\ HasNewest
      /\ r \in files /\ r \in acking /\ r \in issued /\ appending = NoReceipt
      /\ r.attempt \in Attempts /\ r.seq \in Nat
      /\ r.type \in Types /\ r.gen \in Gens \cup {NoGen}
  BY ReceiptFields DEF IInv, TypeOK, OneCall, AcknowledgeUnlink
<1>1. /\ files' = files \ {r}
      /\ acking' = acking \ {r}
      /\ acked' = NoReceipt
      /\ UNCHANGED <<seqState, open, builder, appending, nextId, issued, ioErrors>>
  BY DEF AcknowledgeUnlink
<1>2. /\ r.seq <= seqState[r.attempt].seq
      /\ r.seq = seqState[r.attempt].seq =>
            seqState[r.attempt] = [seq |-> r.seq, type |-> r.type, gen |-> r.gen]
  BY DEF IInv, AckedRecorded, AcknowledgeUnlink
<1>. HIDE DEF r
<1>3. ASSUME NEW a \in Attempts
      PROVE  /\ last_event_sequence(a) \in Nat
             /\ last_event_sequence(a) \in Seqs(a)'
             /\ Seqs(a)' \subseteq Seqs(a)
             /\ Seqs(a) \subseteq Nat
             /\ \A k \in Seqs(a) : k <= last_event_sequence(a)
  <2>. DEFINE m == last_event_sequence(a)
  <2>1. /\ m \in Nat /\ m \in Seqs(a) /\ (\A k \in Seqs(a) : k <= m)
        /\ Seqs(a) \subseteq Nat
    BY <1>0, NewestIsGreatest, SeqsAreNat
  <2>2. FilesOf(a)' = FilesOf(a) \ {r}
    BY <1>1 DEF FilesOf
  <2>3. Seqs(a)' = {seqState[a].seq} \cup {x.seq : x \in FilesOf(a) \ {r}}
    BY <1>1, <2>2 DEF Seqs
  <2>4. seqState[a].seq \in Seqs(a)
    BY DEF Seqs
  <2>5. m \in Seqs(a)'
    <3>1. CASE m = seqState[a].seq
      BY <3>1, <2>3
    <3>2. CASE m # seqState[a].seq
      <4>1. PICK x \in FilesOf(a) : x.seq = m
        BY <2>1, <3>2 DEF Seqs
      <4>2. seqState[a].seq < m
        BY <2>1, <2>4, <3>2
      <4>3. x # r
        BY <4>1, <4>2, <1>0, <1>2, <2>1, <2>4 DEF FilesOf
      <4>. QED BY <4>1, <4>3, <2>3
    <3>. QED BY <3>1, <3>2
  <2>6. Seqs(a)' \subseteq Seqs(a)
    BY <2>3 DEF Seqs
  <2>. QED BY <2>1, <2>5, <2>6
<1>4. \A a \in Attempts : last_event_sequence(a)' = last_event_sequence(a)
  <2>1. ASSUME NEW a \in Attempts
        PROVE  Max(Seqs(a)') = last_event_sequence(a)
    <3>1. Seqs(a)' \in SUBSET Nat
      BY <1>3
    <3>2. \A k \in Seqs(a)' : k <= last_event_sequence(a)
      BY <1>3
    <3>. QED BY <3>1, <3>2, <1>3, MaxIsGreatest
  <2>. QED BY <2>1 DEF last_event_sequence
<1>5. ASSUME NEW a \in Attempts
      PROVE  _last_event_state(a)' = _last_event_state(a)
  <2>. DEFINE m == last_event_sequence(a)
              known == IF seqState[a].seq = m THEN seqState[a]
                       ELSE [NoEvent EXCEPT !.seq = m]
              N(F) == {x \in F : x.seq = m}
              merged(S) == IF S = {} THEN known
                           ELSE LET x == CHOOSE y \in S : TRUE
                                IN  [seq  |-> m,
                                     type |-> OrElse(known.type, x.type, NoType),
                                     gen  |-> OrElse(known.gen, x.gen, NoGen)]
  <2>1. _last_event_state(a) = merged(N(FilesOf(a)))
    BY DEF _last_event_state
  <2>2. _last_event_state(a)' = merged(N(FilesOf(a)'))
    BY <1>1, <1>4 DEF _last_event_state
  <2>3. FilesOf(a)' = FilesOf(a) \ {r}
    BY <1>1 DEF FilesOf
  <2>4. CASE r.attempt # a \/ r.seq # m
    <3>1. N(FilesOf(a)') = N(FilesOf(a))
      BY <2>3, <2>4 DEF FilesOf
    <3>. HIDE DEF known, N
    <3>. QED BY <3>1, <2>1, <2>2
  <2>5. CASE r.attempt = a /\ r.seq = m
    <3>1. r \in N(FilesOf(a))
      BY <2>5, <1>0 DEF FilesOf
    <3>2. N(FilesOf(a)) = {r}
      BY <3>1, <2>5, <1>0 DEF IInv, SequenceNeverReused, TypeOK, FilesOf
    <3>3. N(FilesOf(a)') = {}
      BY <3>2, <2>3
    <3>4. seqState[a].seq = m
      <4>1. seqState[a].seq \in Seqs(a)
        BY DEF Seqs
      <4>. QED BY <4>1, <2>5, <1>2, <1>3
    <3>5. known = [seq |-> m, type |-> r.type, gen |-> r.gen]
      BY <3>4, <2>5, <1>2
    <3>6. (CHOOSE y \in N(FilesOf(a)) : TRUE) = r
      BY <3>2
    <3>. HIDE DEF known, m, N
    <3>7. merged(N(FilesOf(a))) = [seq |-> m, type |-> r.type, gen |-> r.gen]
      BY <3>2, <3>5, <3>6 DEF OrElse
    <3>8. merged(N(FilesOf(a)')) = known
      BY <3>3
    <3>. QED BY <3>5, <3>7, <3>8, <2>1, <2>2
  <2>. QED BY <2>4, <2>5
<1>6. TypeOK'
  BY <1>0, <1>1 DEF TypeOK
<1>7. HasNewest'
  BY <1>3 DEF HasNewest
<1>8. BuilderAhead'
  BY <1>0, <1>1, <1>3 DEF IInv, BuilderAhead, TypeOK
<1>9. Remembered'
  <2>. SUFFICES ASSUME NEW x \in issued
                PROVE  \E k \in Seqs(x.attempt)' : x.seq <= k
    BY <1>1 DEF Remembered
  <2>1. x.attempt \in Attempts /\ x.seq \in Nat
    BY <1>0, ReceiptFields DEF TypeOK
  <2>2. PICK k \in Seqs(x.attempt) : x.seq <= k
    BY DEF IInv, Remembered
  <2>. QED BY <2>1, <2>2, <1>3
<1>10. SequenceNeverReused' /\ RecordAgrees' /\ AckedRecorded' /\ OneCall'
  BY <1>0, <1>1 DEF IInv, SequenceNeverReused, RecordAgrees, AckedRecorded, OneCall
<1>. QED BY <1>0, <1>5, <1>6, <1>7, <1>8, <1>9, <1>10 DEF IInv, r

--------------------------------------------------------------------------------

(* Steps that change neither the directory nor the history keep what the    *)
(* invariant says of them.                                                  *)
LEMMA DirectoryUnchanged ==
    ASSUME IInv, UNCHANGED <<files, seqState, issued>>
    PROVE  /\ HasNewest' /\ Remembered' /\ SequenceNeverReused' /\ RecordAgrees'
           /\ \A a : Seqs(a)' = Seqs(a) /\ _last_event_state(a)' = _last_event_state(a)
<1>1. \A a : Seqs(a)' = Seqs(a) /\ FilesOf(a)' = FilesOf(a)
  BY DEF Seqs, FilesOf
<1>2. \A a : last_event_sequence(a)' = last_event_sequence(a)
  BY <1>1 DEF last_event_sequence
<1>3. \A a : _last_event_state(a)' = _last_event_state(a)
  BY <1>1, <1>2 DEF _last_event_state
<1>4. HasNewest'
  BY <1>1 DEF IInv, HasNewest
<1>5. Remembered'
  BY <1>1 DEF IInv, Remembered
<1>6. SequenceNeverReused' /\ RecordAgrees'
  BY DEF IInv, SequenceNeverReused, RecordAgrees
<1>. QED BY <1>1, <1>3, <1>4, <1>5, <1>6

(* Recording, by either call: the invariant holds and the ledger stands still. *)
LEMMA RecordSteps ==
    ASSUME IInv, RecordAppended \/ \E r \in acking : AcknowledgeRecord(r)
    PROVE  /\ IInv'
           /\ files' = files
           /\ \A a \in Attempts : _last_event_state(a)' = _last_event_state(a)
<1>0. TypeOK
  BY DEF IInv
<1>1. CASE RecordAppended
  <2>1. appending \in files
    BY <1>0, <1>1 DEF RecordAppended, TypeOK
  <2>2. /\ seqState' = _record_event_sequence(appending)
        /\ UNCHANGED <<files, open, builder, issued>>
    BY <1>1 DEF RecordAppended
  <2>3. /\ HasNewest' /\ BuilderAhead' /\ Remembered'
        /\ SequenceNeverReused' /\ RecordAgrees'
        /\ \A a \in Attempts : _last_event_state(a)' = _last_event_state(a)
    BY <2>1, <2>2, RecordKeeps
  <2>4. /\ seqState' \in [Attempts -> EventState]
        /\ \A b \in Attempts : b # appending.attempt => seqState'[b] = seqState[b]
        /\ \/ seqState'[appending.attempt] = seqState[appending.attempt]
           \/ /\ appending.seq >= seqState[appending.attempt].seq
              /\ seqState'[appending.attempt] =
                    [seq |-> appending.seq, type |-> appending.type, gen |-> appending.gen]
    BY <2>1, <2>2, RecordedState
  <2>5. TypeOK'
    BY <2>4, <1>0, <1>1 DEF RecordAppended, TypeOK
  <2>6. AckedRecorded'
    <3>1. acked = NoReceipt
      BY <1>0, <1>1 DEF IInv, TypeOK, OneCall, RecordAppended
    <3>. QED BY <3>1, <1>1 DEF AckedRecorded, RecordAppended
  <2>7. OneCall'
    BY <1>1 DEF OneCall, RecordAppended
  <2>. QED BY <2>2, <2>3, <2>5, <2>6, <2>7 DEF IInv
<1>2. ASSUME NEW r \in acking, AcknowledgeRecord(r)
      PROVE  /\ IInv'
             /\ files' = files
             /\ \A a \in Attempts : _last_event_state(a)' = _last_event_state(a)
  <2>1. r \in files
    BY <1>0 DEF TypeOK
  <2>2. /\ seqState' = _record_event_sequence(r)
        /\ acked' = r
        /\ UNCHANGED <<files, open, builder, appending, acking, nextId, issued, ioErrors>>
    BY <1>2 DEF AcknowledgeRecord
  <2>3. /\ HasNewest' /\ BuilderAhead' /\ Remembered'
        /\ SequenceNeverReused' /\ RecordAgrees'
        /\ \A a \in Attempts : _last_event_state(a)' = _last_event_state(a)
    BY <2>1, <2>2, RecordKeeps
  <2>4. /\ seqState' \in [Attempts -> EventState]
        /\ \/ /\ r.seq < seqState[r.attempt].seq
              /\ seqState'[r.attempt] = seqState[r.attempt]
           \/ /\ r.seq >= seqState[r.attempt].seq
              /\ seqState'[r.attempt] =
                    [seq |-> r.seq, type |-> r.type, gen |-> r.gen]
    BY <2>1, <2>2, RecordedState
  <2>5. TypeOK'
    BY <2>2, <2>4, <1>0 DEF TypeOK
  <2>6. AckedRecorded'
    <3>1. r.seq \in Nat /\ r.attempt \in Attempts /\ seqState[r.attempt].seq \in Nat
      BY <1>0, <2>1, ReceiptFields DEF TypeOK, EventState
    <3>. QED BY <3>1, <2>2, <2>4 DEF AckedRecorded
  <2>7. OneCall'
    BY <2>2 DEF IInv, OneCall
  <2>. QED BY <2>2, <2>3, <2>5, <2>6, <2>7 DEF IInv
<1>. QED BY <1>1, <1>2

(* The remaining steps leave the directory alone. *)
QuietStep ==
    \/ \E a \in Attempts : OpenBuilder(a) \/ BuildAndFail(a)
    \/ RecordFails
    \/ \E S \in SUBSET files : StartAcknowledge(S)
    \/ AcknowledgeFails
    \/ Stop
    \/ UNCHANGED vars

LEMMA QuietSteps ==
    ASSUME IInv, QuietStep
    PROVE  /\ IInv'
           /\ files' = files
           /\ \A a \in Attempts : _last_event_state(a)' = _last_event_state(a)
<1>0. TypeOK /\ HasNewest /\ BuilderAhead /\ OneCall
  BY DEF IInv
<1>1. UNCHANGED <<files, seqState, issued>>
  BY DEF QuietStep, OpenBuilder, BuildAndFail, RecordFails, StartAcknowledge,
         AcknowledgeFails, Stop, vars
<1>2. /\ HasNewest' /\ Remembered' /\ SequenceNeverReused' /\ RecordAgrees'
      /\ \A a : Seqs(a)' = Seqs(a) /\ _last_event_state(a)' = _last_event_state(a)
  BY <1>1, DirectoryUnchanged
<1>3. TypeOK' /\ BuilderAhead' /\ AckedRecorded' /\ OneCall'
  <2>1. ASSUME NEW a \in Attempts, OpenBuilder(a)
        PROVE  TypeOK' /\ BuilderAhead' /\ AckedRecorded' /\ OneCall'
    <3>1. /\ last_event_sequence(a) \in Nat
          /\ \A n \in Seqs(a) : n <= last_event_sequence(a)
      BY <1>0, NewestIsGreatest
    <3>2. TypeOK'
      BY <1>0, <2>1, <3>1 DEF OpenBuilder, TypeOK
    <3>3. BuilderAhead'
      BY <1>0, <1>2, <2>1, <3>1 DEF OpenBuilder, TypeOK, BuilderAhead
    <3>. QED BY <3>2, <3>3, <2>1 DEF OpenBuilder, IInv, AckedRecorded, OneCall
  <2>2. ASSUME NEW a \in Attempts, BuildAndFail(a)
        PROVE  TypeOK' /\ BuilderAhead' /\ AckedRecorded' /\ OneCall'
    <3>1. TypeOK'
      BY <1>0, <2>2, SpoolConstants DEF BuildAndFail, TypeOK
    <3>2. BuilderAhead'
      <4>. SUFFICES ASSUME NEW b \in open, NEW n \in Seqs(b)
                    PROVE  n <= builder'[b]
        BY <1>2, <2>2 DEF BuilderAhead, BuildAndFail
      <4>1. b \in Attempts /\ builder[b] \in Nat /\ n \in Nat
        BY <1>0, SeqsAreNat DEF TypeOK
      <4>2. n <= builder[b]
        BY <1>0 DEF BuilderAhead
      <4>3. builder'[b] = builder[b] \/ builder'[b] = builder[b] + 1
        BY <1>0, <2>2, <4>1 DEF BuildAndFail, TypeOK
      <4>. QED BY <4>1, <4>2, <4>3
    <3>. QED BY <3>1, <3>2, <2>2 DEF BuildAndFail, IInv, AckedRecorded, OneCall
  <2>3. CASE RecordFails
    BY <1>0, <1>2, <2>3, SpoolConstants
       DEF RecordFails, IInv, TypeOK, BuilderAhead, AckedRecorded, OneCall
  <2>4. ASSUME NEW S \in SUBSET files, StartAcknowledge(S)
        PROVE  TypeOK' /\ BuilderAhead' /\ AckedRecorded' /\ OneCall'
    BY <1>0, <1>2, <2>4
       DEF StartAcknowledge, Idle, IInv, TypeOK, BuilderAhead, AckedRecorded, OneCall
  <2>5. CASE AcknowledgeFails
    BY <1>0, <1>2, <2>5, SpoolConstants
       DEF AcknowledgeFails, IInv, TypeOK, BuilderAhead, AckedRecorded, OneCall
  <2>6. CASE Stop
    BY <1>0, <1>2, <2>6
       DEF Stop, IInv, TypeOK, BuilderAhead, AckedRecorded, OneCall
  <2>7. CASE UNCHANGED vars
    BY <1>0, <1>2, <2>7
       DEF vars, IInv, TypeOK, BuilderAhead, AckedRecorded, OneCall
  <2>. QED BY <2>1, <2>2, <2>3, <2>4, <2>5, <2>6, <2>7 DEF QuietStep
<1>. QED BY <1>1, <1>2, <1>3 DEF IInv

(* Every step is a link, a recording, an unlink, or leaves the directory.   *)
LEMMA StepKinds ==
    ASSUME [Next]_vars
    PROVE  \/ \E a \in Attempts, t \in Types, g \in Gens \cup {NoGen} :
                 BuildAndLink(a, t, g)
           \/ RecordAppended \/ (\E r \in acking : AcknowledgeRecord(r))
           \/ AcknowledgeUnlink
           \/ QuietStep
BY DEF Next, QuietStep

LEMMA NextIInv ==
    ASSUME IInv, [Next]_vars
    PROVE  IInv'
BY StepKinds, LinkKeeps, RecordSteps, UnlinkKeeps, QuietSteps

(* IInv is an inductive invariant of the spool. *)
THEOREM Invariance == Spec => []IInv
<1>1. Init => IInv
  BY InitIInv
<1>2. IInv /\ [Next]_vars => IInv'
  BY NextIInv
<1>. QED BY <1>1, <1>2, PTL DEF Spec

(* Type correctness of the spool's files and of the calls that work on them. *)
THEOREM TypeCorrect == Spec => []TypeOK
<1>1. IInv => TypeOK
  BY DEF IInv
<1>. QED BY <1>1, Invariance, PTL

(* No crash and no failed write makes two receipts of an attempt share a    *)
(* sequence number.                                                         *)
THEOREM NeverReused == Spec => []SequenceNeverReused
<1>1. IInv => SequenceNeverReused
  BY DEF IInv
<1>. QED BY <1>1, Invariance, PTL

(* append and acknowledge never meet a sequence_event_conflict. *)
THEOREM NeverConflicts == Spec => []NoSequenceConflict
<1>1. IInv => NoSequenceConflict
  BY DEF IInv, RecordAgrees, NoSequenceConflict, sequence_event_conflict
<1>. QED BY <1>1, Invariance, PTL

--------------------------------------------------------------------------------

(* The spool an agent starts with is an initial state of the ledger. *)
LEMMA InitRefines ==
    ASSUME Init
    PROVE  Ledger!LedgerInit
<1>. DEFINE last == [a \in Attempts |-> _last_event_state(a)]
<1>1. IInv /\ TypeOK /\ HasNewest
  BY InitIInv DEF IInv
<1>2. files \in SUBSET Ledger!Receipt
  BY <1>1 DEF TypeOK, Receipt, Ledger!Receipt
<1>3. \A a \in Attempts : _last_event_state(a) \in Ledger!EventState
  BY <1>1, LastEventType DEF EventState, Ledger!EventState
<1>4. \A r \in files : r.seq <= last[r.attempt].seq
  <2>. SUFFICES ASSUME NEW r \in files
                PROVE  r.seq <= last[r.attempt].seq
    OBVIOUS
  <2>1. r.attempt \in Attempts
    BY <1>1, ReceiptFields DEF TypeOK
  <2>2. r.seq \in Seqs(r.attempt)
    BY DEF Seqs, FilesOf
  <2>. QED BY <2>1, <2>2, <1>1, NewestIsGreatest, LastEventType
<1>. QED BY <1>2, <1>3, <1>4 DEF Ledger!LedgerInit

(* Every step is a step of the ledger or leaves it as it is. *)
LEMMA NextRefines ==
    ASSUME IInv, [Next]_vars
    PROVE  [Ledger!LedgerNext]_<<files, [a \in Attempts |-> _last_event_state(a)]>>
<1>. DEFINE last == [a \in Attempts |-> _last_event_state(a)]
<1>1. ASSUME NEW a \in Attempts, NEW t \in Types, NEW g \in Gens \cup {NoGen},
             BuildAndLink(a, t, g)
      PROVE  Ledger!LedgerNext
  <2>1. PICK r \in Receipt :
          /\ r.attempt = a
          /\ r \notin files
          /\ files' = files \cup {r}
          /\ r.seq > last_event_sequence(a)
          /\ _last_event_state(a)' = [seq |-> r.seq, type |-> r.type, gen |-> r.gen]
          /\ \A b \in Attempts \ {a} : _last_event_state(b)' = _last_event_state(b)
    BY <1>1, LinkKeeps
  <2>2. last[r.attempt].seq = last_event_sequence(a)
    BY <2>1, LastEventType DEF IInv
  <2>3. last' = [last EXCEPT ![r.attempt] = Ledger!EventOf(r)]
    BY <2>1 DEF Ledger!EventOf
  <2>4. r \in files' \ files /\ r \in Ledger!Receipt
    BY <2>1 DEF Receipt, Ledger!Receipt
  <2>5. Ledger!Append(r)
    BY <2>1, <2>2, <2>3 DEF Ledger!Append
  <2>. QED BY <2>4, <2>5 DEF Ledger!LedgerNext
<1>2. CASE AcknowledgeUnlink
  <2>1. /\ acked \in files
        /\ files' = files \ {acked}
        /\ \A a \in Attempts : _last_event_state(a)' = _last_event_state(a)
    BY <1>2, UnlinkKeeps DEF AcknowledgeUnlink
  <2>2. last' = last
    BY <2>1
  <2>. QED BY <2>1, <2>2 DEF Ledger!LedgerNext, Ledger!Retire
<1>3. CASE RecordAppended \/ (\E r \in acking : AcknowledgeRecord(r))
  <2>1. files' = files /\ last' = last
    BY <1>3, RecordSteps
  <2>. QED BY <2>1
<1>4. CASE QuietStep
  <2>1. files' = files /\ last' = last
    BY <1>4, QuietSteps
  <2>. QED BY <2>1
<1>. QED BY <1>1, <1>2, <1>3, <1>4, StepKinds

(* The directory implements the abstract spool: nothing but a link adds a   *)
(* receipt, always above every number of its attempt, and nothing that      *)
(* retires receipts, fails or crashes forgets the newest event.             *)
THEOREM Refinement == Spec => ImplementsLedger
<1>1. Init => Ledger!LedgerInit
  BY InitRefines
<1>2. IInv /\ [Next]_vars =>
        [Ledger!LedgerNext]_<<files, [a \in Attempts |-> _last_event_state(a)]>>
  BY NextRefines
<1>. QED BY <1>1, <1>2, Invariance, PTL DEF Spec, ImplementsLedger, Ledger!LedgerSpec
--------------------------------------------------------------------------------

(* The numbers of an attempt that a receipt carries. *)
Used(a) == {0} \cup {r.seq : r \in {x \in issued : x.attempt = a}}

(* While nothing failed, what is recorded and what a builder has counted    *)
(* are numbers of receipts, and every receipt follows another.              *)
IGap ==
    ioErrors = 0 =>
        /\ \A a \in Attempts : seqState[a].seq \in Used(a)
        /\ \A a \in open : builder[a] \in Used(a)
        /\ \A r \in issued : r.seq - 1 \in Used(r.attempt)

LEMMA InitGap == ASSUME Init PROVE IGap
<1>0. PICK legacy \in SUBSET Attempts, type \in [Attempts -> Types],
           gen \in [Attempts -> Gens \cup {NoGen}] :
        /\ issued = {[id |-> 0, attempt |-> a, seq |-> 1,
                      type |-> type[a], gen |-> gen[a]] : a \in legacy}
        /\ files \in SUBSET issued
        /\ \E schema \in {1, 2} :
              seqState = [a \in Attempts |->
                IF a \in legacy
                THEN [seq  |-> 1,
                      type |-> IF schema = 1 THEN NoType ELSE type[a],
                      gen  |-> NoGen]
                ELSE NoEvent]
  BY DEF Init
<1>1. PICK schema \in {1, 2} :
        seqState = [a \in Attempts |->
                IF a \in legacy
                THEN [seq  |-> 1,
                      type |-> IF schema = 1 THEN NoType ELSE type[a],
                      gen  |-> NoGen]
                ELSE NoEvent]
  BY <1>0
<1>2. \A a \in Attempts : seqState[a].seq = IF a \in legacy THEN 1 ELSE 0
  BY <1>1 DEF NoEvent
<1>3. ASSUME NEW a \in legacy
      PROVE  1 \in Used(a)
  <2>1. [id |-> 0, attempt |-> a, seq |-> 1, type |-> type[a], gen |-> gen[a]] \in issued
    BY <1>0
  <2>. QED BY <2>1 DEF Used
<1>4. ASSUME NEW r \in issued
      PROVE  r.seq - 1 = 0
  <2>1. issued = {[id |-> 0, attempt |-> a, seq |-> 1,
                   type |-> type[a], gen |-> gen[a]] : a \in legacy}
    BY <1>0
  <2>2. r.seq = 1
    BY <2>1
  <2>. QED BY <2>2
<1>5. open = {}
  BY DEF Init
<1>. QED BY <1>2, <1>3, <1>4, <1>5 DEF IGap, Used

(* A receipt that is spooled, or a number that is recorded, is one of a     *)
(* receipt.                                                                 *)
LEMMA KnownIsUsed ==
    ASSUME IInv, IGap, ioErrors = 0, NEW a \in Attempts
    PROVE  Seqs(a) \subseteq Used(a)
BY DEF IInv, IGap, TypeOK, Seqs, FilesOf, Used

LEMMA NextGap ==
    ASSUME IInv, IGap, [Next]_vars
    PROVE  IGap'
<1>0. /\ ioErrors \in Nat /\ open \subseteq Attempts /\ builder \in [Attempts -> Nat]
      /\ issued \subseteq Receipt /\ files \subseteq issued
  BY SpoolConstants DEF IInv, TypeOK
<1>. SUFFICES ASSUME ioErrors' = 0 PROVE IGap'
  BY DEF IGap
<1>1. CASE UNCHANGED vars
  BY <1>1 DEF vars, IGap, Used
<1>2. ASSUME NEW a \in Attempts, OpenBuilder(a)
      PROVE  IGap'
  <2>1. ioErrors = 0 /\ UNCHANGED <<issued, seqState>>
    BY <1>2 DEF OpenBuilder
  <2>2. last_event_sequence(a) \in Used(a)
    BY <2>1, KnownIsUsed, NewestIsGreatest DEF IInv
  <2>3. \A b \in open' : builder'[b] \in Used(b)
    BY <1>0, <1>2, <2>1, <2>2 DEF OpenBuilder, IGap
  <2>. QED BY <2>1, <2>3 DEF IGap, Used
<1>3. ASSUME NEW a \in Attempts, NEW t \in Types, NEW g \in Gens \cup {NoGen},
             BuildAndLink(a, t, g)
      PROVE  IGap'
  <2>1. PICK n \in Nat : n = builder[a]
    BY <1>0
  <2>2. PICK r : /\ r = [id |-> nextId, attempt |-> a, seq |-> n + 1, type |-> t, gen |-> g]
                 /\ issued' = issued \cup {r}
    BY <1>3, <2>1 DEF BuildAndLink
  <2>3. ioErrors = 0 /\ a \in open /\ UNCHANGED <<open, seqState>>
        /\ builder' = [builder EXCEPT ![a] = n + 1]
    BY <1>3, <2>1 DEF BuildAndLink
  <2>4. \A b \in Attempts : Used(b) \subseteq Used(b)'
    BY <2>2 DEF Used
  <2>5. n + 1 \in Used(a)' /\ n \in Used(a)
    BY <2>1, <2>2, <2>3 DEF Used, IGap
  <2>6. \A b \in open : builder'[b] \in Used(b)'
    BY <1>0, <2>3, <2>4, <2>5 DEF IGap
  <2>7. \A b \in Attempts : seqState[b].seq \in Used(b)'
    BY <2>3, <2>4 DEF IGap
  <2>8. \A x \in issued : x.attempt \in Attempts /\ x.seq - 1 \in Used(x.attempt)
    BY <1>0, <2>3, ReceiptFields DEF IGap
  <2>9. r.attempt = a /\ r.seq - 1 = n
    BY <2>2
  <2>10. \A x \in issued' : \A b \in Attempts : b = x.attempt => x.seq - 1 \in Used(b)'
    BY <2>2, <2>4, <2>5, <2>8, <2>9
  <2>11. \A x \in issued' : x.attempt \in Attempts
    BY <2>2, <2>8, <2>9
  <2>. QED BY <2>3, <2>6, <2>7, <2>10, <2>11 DEF IGap, Used
<1>4. ASSUME NEW r \in files, seqState' = _record_event_sequence(r),
             UNCHANGED <<open, builder, issued, ioErrors>>
      PROVE  IGap'
  <2>1. r \in issued /\ r.attempt \in Attempts
    BY <1>0, ReceiptFields
  <2>2. /\ \A a \in Attempts : a # r.attempt => seqState'[a] = seqState[a]
        /\ \/ seqState'[r.attempt] = seqState[r.attempt]
           \/ seqState'[r.attempt] = [seq |-> r.seq, type |-> r.type, gen |-> r.gen]
    BY <1>4, <2>1, RecordedState
  <2>3. r.seq \in Used(r.attempt)
    BY <2>1 DEF Used
  <2>4. \A a \in Attempts : seqState'[a].seq \in Used(a)
    BY <1>4, <2>2, <2>3 DEF IGap
  <2>. QED BY <1>4, <2>4 DEF IGap, Used
<1>5. CASE RecordAppended
  <2>1. appending \in files
    BY <1>5 DEF RecordAppended, IInv, TypeOK
  <2>. QED BY <1>4, <1>5, <2>1 DEF RecordAppended
<1>6. ASSUME NEW r \in acking, AcknowledgeRecord(r)
      PROVE  IGap'
  <2>1. r \in files
    BY DEF IInv, TypeOK
  <2>. QED BY <1>4, <1>6, <2>1 DEF AcknowledgeRecord
<1>7. CASE AcknowledgeUnlink \/ (\E S \in SUBSET files : StartAcknowledge(S))
  BY <1>7 DEF AcknowledgeUnlink, StartAcknowledge, IGap, Used
<1>8. CASE RecordFails \/ AcknowledgeFails \/ (\E a \in Attempts : BuildAndFail(a))
  BY <1>0, <1>8 DEF RecordFails, AcknowledgeFails, BuildAndFail
<1>9. CASE Stop
  BY <1>9 DEF Stop, IGap, Used
<1>. QED BY <1>1, <1>2, <1>3, <1>5, <1>6, <1>7, <1>8, <1>9 DEF Next

(* While no file operation fails, the numbers of an attempt leave no gap,   *)
(* wherever the process is stopped.                                         *)
THEOREM NoGaps == Spec => []GapOnlyAfterIOError
<1>1. Init => IGap
  BY InitGap
<1>2. IInv /\ IGap /\ [Next]_vars => IGap'
  BY NextGap
<1>3. IInv /\ IGap => GapOnlyAfterIOError
  BY ReceiptFields DEF IInv, TypeOK, IGap, Used, GapOnlyAfterIOError
<1>. QED BY <1>1, <1>2, <1>3, Invariance, PTL DEF Spec
================================================================================
