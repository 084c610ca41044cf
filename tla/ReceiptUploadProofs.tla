-------------------------- MODULE ReceiptUploadProofs --------------------------
(***************************************************************************)
(* Proofs about ReceiptUpload: no receipt the registry still wants leaves   *)
(* the spool, a batch of a gapless spool leaves no gap, and a process that  *)
(* is alone retires what is there; for any number of processes and          *)
(* attempts, any size of batches and any number of receipts, gaps, faults   *)
(* and crashes.                                                             *)
(***************************************************************************)
EXTENDS ReceiptUpload, FiniteSetTheorems, WellFoundedInduction, TLAPS

Function(f) == f = [p \in Procs |-> f[p]]

IType ==
    /\ Function(pc) /\ Function(batch) /\ Function(reply) /\ Function(acking)
    /\ wire \subseteq [to : Procs \cup {Nobody}, batch : SUBSET appended]
    /\ pending \subseteq appended
    /\ \A p \in Procs : batch[p] \subseteq appended

Settled(r) == r \in accepted \/ r.attempt \in stale

(* A request whose answer is awaited carries the batch of its sender. *)
IWire ==
    \A m \in wire :
        m.to # Nobody =>
            m.to \in Procs /\ pc[m.to] = "wait" /\ m.batch = batch[m.to]

(* What an answer lets its receiver retire is settled already; nothing else *)
(* of that receiver is on the wire.                                         *)
IReply ==
    \A p \in Procs :
        reply[p] # NoReply =>
            /\ pc[p] = "wait" /\ \A m \in wire : m.to # p
            /\ reply[p].outcome \in {"accepted", "sequence_gap", "stale_attempt"} \cup Refusals
            /\ reply[p].outcome = "accepted" => batch[p] \subseteq accepted
            /\ \A r \in reply[p].rejected :
                  reply[p].outcome = "stale_attempt" => r.attempt \in stale

IAcking == \A p \in Procs : \A r \in acking[p] : Settled(r)

IInv == IType /\ IWire /\ IReply /\ IAcking /\ RetiredIsSettled

LEMMA InitInv == Init => IInv
  BY DEF Init, IInv, IType, Function, IWire, IReply, IAcking, RetiredIsSettled

(* Leaving upload_pending_receipts, whatever becomes of the request. *)
LEMMA LeaveStep ==
    ASSUME IInv, NEW p \in Procs, Leave(p),
           \/ wire' \in Abandoned(p)
           \/ wire' = wire /\ pc[p] # "wait",
           UNCHANGED <<appended, pending, registryVars>>
    PROVE  IInv'
<1>1. wire' \subseteq [to : Procs \cup {Nobody}, batch : SUBSET appended]
  BY DEF Abandoned, IInv, IType
<1>2. \A m \in wire' : m.to # Nobody => m \in wire /\ m.to # p
  BY UploadConstants DEF Abandoned, IInv, IType, IWire
<1>3. \A q \in Procs \ {p} : pc'[q] = pc[q] /\ batch'[q] = batch[q]
  BY DEF Leave, Goto, IInv, IType, Function
<1>4. IWire'
  BY <1>2, <1>3 DEF IInv, IWire
<1>5. IType'
  BY <1>1 DEF IInv, IType, Function, Leave, Goto
<1>6. IReply'
  <2>1. \A q \in Procs : \A m \in wire' : m.to = q => m \in wire
    BY <1>2, UploadConstants
  <2>2. \A q \in Procs : reply'[q] # NoReply => q # p /\ reply'[q] = reply[q]
    BY DEF Leave, IInv, IType, Function
  <2>3. QED
    BY <1>3, <2>1, <2>2 DEF IInv, IReply, registryVars
<1>7. IAcking' /\ RetiredIsSettled'
  BY DEF IInv, IType, Function, IAcking, RetiredIsSettled, Settled, Leave, registryVars
<1>8. QED
  BY <1>4, <1>5, <1>6, <1>7 DEF IInv

LEMMA AppendStep ==
    ASSUME IInv, NEW p \in Procs, NEW a \in Attempts, Append(p, a)
    PROVE  IInv'
<1>1. PICK r : appended' = appended \cup {r} /\ pending' = pending \cup {r}
  BY DEF Append
<1>2. IType'
  <2>1. wire' \subseteq [to : Procs \cup {Nobody}, batch : SUBSET appended']
    BY <1>1 DEF Append, IInv, IType
  <2>2. QED
    BY <1>1, <2>1 DEF Append, IInv, IType, Function, procVars
<1>3. QED
  BY <1>1, <1>2 DEF Append, IInv, IWire, IReply, IAcking, RetiredIsSettled, Settled,
     procVars, registryVars

LEMMA SendStep ==
    ASSUME IInv, NEW p \in Procs, Send(p)
    PROVE  IInv'
<1>1. Oldest(p) \subseteq appended
  BY DEF Oldest, IInv, IType
<1>2. /\ pc[p] = "read" /\ pc'[p] = "wait" /\ batch'[p] = Oldest(p)
      /\ \A q \in Procs \ {p} : pc'[q] = pc[q] /\ batch'[q] = batch[q]
  BY DEF Send, Goto, IInv, IType, Function
<1>3. wire' = wire \cup {[to |-> p, batch |-> Oldest(p)]}
  BY <1>2 DEF Send
<1>4. reply[p] = NoReply /\ \A m \in wire : m.to # p
  BY <1>2, UploadConstants DEF IInv, IReply, IWire
<1>5. IType'
  <2>1. wire' \subseteq [to : Procs \cup {Nobody}, batch : SUBSET appended']
    BY <1>1, <1>3 DEF Send, IInv, IType
  <2>2. Function(pc)' /\ Function(batch)' /\ Function(reply)' /\ Function(acking)'
    BY DEF Send, Goto, IInv, IType, Function
  <2>3. \A q \in Procs : batch'[q] \subseteq appended'
    BY <1>1, <1>2 DEF Send, IInv, IType
  <2>4. QED
    BY <2>1, <2>2, <2>3 DEF Send, IInv, IType
<1>6. IWire'
  <2>1. ASSUME NEW m \in wire', m.to # Nobody
        PROVE  m.to \in Procs /\ pc'[m.to] = "wait" /\ m.batch = batch'[m.to]
    <3>1. CASE m \in wire
      BY <1>2, <1>4, <2>1, <3>1 DEF IInv, IWire
    <3>2. CASE m = [to |-> p, batch |-> Oldest(p)]
      BY <1>2, <3>2
    <3>3. QED
      BY <1>3, <3>1, <3>2
  <2>2. QED
    BY <2>1 DEF IWire
<1>7. IReply'
  <2>1. reply' = reply /\ UNCHANGED registryVars
    BY DEF Send
  <2>2. ASSUME NEW q \in Procs, reply[q] # NoReply
        PROVE  q # p /\ pc[q] = "wait" /\ \A m \in wire' : m.to # q
    <3>1. q # p
      BY <1>4, <2>2
    <3>2. pc[q] = "wait" /\ \A m \in wire : m.to # q
      BY <2>2 DEF IInv, IReply
    <3>3. QED
      BY <1>3, <3>1, <3>2
  <2>3. QED
    BY <1>2, <2>1, <2>2 DEF IInv, IReply, registryVars
<1>8. IAcking' /\ RetiredIsSettled'
  BY DEF Send, IInv, IAcking, RetiredIsSettled, Settled, registryVars
<1>9. QED
  BY <1>5, <1>6, <1>7, <1>8 DEF IInv

LEMMA RetryStep ==
    ASSUME IInv, NEW p \in Procs, Retry(p)
    PROVE  IInv'
<1>1. PICK w \in Abandoned(p) : wire' = w \cup {[to |-> p, batch |-> batch[p]]}
  BY DEF Retry
<1>2. /\ w \subseteq [to : Procs \cup {Nobody}, batch : SUBSET appended]
      /\ \A m \in w : m.to # Nobody => m \in wire /\ m.to # p
  BY UploadConstants DEF Abandoned, IInv, IType
<1>3. IType'
  <2>1. wire' \subseteq [to : Procs \cup {Nobody}, batch : SUBSET appended']
    <3>1. [to |-> p, batch |-> batch[p]]
              \in [to : Procs \cup {Nobody}, batch : SUBSET appended]
      BY DEF IInv, IType
    <3>2. QED
      BY <1>1, <1>2, <3>1 DEF Retry
  <2>2. QED
    BY <2>1 DEF Retry, IInv, IType, Function
<1>4. IWire'
  BY <1>1, <1>2 DEF Retry, IInv, IWire
<1>5. \A q \in Procs : reply'[q] # NoReply =>
          reply'[q] = reply[q] /\ q # p /\ \A m \in wire' : m.to # q
  BY <1>1, <1>2, UploadConstants DEF Retry, IInv, IType, Function, IReply
<1>6. IReply' /\ IAcking' /\ RetiredIsSettled'
  BY <1>5 DEF Retry, IInv, IReply, IAcking, RetiredIsSettled, Settled, registryVars
<1>7. QED
  BY <1>3, <1>4, <1>6 DEF IInv

(* What the client takes from the answer is settled. *)
LEMMA ReceiveStep ==
    ASSUME IInv, NEW p \in Procs, Receive(p)
    PROVE  IInv'
<1>1. \A r \in Retirable(p) : Settled(r)
  BY DEF Receive, Retirable, IInv, IReply, Settled
<1>2. \A m \in wire : m.to # p
  BY DEF Receive, IInv, IReply
<1>3. IType' /\ IWire'
  BY <1>2 DEF Receive, Goto, IInv, IType, Function, IWire
<1>4. IReply' /\ RetiredIsSettled'
  BY DEF Receive, Goto, IInv, IType, Function, IReply, RetiredIsSettled, registryVars
<1>5. IAcking'
  BY <1>1 DEF Receive, IInv, IType, Function, IAcking, Settled, registryVars
<1>6. QED
  BY <1>3, <1>4, <1>5 DEF IInv

(* A file that acknowledge removes is settled, present or not. *)
LEMMA AcknowledgeStep ==
    ASSUME IInv, NEW p \in Procs, NEW r \in acking[p], Acknowledge(p, r)
    PROVE  IInv'
<1>1. Settled(r)
  BY DEF IInv, IAcking
<1>2. RetiredIsSettled'
  BY <1>1 DEF Acknowledge, IInv, RetiredIsSettled, Settled, registryVars
<1>3. QED
  BY <1>2 DEF Acknowledge, IInv, IType, Function, IWire, IReply, IAcking, Settled,
     registryVars

(* The registry takes a batch only if nothing of it is refused, and says    *)
(* stale_attempt of receipts whose attempt it no longer wants.              *)
LEMMA AnswerOutcomes ==
    ASSUME NEW B, NEW answer \in Answers(B)
    PROVE  /\ answer.outcome \in {"accepted", "sequence_gap", "stale_attempt"} \cup Refusals
           /\ answer.outcome = "accepted" => RefusedIn(B) = {}
           /\ answer.outcome = "stale_attempt" => answer.rejected \subseteq StaleIn(B)
<1> DEFINE failing == StaleIn(B) \cup RefusedIn(B) \cup Gaps(B)
<1> DEFINE first == First(failing)
<1>1. CASE failing = {}
  <2>1. answer = [outcome |-> "accepted", rejected |-> {}]
    BY <1>1 DEF Answers
  <2> QED
    BY <1>1, <2>1
<1>2. CASE failing # {} /\ first \in StaleIn(B)
  <2>1. answer \in [outcome : {"stale_attempt"}, rejected : SUBSET StaleIn(B)]
    BY <1>2 DEF Answers
  <2> QED
    BY <2>1
<1>3. CASE failing # {} /\ first \notin StaleIn(B)
  <2>1. PICK O : O = (IF first \in RefusedIn(B) THEN Refusals ELSE {"sequence_gap"})
    OBVIOUS
  <2>2. answer \in [outcome : O, rejected : {{first}}]
    BY <1>3, <2>1 DEF Answers
  <2>3. answer.outcome \in Refusals \cup {"sequence_gap"}
    BY <2>1, <2>2
  <2> QED
    BY <2>3 DEF Refusals
<1> QED
  BY <1>1, <1>2, <1>3

(* A new answer is true when it is given, and no answer ceases to be so. *)
LEMMA HandleStep ==
    ASSUME IInv, NEW m \in wire, Handle(m)
    PROVE  IInv'
<1>1. PICK answer \in Answers(m.batch) :
          /\ accepted' = IF answer.outcome = "accepted"
                         THEN accepted \cup m.batch ELSE accepted
          /\ reply' = IF m.to = Nobody THEN reply
                      ELSE [reply EXCEPT ![m.to] = answer]
  BY DEF Handle
<1>2. /\ answer.outcome \in {"accepted", "sequence_gap", "stale_attempt"} \cup Refusals
      /\ \A r \in answer.rejected :
            answer.outcome = "stale_attempt" => r.attempt \in stale
  BY AnswerOutcomes DEF StaleIn
<1>3. m.to # Nobody =>
          /\ m.to \in Procs /\ pc[m.to] = "wait" /\ m.batch = batch[m.to]
          /\ \A n \in wire' : n.to # m.to
  BY DEF Handle, IInv, IType, IWire
<1>4. IType' /\ IWire' /\ IAcking' /\ RetiredIsSettled'
  BY <1>1 DEF Handle, IInv, IType, Function, IWire, IAcking, RetiredIsSettled, Settled
<1>5. IReply'
  BY <1>1, <1>2, <1>3 DEF Handle, IInv, IType, Function, IReply
<1>6. QED
  BY <1>4, <1>5 DEF IInv

LEMMA SupersedeStep ==
    ASSUME IInv, NEW a \in Attempts, Supersede(a)
    PROVE  IInv'
  BY DEF Supersede, IInv, IType, Function, IWire, IReply, IAcking, RetiredIsSettled,
     Settled, procVars

LEMMA RefuseStep ==
    ASSUME IInv, NEW r \in appended, Refuse(r)
    PROVE  IInv'
  BY DEF Refuse, IInv, IType, Function, IWire, IReply, IAcking, RetiredIsSettled,
     Settled, procVars

LEMMA NextStep ==
    ASSUME IInv, [Next]_vars
    PROVE  IInv'
<1>1. CASE UNCHANGED vars
  BY <1>1 DEF vars, registryVars, procVars, IInv, IType, Function, IWire, IReply,
     IAcking, RetiredIsSettled, Settled
<1>2. CASE \E a \in Attempts : Supersede(a) \/ \E p \in Procs : Append(p, a)
  BY <1>2, SupersedeStep, AppendStep
<1>3. CASE \E m \in wire : Handle(m)
  BY <1>3, HandleStep
<1>4. ASSUME NEW p \in Procs,
             Step(p) \/ ReadFails(p) \/ Retry(p) \/ GiveUp(p) \/ Crash(p)
      PROVE  IInv'
  <2>1. CASE Start(p)
    BY <2>1 DEF Start, Goto, IInv, IType, Function, IWire, IReply, IAcking,
       RetiredIsSettled, Settled, registryVars
  <2>2. CASE Send(p)
    BY <2>2, SendStep
  <2>3. CASE Done(p) \/ ReadFails(p)
    BY <2>3, LeaveStep DEF Done, ReadFails
  <2>4. CASE Receive(p)
    BY <2>4, ReceiveStep
  <2>5. CASE ReceiveRefusal(p)
    <3>1. \A m \in wire : m.to # p
      BY <2>5 DEF ReceiveRefusal, IInv, IReply
    <3>2. wire' \in Abandoned(p)
      BY <2>5, <3>1 DEF ReceiveRefusal, Abandoned
    <3>3. QED
      BY <2>5, <3>2, LeaveStep DEF ReceiveRefusal
  <2>6. CASE \E r \in acking[p] : Acknowledge(p, r)
    BY <2>6, AcknowledgeStep
  <2>7. CASE Acknowledged(p)
    <3>1. CASE Leave(p)
      BY <2>7, <3>1, LeaveStep DEF Acknowledged
    <3>2. CASE ~Leave(p)
      BY <2>7, <3>2 DEF Acknowledged, Goto, IInv, IType, Function, IWire, IReply,
         IAcking, RetiredIsSettled, Settled, registryVars
    <3>3. QED
      BY <3>1, <3>2
  <2>8. CASE Retry(p)
    BY <2>8, RetryStep
  <2>9. CASE GiveUp(p) \/ Crash(p)
    BY <2>9, LeaveStep DEF GiveUp, Crash
  <2>10. QED
    BY <1>4, <2>1, <2>2, <2>3, <2>4, <2>5, <2>6, <2>7, <2>8, <2>9 DEF Step
<1>5. CASE \E r \in appended : Refuse(r)
  BY <1>5, RefuseStep
<1>6. QED
  BY <1>1, <1>2, <1>3, <1>4, <1>5 DEF Next

(* The spool, the processes, the network and the registry agree on what is  *)
(* settled in every reachable state.                                        *)
THEOREM Invariance == Spec => []IInv
<1>1. Init => IInv
  BY InitInv
<1>2. IInv /\ [Next]_vars => IInv'
  BY NextStep
<1>3. QED
  BY <1>1, <1>2, PTL DEF Spec

(* No receipt leaves the spool unless the registry has taken it, or wants   *)
(* no more receipts of its attempt.                                         *)
THEOREM NothingLost == Spec => []RetiredIsSettled
<1>1. IInv => RetiredIsSettled
  BY DEF IInv
<1>2. QED
  BY <1>1, Invariance, PTL
--------------------------------------------------------------------------------
(* Types, batches without gaps, and what one process retires. *)

LEMMA Least ==
    ASSUME NEW T \in SUBSET Nat, T # {}
    PROVE  \E x \in T : \A y \in T : x <= y
<1>1. PICK x \in T : \A y \in T : ~(<<y, x>> \in OpToRel(<, Nat))
  BY NatLessThanWellFounded, WFMin
<1>2. \A y \in T : ~(y < x)
  BY <1>1 DEF OpToRel
<1>3. x \in Nat /\ \A y \in T : y \in Nat
  OBVIOUS
<1>4. \A y \in T : x <= y
  BY <1>2, <1>3
<1>5. QED
  BY <1>4

LEMMA Greatest ==
    ASSUME NEW T \in SUBSET Nat, T # {}, NEW b \in Nat, \A x \in T : x <= b
    PROVE  Max(T) \in T /\ \A x \in T : x <= Max(T)
<1> DEFINE Bounds == {n \in Nat : \A x \in T : x <= n}
<1>1. PICK m \in Bounds : \A n \in Bounds : m <= n
  BY Least
<1>2. m \in T
  <2>1. SUFFICES ASSUME m \notin T PROVE FALSE
    OBVIOUS
  <2>2. \A x \in T : x < m
    BY <1>1, <2>1
  <2>3. PICK x \in T : TRUE
    OBVIOUS
  <2>4. m \in Nat /\ x \in Nat /\ x < m
    BY <1>1, <2>2
  <2>5. m - 1 \in Nat /\ \A y \in T : y <= m - 1
    BY <2>2, <2>4
  <2>6. m <= m - 1
    BY <1>1, <2>5
  <2>7. QED
    BY <2>4, <2>6
<1>3. m \in T /\ \A x \in T : m >= x
  BY <1>1, <1>2
<1>4. Max(T) \in T /\ \A x \in T : Max(T) >= x
  BY <1>3 DEF Max
<1>5. QED
  BY <1>4

(* The numbers of an attempt are bounded, so that NextSeq finds the newest. *)
IAppended ==
    /\ appended \subseteq Receipt /\ IsFiniteSet(appended)
    /\ \A a \in Attempts :
          \E n \in Nat : \A r \in appended : r.attempt = a => r.seq <= n

LEMMA Newest ==
    ASSUME IAppended, NEW a \in Attempts
    PROVE  /\ NextSeq(a) \in Nat \ {0}
           /\ \A r \in appended : r.attempt = a => r.seq < NextSeq(a)
           /\ NextSeq(a) > 1 => \E r \in appended : r.attempt = a /\ r.seq = NextSeq(a) - 1
<1> DEFINE Own == {x \in appended : x.attempt = a}
<1> DEFINE T == {0} \cup {r.seq : r \in Own}
<1>1. T \in SUBSET Nat /\ T # {}
  BY DEF IAppended, Receipt
<1>2. PICK n \in Nat : \A r \in appended : r.attempt = a => r.seq <= n
  BY DEF IAppended
<1>3. \A x \in T : x <= n
  BY <1>2
<1>4. Max(T) \in T /\ \A x \in T : x <= Max(T)
  BY <1>1, <1>3, Greatest
<1>5. NextSeq(a) = Max(T) + 1
  BY DEF NextSeq
<1>6. Max(T) \in Nat
  BY <1>1, <1>4
<1>7. \A r \in appended : r.attempt = a => r.seq \in T /\ r.seq \in Nat
  BY DEF IAppended, Receipt
<1>8. NextSeq(a) > 1 => Max(T) # 0
  BY <1>5, <1>6
<1>9. Max(T) # 0 => \E r \in appended : r.attempt = a /\ r.seq = Max(T)
  BY <1>4
<1>10. NextSeq(a) - 1 = Max(T)
  BY <1>5, <1>6
<1>11. \A r \in appended : r.attempt = a => r.seq < NextSeq(a)
  BY <1>4, <1>5, <1>6, <1>7
<1>12. NextSeq(a) > 1 => \E r \in appended : r.attempt = a /\ r.seq = NextSeq(a) - 1
  BY <1>8, <1>9, <1>10
<1>13. NextSeq(a) \in Nat \ {0}
  BY <1>5, <1>6
<1>14. QED
  BY <1>11, <1>12, <1>13

(* The order of receipts has a first one in every set of them. *)
LEMMA FirstExists ==
    ASSUME NEW S \in SUBSET Receipt, S # {}
    PROVE  /\ First(S) \in S
           /\ \A s \in S : ~Before(s, First(S))
<1> DEFINE A == {r.attempt : r \in S}
<1>1. PICK a \in A : \A b \in A : a <= b
  <2>1. A \in SUBSET Nat /\ A # {}
    BY UploadConstants DEF Receipt
  <2>2. QED
    BY <2>1, Least
<1> DEFINE N == {r.seq : r \in {x \in S : x.attempt = a}}
<1>2. PICK n \in N : \A k \in N : n <= k
  <2>1. N \in SUBSET Nat /\ N # {}
    BY DEF Receipt
  <2>2. QED
    BY <2>1, Least
<1>3. PICK r \in S : r.attempt = a /\ r.seq = n
  OBVIOUS
<1>4. \A s \in S : /\ s \in Receipt /\ s.attempt \in Nat /\ s.seq \in Nat
                   /\ r.attempt <= s.attempt
                   /\ s.attempt = r.attempt => r.seq <= s.seq
  BY <1>1, <1>2, <1>3, UploadConstants DEF Receipt
<1>5. \A s \in S \ {r} : s.attempt # r.attempt \/ s.seq # r.seq
  BY <1>3 DEF Receipt
<1>6. \A s \in S \ {r} : Before(r, s)
  BY <1>3, <1>4, <1>5 DEF Before
<1>7. First(S) \in S /\ \A s \in S \ {First(S)} : Before(First(S), s)
  BY <1>3, <1>6 DEF First
<1>8. \A s, t \in Receipt : Before(s, t) => ~Before(t, s)
  <2>1. SUFFICES ASSUME NEW s \in Receipt, NEW t \in Receipt, Before(s, t)
                 PROVE  ~Before(t, s)
    OBVIOUS
  <2>2. s.attempt \in Nat /\ t.attempt \in Nat /\ s.seq \in Nat /\ t.seq \in Nat
    BY UploadConstants DEF Receipt
  <2>3. QED
    BY <2>1, <2>2 DEF Before
<1>9. ~Before(First(S), First(S))
  BY <1>7, <1>8
<1>10. QED
  BY <1>7, <1>8, <1>9

(* A batch of a spool that is not empty is not empty. *)
LEMMA SomethingIsSent ==
    ASSUME IAppended, pending \subseteq appended, pending # {}, NEW p \in Procs
    PROVE  Oldest(p) # {}
<1>1. /\ First(pending) \in pending
      /\ \A s \in pending : ~Before(s, First(pending))
  BY FirstExists DEF IAppended
<1>2. {s \in pending : Before(s, First(pending))} = {}
  BY <1>1
<1>3. Cardinality({s \in pending : Before(s, First(pending))}) = 0
  BY <1>2, FS_EmptySet
<1>4. 0 < BatchLimit
  BY UploadConstants
<1>5. QED
  BY <1>1, <1>3, <1>4 DEF Oldest

ICounts ==
    /\ count \in [gaps : Nat, faults : Nat, vague : Nat, crashes : Nat]
    /\ Function(tries) /\ Function(missed)

(* A process waits for the answer about some receipts, and what is rejected *)
(* as stale is among them.                                                  *)
IAsked ==
    \A p \in Procs :
        /\ pc[p] = "wait" => batch[p] # {}
        /\ reply[p] # NoReply /\ reply[p].outcome = "stale_attempt" =>
              reply[p].rejected \subseteq batch[p]

TInv == TypeOK /\ IAppended /\ ICounts /\ IAsked

LEMMA InitTypes == Init => TInv
<1> SUFFICES ASSUME Init PROVE TInv
  OBVIOUS
<1>1. IAppended
  BY FS_EmptySet DEF Init, IAppended
<1>2. TypeOK
  BY UploadConstants DEF Init, TypeOK
<1>3. ICounts /\ IAsked
  BY DEF Init, ICounts, Function, IAsked
<1>4. QED
  BY <1>1, <1>2, <1>3 DEF TInv

LEMMA LeaveTypes ==
    ASSUME IInv, TInv, NEW p \in Procs, Leave(p),
           \/ wire' \in Abandoned(p)
           \/ wire' = wire /\ pc[p] # "wait",
           UNCHANGED <<appended, pending, registryVars>>,
           count' \in [gaps : Nat, faults : Nat, vague : Nat, crashes : Nat]
    PROVE  TInv'
<1>1. /\ pc'[p] = "idle" /\ batch'[p] = {} /\ tries'[p] = 0 /\ reply'[p] = NoReply
      /\ acking'[p] = {} /\ missed'[p] = FALSE
  BY DEF Leave, Goto, TInv, ICounts, IInv, IType, Function
<1>2. \A q \in Procs \ {p} :
          /\ pc'[q] = pc[q] /\ batch'[q] = batch[q] /\ tries'[q] = tries[q]
          /\ reply'[q] = reply[q] /\ acking'[q] = acking[q] /\ missed'[q] = missed[q]
  BY DEF Leave, Goto, TInv, ICounts, IInv, IType, Function
<1>3. \A m \in wire' : /\ m.to # Nobody => m \in wire /\ m.to # p
                       /\ m.batch # {} /\ m.batch \subseteq appended
  BY UploadConstants DEF Abandoned, TInv, TypeOK, IInv, IType, IWire
<1>4. \A m \in wire' : /\ m.batch # {} /\ m.batch \subseteq appended'
                       /\ m.to # Nobody => pc'[m.to] = "wait" /\ m.batch = batch'[m.to]
  BY <1>2, <1>3 DEF IInv, IWire
<1>5. pc' \in [Procs -> {"idle", "read", "wait", "ack"}]
  BY DEF Leave, Goto, TInv, TypeOK
<1>6. ASSUME NEW q \in Procs
      PROVE  /\ acking'[q] \subseteq batch'[q]
             /\ tries'[q] \in 0..MaxTries
             /\ reply'[q] \in Answer \cup {NoReply}
             /\ pc'[q] = "idle" => batch'[q] = {}
             /\ pc'[q] # "ack" => acking'[q] = {} /\ ~missed'[q]
  <2>1. CASE q = p
    BY <1>1, <2>1, UploadConstants
  <2>2. CASE q # p
    BY <1>2, <2>2 DEF TInv, TypeOK
  <2>3. QED
    BY <2>1, <2>2
<1>7. TypeOK'
  BY <1>4, <1>5, <1>6 DEF TInv, TypeOK, registryVars
<1>8. IAppended'
  BY DEF TInv, IAppended
<1>9. ICounts'
  BY DEF TInv, ICounts, Function, Leave
<1>10. IAsked'
  BY <1>1, <1>2 DEF TInv, IAsked
<1>11. QED
  BY <1>7, <1>8, <1>9, <1>10 DEF TInv

LEMMA AppendTypes ==
    ASSUME IInv, TInv, NEW p \in Procs, NEW a \in Attempts, Append(p, a)
    PROVE  TInv'
<1>1. PICK skip \in 0..1 :
          /\ count' = [count EXCEPT !.gaps = @ + skip]
          /\ appended' = appended \cup {[attempt |-> a, seq |-> NextSeq(a) + skip]}
          /\ pending' = pending \cup {[attempt |-> a, seq |-> NextSeq(a) + skip]}
  BY DEF Append
<1>2. NextSeq(a) \in Nat \ {0} /\ \A r \in appended : r.attempt = a => r.seq < NextSeq(a)
  BY Newest DEF TInv
<1>3. PICK n \in Nat : n = NextSeq(a) + skip
  BY <1>2
<1>4. n # 0 /\ \A r \in appended : r.attempt = a => r.seq <= n
  BY <1>2, <1>3 DEF TInv, IAppended, Receipt
<1>5. appended' = appended \cup {[attempt |-> a, seq |-> n]}
  BY <1>1, <1>3
<1>6. IAppended'
  <2>1. appended' \subseteq Receipt
    BY <1>4, <1>5 DEF TInv, IAppended, Receipt
  <2>2. IsFiniteSet(appended')
    BY <1>5, FS_AddElement DEF TInv, IAppended
  <2>3. ASSUME NEW b \in Attempts
        PROVE  \E k \in Nat : \A r \in appended' : r.attempt = b => r.seq <= k
    <3>1. CASE b = a
      BY <1>3, <1>4, <1>5, <3>1
    <3>2. CASE b # a
      <4>1. PICK k \in Nat : \A r \in appended : r.attempt = b => r.seq <= k
        BY DEF TInv, IAppended
      <4>2. \A r \in appended' : r.attempt = b => r.seq <= k
        BY <1>5, <3>2, <4>1
      <4>3. QED
        BY <4>2
    <3>3. QED
      BY <3>1, <3>2
  <2>4. QED
    BY <2>1, <2>2, <2>3 DEF IAppended
<1>7. TypeOK'
  <2>1. /\ pending' \subseteq appended' /\ accepted' \subseteq appended'
        /\ appended' \subseteq Receipt
    BY <1>1, <1>6 DEF Append, TInv, TypeOK, IAppended, registryVars
  <2>2. \A m \in wire : m.batch \subseteq appended'
    BY <1>5 DEF TInv, TypeOK
  <2>3. QED
    BY <2>1, <2>2 DEF Append, TInv, TypeOK, registryVars, procVars
<1>8. ICounts' /\ IAsked'
  BY <1>1 DEF Append, TInv, ICounts, Function, IAsked, procVars
<1>9. QED
  BY <1>6, <1>7, <1>8 DEF TInv

LEMMA SendTypes ==
    ASSUME IInv, TInv, NEW p \in Procs, Send(p)
    PROVE  TInv'
<1>1. Oldest(p) # {} /\ Oldest(p) \subseteq appended
  BY SomethingIsSent DEF Send, TInv, TypeOK, Oldest
<1>2. /\ pc[p] = "read" /\ pc'[p] = "wait" /\ batch'[p] = Oldest(p)
      /\ tries'[p] = 1
      /\ \A q \in Procs \ {p} :
            pc'[q] = pc[q] /\ batch'[q] = batch[q] /\ tries'[q] = tries[q]
  BY DEF Send, Goto, TInv, ICounts, IInv, IType, Function
<1>3. wire' = wire \cup {[to |-> p, batch |-> Oldest(p)]}
  BY <1>2 DEF Send
<1>4. \A m \in wire : m.to # p
  BY <1>2, UploadConstants DEF IInv, IWire
<1>5. acking[p] = {} /\ ~missed[p] /\ reply[p] = NoReply
  BY <1>2 DEF TInv, TypeOK, IInv, IReply
<1>6. \A m \in wire' : /\ m.batch # {} /\ m.batch \subseteq appended'
                       /\ m.to # Nobody => pc'[m.to] = "wait" /\ m.batch = batch'[m.to]
  BY <1>1, <1>2, <1>3, <1>4 DEF Send, TInv, TypeOK, IInv, IWire
<1>7. ASSUME NEW q \in Procs
      PROVE  /\ acking'[q] \subseteq batch'[q]
             /\ tries'[q] \in 0..MaxTries
             /\ reply'[q] \in Answer \cup {NoReply}
             /\ pc'[q] = "idle" => batch'[q] = {}
             /\ pc'[q] # "ack" => acking'[q] = {} /\ ~missed'[q]
  <2>1. CASE q = p
    BY <1>2, <1>5, <2>1, UploadConstants DEF Send
  <2>2. CASE q # p
    BY <1>2, <2>2 DEF Send, TInv, TypeOK
  <2>3. QED
    BY <2>1, <2>2
<1>8. pc' \in [Procs -> {"idle", "read", "wait", "ack"}]
  BY DEF Send, Goto, TInv, TypeOK
<1>9. TypeOK'
  BY <1>6, <1>7, <1>8 DEF Send, TInv, TypeOK, registryVars
<1>10. IAppended' /\ ICounts'
  BY DEF Send, TInv, IAppended, ICounts, Function
<1>11. IAsked'
  BY <1>1, <1>2, <1>5 DEF Send, TInv, IAsked
<1>12. QED
  BY <1>9, <1>10, <1>11 DEF TInv

LEMMA RetryTypes ==
    ASSUME IInv, TInv, NEW p \in Procs, Retry(p)
    PROVE  TInv'
<1>1. PICK w \in Abandoned(p) : wire' = w \cup {[to |-> p, batch |-> batch[p]]}
  BY DEF Retry
<1>2. \A m \in w : /\ m.batch # {} /\ m.batch \subseteq appended
                   /\ m.to # Nobody => m \in wire /\ m.to # p
  BY UploadConstants DEF Abandoned, IInv, IType, TInv, TypeOK
<1>3. pc[p] = "wait" /\ batch[p] # {} /\ batch[p] \subseteq appended
  BY DEF Retry, TInv, IAsked, IInv, IType
<1>4. \A m \in wire' : /\ m.batch # {} /\ m.batch \subseteq appended'
                       /\ m.to # Nobody => pc'[m.to] = "wait" /\ m.batch = batch'[m.to]
  BY <1>1, <1>2, <1>3 DEF Retry, TInv, TypeOK, IInv, IWire
<1>5. tries'[p] \in 0..MaxTries /\ reply'[p] = NoReply
      /\ \A q \in Procs \ {p} : tries'[q] = tries[q] /\ reply'[q] = reply[q]
  BY UploadConstants DEF Retry, TriesLeft, TInv, TypeOK, ICounts, IInv, IType, Function
<1>6. TypeOK'
  BY <1>4, <1>5 DEF Retry, TInv, TypeOK, registryVars
<1>7. IAppended' /\ ICounts'
  BY DEF Retry, Occurs, TInv, IAppended, ICounts, Function
<1>8. IAsked'
  BY <1>5 DEF Retry, TInv, IAsked
<1>9. QED
  BY <1>6, <1>7, <1>8 DEF TInv

LEMMA ReceiveTypes ==
    ASSUME IInv, TInv, NEW p \in Procs, Receive(p)
    PROVE  TInv'
<1>1. pc[p] = "wait" /\ Retirable(p) \subseteq batch[p] /\ \A m \in wire : m.to # p
  BY DEF Receive, Retirable, TInv, IAsked, IInv, IReply
<1>2. /\ acking'[p] = Retirable(p) /\ reply'[p] = NoReply /\ pc'[p] = "ack"
      /\ \A q \in Procs \ {p} :
            acking'[q] = acking[q] /\ reply'[q] = reply[q] /\ pc'[q] = pc[q]
  BY DEF Receive, Goto, IInv, IType, Function
<1>3. \A m \in wire' : /\ m.batch # {} /\ m.batch \subseteq appended'
                       /\ m.to # Nobody => pc'[m.to] = "wait" /\ m.batch = batch'[m.to]
  BY <1>1, <1>2 DEF Receive, TInv, TypeOK, IInv, IWire
<1>4. pc' \in [Procs -> {"idle", "read", "wait", "ack"}]
  BY DEF Receive, Goto, TInv, TypeOK
<1>5. TypeOK'
  BY <1>1, <1>2, <1>3, <1>4 DEF Receive, TInv, TypeOK, registryVars
<1>6. IAppended' /\ ICounts'
  BY DEF Receive, TInv, IAppended, ICounts, Function
<1>7. IAsked'
  BY <1>2 DEF Receive, TInv, IAsked
<1>8. QED
  BY <1>5, <1>6, <1>7 DEF TInv

LEMMA AcknowledgeTypes ==
    ASSUME IInv, TInv, NEW p \in Procs, NEW r \in acking[p], Acknowledge(p, r)
    PROVE  TInv'
<1>1. pc[p] = "ack"
  BY DEF Acknowledge
<1>2. /\ acking'[p] = acking[p] \ {r}
      /\ \A q \in Procs \ {p} : acking'[q] = acking[q] /\ missed'[q] = missed[q]
  BY DEF Acknowledge, TInv, ICounts, IInv, IType, Function
<1>3. TypeOK'
  BY <1>1, <1>2 DEF Acknowledge, TInv, TypeOK, registryVars
<1>4. IAppended' /\ ICounts' /\ IAsked'
  BY DEF Acknowledge, TInv, IAppended, ICounts, IAsked, Function
<1>5. QED
  BY <1>3, <1>4 DEF TInv

(* The registry answers with receipts of the batch. *)
LEMMA AnswerTypes ==
    ASSUME TInv, NEW B \in SUBSET appended, NEW answer \in Answers(B)
    PROVE  /\ answer \in Answer
           /\ answer.outcome = "stale_attempt" => answer.rejected \subseteq B
<1> DEFINE failing == StaleIn(B) \cup RefusedIn(B) \cup Gaps(B)
<1> DEFINE first == First(failing)
<1>1. failing \in SUBSET Receipt /\ StaleIn(B) \subseteq B
  BY DEF StaleIn, RefusedIn, Gaps, TInv, TypeOK
<1>2. failing # {} => first \in Receipt
  BY <1>1, FirstExists
<1>3. CASE failing = {}
  <2>1. answer = [outcome |-> "accepted", rejected |-> {}]
    BY <1>3 DEF Answers
  <2> QED
    BY <2>1 DEF Answer
<1>4. CASE failing # {} /\ first \in StaleIn(B)
  <2>1. answer \in [outcome : {"stale_attempt"}, rejected : SUBSET StaleIn(B)]
    BY <1>4 DEF Answers
  <2>2. SUBSET StaleIn(B) \subseteq SUBSET Receipt
    BY <1>1
  <2> QED
    BY <1>1, <2>1, <2>2 DEF Answer
<1>5. CASE failing # {} /\ first \notin StaleIn(B)
  <2>1. PICK O : O = (IF first \in RefusedIn(B) THEN Refusals ELSE {"sequence_gap"})
    OBVIOUS
  <2>2. answer \in [outcome : O, rejected : {{first}}]
    BY <1>5, <2>1 DEF Answers
  <2>3. O \subseteq Refusals \cup {"sequence_gap"}
    BY <2>1
  <2>4. answer \in Answer
    BY <1>2, <1>5, <2>2, <2>3 DEF Answer
  <2>5. answer.outcome # "stale_attempt"
    BY <2>2, <2>3 DEF Refusals
  <2> QED
    BY <2>4, <2>5
<1>6. QED
  BY <1>3, <1>4, <1>5

LEMMA HandleTypes ==
    ASSUME IInv, TInv, NEW m \in wire, Handle(m)
    PROVE  TInv'
<1>1. PICK answer \in Answers(m.batch) :
          /\ count' = [count EXCEPT !.vague =
                         IF answer.outcome = "stale_attempt" /\ answer.rejected = {}
                         THEN @ + 1 ELSE @]
          /\ accepted' = IF answer.outcome = "accepted"
                         THEN accepted \cup m.batch ELSE accepted
          /\ reply' = IF m.to = Nobody THEN reply
                      ELSE [reply EXCEPT ![m.to] = answer]
  BY DEF Handle
<1>2. /\ answer \in Answer
      /\ answer.outcome = "stale_attempt" => answer.rejected \subseteq m.batch
  BY AnswerTypes DEF TInv, TypeOK
<1>3. m.to # Nobody => m.to \in Procs /\ m.batch = batch[m.to]
  BY DEF IInv, IWire
<1>4. ASSUME NEW q \in Procs
      PROVE  \/ reply'[q] = reply[q]
             \/ reply'[q] = answer /\ m.to = q /\ m.to # Nobody
  <2>1. CASE m.to = Nobody
    BY <1>1, <2>1
  <2>2. CASE m.to # Nobody
    <3>1. reply = [r \in Procs |-> reply[r]]
      BY DEF IInv, IType, Function
    <3>2. reply' = [reply EXCEPT ![m.to] = answer]
      BY <1>1, <2>2
    <3>3. QED
      BY <2>2, <3>1, <3>2
  <2>3. QED
    BY <2>1, <2>2
<1>5. accepted' \subseteq appended
  BY <1>1 DEF TInv, TypeOK
<1>a. refused' \subseteq appended' \ accepted'
  <2>1. answer.outcome = "accepted" => RefusedIn(m.batch) = {}
    BY <1>1, AnswerOutcomes
  <2>2. UNCHANGED <<refused, appended>>
    BY DEF Handle
  <2> QED
    BY <1>1, <2>1, <2>2 DEF RefusedIn, TInv, TypeOK
<1>6. TypeOK'
  BY <1>2, <1>4, <1>5, <1>a DEF Handle, TInv, TypeOK
<1>7. IAppended' /\ ICounts'
  BY <1>1 DEF Handle, TInv, IAppended, ICounts, Function
<1>8. IAsked'
  BY <1>2, <1>3, <1>4 DEF Handle, TInv, IAsked
<1>9. QED
  BY <1>6, <1>7, <1>8 DEF TInv

LEMMA TypesStep ==
    ASSUME IInv, TInv, [Next]_vars
    PROVE  TInv'
<1>1. CASE UNCHANGED vars
  BY <1>1 DEF vars, registryVars, procVars, TInv, TypeOK, IAppended, ICounts, Function, IAsked
<1>2. CASE \E a \in Attempts : Supersede(a)
  BY <1>2 DEF Supersede, procVars, TInv, TypeOK, IAppended, ICounts, Function, IAsked
<1>3. CASE \E a \in Attempts : \E p \in Procs : Append(p, a)
  BY <1>3, AppendTypes
<1>4. CASE \E m \in wire : Handle(m)
  BY <1>4, HandleTypes
<1>5. ASSUME NEW p \in Procs,
             Step(p) \/ ReadFails(p) \/ Retry(p) \/ GiveUp(p) \/ Crash(p)
      PROVE  TInv'
  <2>1. CASE Start(p)
    <3>1. \A m \in wire : m.to # p
      BY <2>1, UploadConstants DEF Start, IInv, IWire
    <3>2. TypeOK'
      BY <2>1, <3>1 DEF Start, Goto, TInv, TypeOK, registryVars
    <3>3. IAppended' /\ ICounts' /\ IAsked'
      BY <2>1 DEF Start, Goto, TInv, TypeOK, IAppended, ICounts, Function, IAsked
    <3>4. QED
      BY <3>2, <3>3 DEF TInv
  <2>2. CASE Send(p)
    BY <2>2, SendTypes
  <2>3. CASE Done(p) \/ ReadFails(p)
    BY <2>3, LeaveTypes DEF Done, ReadFails, TInv, ICounts
  <2>4. CASE Receive(p)
    BY <2>4, ReceiveTypes
  <2>5. CASE ReceiveRefusal(p)
    <3>1. \A m \in wire : m.to # p
      BY <2>5 DEF ReceiveRefusal, IInv, IReply
    <3>2. wire' \in Abandoned(p)
      BY <2>5, <3>1 DEF ReceiveRefusal, Abandoned
    <3>3. QED
      BY <2>5, <3>2, LeaveTypes DEF ReceiveRefusal, TInv, ICounts
  <2>6. CASE \E r \in acking[p] : Acknowledge(p, r)
    BY <2>6, AcknowledgeTypes
  <2>7. CASE Acknowledged(p)
    <3>1. CASE Leave(p)
      BY <2>7, <3>1, LeaveTypes DEF Acknowledged, TInv, ICounts
    <3>2. CASE ~Leave(p)
      <4>1. /\ pc[p] = "ack" /\ acking[p] = {} /\ missed[p] = FALSE /\ Goto(p, "read")
            /\ UNCHANGED <<batch, tries, reply, acking, missed>>
            /\ UNCHANGED <<appended, pending, registryVars, wire, count>>
        BY <2>7, <3>2 DEF Acknowledged, TInv, ICounts, Function
      <4>2. \A m \in wire : m.to # p
        BY <4>1, UploadConstants DEF IInv, IWire
      <4>3. TypeOK'
        BY <4>1, <4>2 DEF Goto, TInv, TypeOK, registryVars
      <4>4. IAppended' /\ ICounts' /\ IAsked'
        BY <4>1 DEF Goto, TInv, TypeOK, IAppended, ICounts, Function, IAsked
      <4>5. QED
        BY <4>3, <4>4 DEF TInv
    <3>3. QED
      BY <3>1, <3>2
  <2>8. CASE Retry(p)
    BY <2>8, RetryTypes
  <2>9. CASE GiveUp(p) \/ Crash(p)
    <3>1. count' \in [gaps : Nat, faults : Nat, vague : Nat, crashes : Nat]
      BY <2>9 DEF GiveUp, Crash, Occurs, TInv, ICounts
    <3>2. QED
      BY <2>9, <3>1, LeaveTypes DEF GiveUp, Crash
  <2>10. QED
    BY <1>5, <2>1, <2>2, <2>3, <2>4, <2>5, <2>6, <2>7, <2>8, <2>9 DEF Step
<1>6. CASE \E r \in appended : Refuse(r)
  BY <1>6 DEF Refuse, procVars, TInv, TypeOK, IAppended, ICounts, Function, IAsked
<1>7. QED
  BY <1>1, <1>2, <1>3, <1>4, <1>5, <1>6 DEF Next

LEMMA TypesInvariance == Spec => [](IInv /\ TInv)
<1>1. Init => TInv
  BY InitTypes
<1>2. IInv /\ TInv /\ [Next]_vars => TInv'
  BY TypesStep
<1>3. QED
  BY <1>1, <1>2, Invariance, PTL DEF Spec

(* The variables hold what their comments say, and only a process that waits *)
(* has a request on the wire, at any number of processes and of receipts.   *)
THEOREM TypeCorrect == Spec => []TypeOK
<1>1. TInv => TypeOK
  BY DEF TInv
<1>2. QED
  BY <1>1, TypesInvariance, PTL


(* A batch has no gap with regard to what the registry has taken. *)
NoSkip(B) == \A r \in B : r.attempt \in stale \/ ~AfterGap(r, accepted \cup B)

(* While nothing was skipped, every receipt follows one that was appended,  *)
(* and so does every receipt of a batch that is on its way or may be sent   *)
(* again: the one before it is in the batch or has been taken.              *)
IGapless ==
    count.gaps = 0 =>
        /\ \A r \in appended : ~AfterGap(r, appended)
        /\ \A m \in wire : NoSkip(m.batch)
        /\ \A p \in Procs : \A B \in {batch[p]} : pc[p] = "wait" => NoSkip(B)

(* What the registry knows only grows. *)
LEMMA NoSkipStays ==
    ASSUME NEW B, NoSkip(B), accepted \subseteq accepted', stale \subseteq stale'
    PROVE  NoSkip(B)'
  BY DEF NoSkip, AfterGap

(* The oldest receipts of a spool without gaps have none. *)
LEMMA OldestHasNoGap ==
    ASSUME IInv, TInv, NEW p \in Procs, \A r \in appended : ~AfterGap(r, appended)
    PROVE  NoSkip(Oldest(p))
<1>1. SUFFICES ASSUME NEW r \in Oldest(p), r.attempt \notin stale, r.seq > 1,
                      NEW q, q = [r EXCEPT !.seq = @ - 1]
               PROVE  q \in accepted \cup Oldest(p)
  BY DEF NoSkip, AfterGap
<1>2. r \in pending /\ r \in appended /\ r \in Receipt
  BY DEF Oldest, TInv, TypeOK
<1>3. q \in appended
  BY <1>1, <1>2 DEF AfterGap
<1>4. q.attempt = r.attempt /\ q.seq = r.seq - 1 /\ r.seq \in Nat /\ r.attempt \in Nat
  BY <1>1, <1>2, UploadConstants DEF Receipt
<1>5. CASE q \notin pending
  BY <1>1, <1>3, <1>4, <1>5 DEF IInv, RetiredIsSettled
<1>6. CASE q \in pending
  <2> DEFINE Earlier(x) == {s \in pending : Before(s, x)}
  <2>1. \A s \in pending : s.attempt \in Nat /\ s.seq \in Nat
    <3>1. \A s \in pending : s \in Receipt
      BY DEF TInv, TypeOK
    <3>2. QED
      BY <3>1, UploadConstants DEF Receipt
  <2>2. \A s \in pending : Before(s, q) => Before(s, r)
    BY <1>4, <2>1 DEF Before
  <2>3. PICK S, T : S = Earlier(q) /\ T = Earlier(r)
    OBVIOUS
  <2>4. S \subseteq T /\ T \subseteq appended
    BY <2>2, <2>3 DEF TInv, TypeOK
  <2>5. IsFiniteSet(T)
    BY <2>4, FS_Subset DEF TInv, IAppended
  <2>6. Cardinality(S) <= Cardinality(T)
    BY <2>4, <2>5, FS_Subset
  <2>7. Cardinality(S) \in Nat /\ Cardinality(T) \in Nat
    BY <2>4, <2>5, FS_Subset, FS_CardinalityType
  <2>8. Cardinality(T) < BatchLimit
    BY <2>3 DEF Oldest
  <2>9. Cardinality(S) < BatchLimit
    BY <2>6, <2>7, <2>8, UploadConstants
  <2>10. QED
    BY <1>6, <2>3, <2>9 DEF Oldest
<1>7. QED
  BY <1>5, <1>6

LEMMA InitGapless == Init => IGapless
  BY DEF Init, IGapless

LEMMA AppendGapless ==
    ASSUME IInv, TInv, IGapless, NEW p \in Procs, NEW a \in Attempts, Append(p, a)
    PROVE  IGapless'
<1>1. PICK skip \in 0..1 :
          /\ count' = [count EXCEPT !.gaps = @ + skip]
          /\ appended' = appended \cup {[attempt |-> a, seq |-> NextSeq(a) + skip]}
  BY DEF Append
<1>2. SUFFICES ASSUME count'.gaps = 0 PROVE IGapless'
  BY DEF IGapless
<1>3. count.gaps = 0 /\ skip = 0
  BY <1>1, <1>2 DEF TInv, ICounts
<1>4. PICK n \in Nat : n = NextSeq(a)
  BY Newest DEF TInv
<1>5. n > 1 => \E r \in appended : r.attempt = a /\ r.seq = n - 1
  BY <1>4, Newest DEF TInv
<1>6. PICK new \in Receipt : new = [attempt |-> a, seq |-> n]
  BY <1>4, Newest DEF TInv, Receipt
<1>7. appended' = appended \cup {new}
  BY <1>1, <1>3, <1>4, <1>6
<1>8. new.seq > 1 => [new EXCEPT !.seq = @ - 1] \in appended
  <2>1. SUFFICES ASSUME n > 1 PROVE [new EXCEPT !.seq = @ - 1] \in appended
    BY <1>6
  <2>2. PICK r \in appended : r.attempt = a /\ r.seq = n - 1
    BY <1>5, <2>1
  <2>3. r \in Receipt
    BY DEF TInv, TypeOK
  <2>4. r = [new EXCEPT !.seq = @ - 1]
    BY <1>6, <2>2, <2>3 DEF Receipt
  <2>5. QED
    BY <2>4
<1>9. \A r \in appended' : ~AfterGap(r, appended')
  BY <1>3, <1>7, <1>8 DEF IGapless, AfterGap
<1>10. UNCHANGED <<accepted, stale, wire, pc, batch>>
  BY DEF Append, registryVars, procVars
<1>11. QED
  BY <1>3, <1>9, <1>10 DEF IGapless, NoSkip, AfterGap

(* Only the batch of a process that has just read the spool is new. *)
LEMMA BatchesGapless ==
    ASSUME IGapless, UNCHANGED appended,
           count'.gaps = 0 => count.gaps = 0,
           accepted \subseteq accepted', stale \subseteq stale',
           \A m \in wire' : \/ \E k \in wire : m.batch = k.batch
                            \/ \E p \in Procs : pc[p] = "wait" /\ m.batch = batch[p],
           \A p \in Procs : pc'[p] = "wait" => pc[p] = "wait" /\ batch'[p] = batch[p]
    PROVE  IGapless'
<1>1. SUFFICES ASSUME count'.gaps = 0 PROVE IGapless'
  BY DEF IGapless
<1>2. \A r \in appended' : ~AfterGap(r, appended')
  BY <1>1 DEF IGapless, AfterGap
<1>3. ASSUME NEW m \in wire'
      PROVE  NoSkip(m.batch)'
  <2>1. PICK B : B = m.batch
    OBVIOUS
  <2>2. NoSkip(B)
    BY <1>1, <2>1 DEF IGapless
  <2>3. NoSkip(B)'
    BY <2>2, NoSkipStays
  <2>4. QED
    BY <2>1, <2>3
<1>4. ASSUME NEW p \in Procs, pc'[p] = "wait", NEW B \in {batch'[p]}
      PROVE  NoSkip(B)'
  <2>1. pc[p] = "wait" /\ batch'[p] = batch[p]
    BY <1>4
  <2>2. PICK C : C = batch[p]
    OBVIOUS
  <2>3. NoSkip(C)
    BY <1>1, <2>1, <2>2 DEF IGapless
  <2>4. NoSkip(C)'
    BY <2>3, NoSkipStays
  <2>5. QED
    BY <2>1, <2>2, <2>4 DEF NoSkip, AfterGap
<1>5. QED
  BY <1>2, <1>3, <1>4 DEF IGapless

LEMMA SendGapless ==
    ASSUME IInv, TInv, IGapless, NEW p \in Procs, Send(p)
    PROVE  IGapless'
<1>1. SUFFICES ASSUME count'.gaps = 0 PROVE IGapless'
  BY DEF IGapless
<1>2. count.gaps = 0 /\ UNCHANGED <<appended, accepted, stale>>
  BY <1>1 DEF Send, registryVars
<1>3. PICK B : B = Oldest(p)
  OBVIOUS
<1>4. NoSkip(B)
  BY <1>2, <1>3, OldestHasNoGap DEF IGapless
<1>5. NoSkip(B)'
  BY <1>2, <1>4, NoSkipStays
<1>6. /\ batch'[p] = B /\ wire' = wire \cup {[to |-> p, batch |-> B]}
      /\ \A q \in Procs \ {p} : pc'[q] = pc[q] /\ batch'[q] = batch[q]
  BY <1>3 DEF Send, Goto, IInv, IType, Function
<1>7. ASSUME NEW m \in wire' PROVE NoSkip(m.batch)'
  <2>1. CASE m \in wire
    <3>1. PICK C : C = m.batch
      OBVIOUS
    <3>2. NoSkip(C)'
      BY <1>2, <2>1, <3>1, NoSkipStays DEF IGapless
    <3>3. QED
      BY <3>1, <3>2
  <2>2. CASE m.batch = B
    BY <1>5, <2>2
  <2>3. QED
    BY <1>6, <2>1, <2>2
<1>8. ASSUME NEW q \in Procs, pc'[q] = "wait", NEW C \in {batch'[q]} PROVE NoSkip(C)'
  <2>1. CASE q = p
    BY <1>5, <1>6, <1>8, <2>1
  <2>2. CASE q # p
    <3>1. PICK D : D = batch[q]
      OBVIOUS
    <3>2. NoSkip(D)'
      BY <1>2, <1>6, <1>8, <2>2, <3>1, NoSkipStays DEF IGapless
    <3>3. QED
      BY <1>6, <1>8, <2>2, <3>1, <3>2 DEF NoSkip, AfterGap
  <2>3. QED
    BY <2>1, <2>2
<1>9. \A r \in appended' : ~AfterGap(r, appended')
  BY <1>2 DEF IGapless, AfterGap
<1>10. QED
  BY <1>7, <1>8, <1>9 DEF IGapless

LEMMA GaplessStep ==
    ASSUME IInv, TInv, IGapless, [Next]_vars
    PROVE  IGapless'
<1>1. CASE UNCHANGED vars
  BY <1>1, BatchesGapless DEF vars, registryVars, procVars
<1>2. CASE \E a \in Attempts : Supersede(a)
  BY <1>2, BatchesGapless DEF Supersede, procVars
<1>3. CASE \E a \in Attempts : \E p \in Procs : Append(p, a)
  BY <1>3, AppendGapless
<1>4. CASE \E m \in wire : Handle(m)
  <2>1. PICK m \in wire : Handle(m)
    BY <1>4
  <2>2. accepted \subseteq accepted' /\ count'.gaps = count.gaps
    BY <2>1 DEF Handle, TInv, ICounts
  <2>3. QED
    BY <2>1, <2>2, BatchesGapless DEF Handle
<1>5. ASSUME NEW p \in Procs,
             Step(p) \/ ReadFails(p) \/ Retry(p) \/ GiveUp(p) \/ Crash(p)
      PROVE  IGapless'
  <2>1. CASE Send(p)
    BY <2>1, SendGapless
  <2>2. CASE ~Send(p)
    <3>1. UNCHANGED <<appended, accepted, stale>> /\ count'.gaps = count.gaps
      BY <1>5, <2>2 DEF Step, Start, Done, Receive, ReceiveRefusal, Acknowledge,
         Acknowledged, ReadFails, Retry, GiveUp, Crash, Occurs, TInv, ICounts, registryVars
    <3>2. \A m \in wire' : \/ \E k \in wire : m.batch = k.batch
                           \/ pc[p] = "wait" /\ m.batch = batch[p]
      <4>1. \A W \in Abandoned(p) : \A m \in W : \E k \in wire : m.batch = k.batch
        BY DEF Abandoned, IInv, IType
      <4>2. QED
        BY <1>5, <2>2, <4>1 DEF Step, Start, Done, Receive, ReceiveRefusal, Acknowledge,
           Acknowledged, ReadFails, Retry, GiveUp, Crash
    <3>3. \A q \in Procs : pc'[q] = "wait" => pc[q] = "wait" /\ batch'[q] = batch[q]
      BY <1>5, <2>2 DEF Step, Start, Done, Receive, ReceiveRefusal, Acknowledge,
         Acknowledged, ReadFails, Retry, GiveUp, Crash, Goto, Leave, IInv, IType, Function
    <3>4. QED
      BY <3>1, <3>2, <3>3, BatchesGapless
  <2>3. QED
    BY <2>1, <2>2
<1>6. CASE \E r \in appended : Refuse(r)
  BY <1>6, BatchesGapless DEF Refuse, procVars
<1>7. QED
  BY <1>1, <1>2, <1>3, <1>4, <1>5, <1>6 DEF Next

(* While the spool has no gap, no batch on the wire has one that the registry *)
(* would refuse, at any number of processes that upload at the same time.   *)
THEOREM GaplessBatches == Spec => []BatchesLeaveNoGap
<1>1. IGapless => BatchesLeaveNoGap
  BY DEF IGapless, NoSkip, BatchesLeaveNoGap, Gaps
<1>2. Init => IGapless
  BY InitGapless
<1>3. IInv /\ TInv /\ IGapless /\ [Next]_vars => IGapless'
  BY GaplessStep
<1>4. QED
  BY <1>1, <1>2, <1>3, TypesInvariance, PTL DEF Spec

OneProcess == \A p, q \in Procs : p = q

(* What the only process has sent or has to retire is in the spool. *)
IPresent ==
    \A p \in Procs : /\ pc[p] = "wait" => batch[p] \subseteq pending
                     /\ acking[p] \subseteq pending

LEMMA PresentStep ==
    ASSUME OneProcess, IInv, TInv, IPresent, [Next]_vars
    PROVE  IPresent'
<1>1. CASE UNCHANGED vars
  BY <1>1 DEF vars, procVars, IPresent
<1>2. CASE \E a \in Attempts : Supersede(a) \/ \E p \in Procs : Append(p, a)
  BY <1>2 DEF Supersede, Append, procVars, IPresent
<1>3. CASE \E m \in wire : Handle(m)
  BY <1>3 DEF Handle, IPresent
<1>4. ASSUME NEW p \in Procs,
             Step(p) \/ ReadFails(p) \/ Retry(p) \/ GiveUp(p) \/ Crash(p)
      PROVE  IPresent'
  <2>1. /\ pc[p] = "wait" => batch[p] \subseteq pending
        /\ acking[p] \subseteq pending
    BY DEF IPresent
  <2>2. \A q \in Procs : q = p
    BY DEF OneProcess
  <2>3. CASE Leave(p)
    <3>1. pc'[p] = "idle" /\ acking'[p] = {}
      BY <2>3 DEF Leave, Goto, IInv, IType, Function
    <3>2. QED
      BY <2>2, <3>1 DEF IPresent
  <2>4. CASE Start(p) \/ (Acknowledged(p) /\ ~Leave(p))
    <3>1. pc'[p] = "read" /\ acking' = acking /\ pending' = pending
      BY <2>4 DEF Start, Acknowledged, Goto, IInv, IType, Function
    <3>2. QED
      BY <2>1, <2>2, <3>1 DEF IPresent
  <2>5. CASE Send(p)
    <3>1. batch'[p] = Oldest(p) /\ acking' = acking /\ pending' = pending
      BY <2>5 DEF Send, IInv, IType, Function
    <3>2. QED
      BY <2>1, <2>2, <3>1 DEF Oldest, IPresent
  <2>6. CASE Receive(p)
    <3>1. Retirable(p) \subseteq batch[p] /\ pc[p] = "wait"
      BY <2>6 DEF Receive, Retirable, TInv, IAsked, IInv, IReply
    <3>2. pc'[p] = "ack" /\ acking'[p] = Retirable(p) /\ pending' = pending
      BY <2>6 DEF Receive, Goto, IInv, IType, Function
    <3>3. QED
      BY <2>1, <2>2, <3>1, <3>2 DEF IPresent
  <2>7. CASE \E r \in acking[p] : Acknowledge(p, r)
    <3>1. PICK r \in acking[p] : Acknowledge(p, r)
      BY <2>7
    <3>2. pc'[p] = "ack" /\ acking'[p] = acking[p] \ {r} /\ pending' = pending \ {r}
      BY <3>1 DEF Acknowledge, IInv, IType, Function
    <3>3. QED
      BY <2>1, <2>2, <3>2 DEF IPresent
  <2>8. CASE Retry(p)
    BY <2>1, <2>8 DEF Retry, IPresent
  <2>9. QED
    BY <1>4, <2>3, <2>4, <2>5, <2>6, <2>7, <2>8
       DEF Step, Done, ReadFails, ReceiveRefusal, GiveUp, Crash
<1>5. CASE \E r \in appended : Refuse(r)
  BY <1>5 DEF Refuse, procVars, IPresent
<1>6. QED
  BY <1>1, <1>2, <1>3, <1>4, <1>5 DEF Next

(* One process never finds a receipt gone that an answer tells it to retire, *)
(* whatever was lost, repeated or late and wherever it was killed before.   *)
THEOREM PresentWhenRetired == OneProcess /\ Spec => []RetiresWhatIsPending
<1> SUFFICES ASSUME OneProcess PROVE Spec => []RetiresWhatIsPending
  OBVIOUS
<1>1. Init => IPresent
  BY DEF Init, IPresent
<1>2. IInv /\ TInv /\ IPresent /\ [Next]_vars => IPresent'
  BY PresentStep
<1>3. IPresent => RetiresWhatIsPending
  BY DEF IPresent, RetiresWhatIsPending
<1>4. QED
  BY <1>1, <1>2, <1>3, TypesInvariance, PTL DEF Spec
================================================================================
