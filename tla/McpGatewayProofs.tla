--------------------------- MODULE McpGatewayProofs ---------------------------
(***************************************************************************)
(* Proofs about McpGateway: for any number of upstreams, tools, calls and   *)
(* processes, there is one process per upstream, an answer is relayed for   *)
(* the call it was computed for, what a process that was given up had       *)
(* listed is not used again, and every id in a queue was used.              *)
(***************************************************************************)
EXTENDS McpGateway, TLAPS

Ending == {"closing", "killing"}

LineType == [kind : {"result", "error", "request", "garbage", "eof"}, id : Nat, of : Nat]
RequestType == [id : Nat, method : Methods, of : Nat]

IType ==
    /\ process \in [Upstreams -> Nat]
    /\ spawnCount \in [Upstreams -> Nat]
    /\ tools \in [Upstreams -> SUBSET Tools]
    /\ indexed \in [Upstreams -> BOOLEAN]
    /\ nextId \in [Upstreams -> Nat]
    /\ alive \in [Upstreams -> SUBSET Nat]
    /\ open \in [Upstreams -> BOOLEAN]
    /\ inbox \in [Upstreams -> SUBSET RequestType]
    /\ pc \in {"idle", "serving", "stopping", "stopped"} \cup Ending \cup Methods
    /\ call \in Calls
    /\ calls \in Nat
    /\ reply \in Nat
    /\ listed \in [Upstreams -> SUBSET (Nat \X Tools)]
    /\ condemned \in [Upstreams -> SUBSET Nat]

ILines == lines \in [Upstreams -> Seq(LineType)]

ITodo ==
    /\ todo \in Seq(Upstreams)
    /\ pc \in Ending \cup Methods => todo # <<>>
    /\ pc = "stopped" => todo = <<>>

(* Which process is there, and what the control point says of it. *)
IProcess ==
    /\ \A u \in Upstreams : process[u] \in {0, spawnCount[u]} /\ alive[u] \subseteq {spawnCount[u]}
    /\ pc \in Methods => process[Head(todo)] # 0 /\ call.op # "shutdown"
    /\ pc \in Ending => process[Head(todo)] = 0
    /\ pc \in {"serving", "idle"} => call.op # "shutdown"
    /\ pc = "stopping" => call.op = "shutdown"

(* A process that the client has forgotten is gone, or being killed. *)
IForgotten ==
    \A u \in Upstreams :
        process[u] = 0 /\ alive[u] # {} => pc \in Ending /\ u = Head(todo)

(* During the shutdown, what is left is still to be gone through. *)
IStopping ==
    pc \in {"stopping", "stopped"} \/ (pc \in Ending /\ call.op = "shutdown") =>
        \A u \in Upstreams : process[u] # 0 => \E i \in 1..Len(todo) : todo[i] = u

(* The id that is awaited was given to a request of the call being served,  *)
(* and so was every answer that has it.                                     *)
IsOfThisCall(u, r) ==
    /\ r.id <= nextId[u]
    /\ pc \in Methods /\ u = Head(todo) /\ r.id = nextId[u] => r.of = calls

IInbox == \A u \in Upstreams : \A r \in inbox[u] : IsOfThisCall(u, r)

IAnswers ==
    \A u \in Upstreams : \A i \in 1..Len(lines[u]) :
        lines[u][i].kind = "result" => IsOfThisCall(u, lines[u][i])

(* Every tool in the index was listed by a process after which none was     *)
(* given up.                                                                *)
IIndex ==
    /\ \A u \in Upstreams :
          condemned[u] \subseteq 1..spawnCount[u] /\ process[u] \notin condemned[u]
    /\ \A u \in Upstreams : \A t \in tools[u] : \E g \in 1..spawnCount[u] :
          <<g, t>> \in listed[u] /\ condemned[u] \cap (g..spawnCount[u]) = {}
    /\ pc = "tools/call" => call.tool \in tools[Head(todo)]

IInv ==
    /\ IType /\ ILines /\ ITodo
    /\ IProcess /\ IForgotten /\ IStopping
    /\ IInbox /\ IAnswers /\ IIndex /\ AnswerIsForTheCall

--------------------------------------------------------------------------------
(* Sequences: what is left to go through, and the queues *)

(* A sequence that is not empty is its head and its tail. *)
LEMMA HeadTail ==
    ASSUME NEW S, NEW q \in Seq(S), q # <<>>
    PROVE  /\ Head(q) \in S /\ Head(q) = q[1] /\ Len(q) \in Nat /\ Len(q) >= 1
           /\ Tail(q) \in Seq(S) /\ Len(Tail(q)) = Len(q) - 1
           /\ \A i \in 1..Len(Tail(q)) : Tail(q)[i] = q[i + 1]
  OBVIOUS

LEMMA TodoHead ==
    ASSUME ITodo, todo # <<>>
    PROVE  Head(todo) \in Upstreams /\ Tail(todo) \in Seq(Upstreams)
  BY HeadTail DEF ITodo

(* The queues after a line is taken, and after one is added. *)
LEMMA ConsumeKeeps ==
    ASSUME ILines, NEW u \in Upstreams, lines[u] # <<>>, Consume(u)
    PROVE  /\ ILines'
           /\ \A v \in Upstreams : \A i \in 1..Len(lines'[v]) :
                 \E j \in 1..Len(lines[v]) : lines'[v][i] = lines[v][j]
           /\ Line(u) \in LineType
           /\ \E j \in 1..Len(lines[u]) : Line(u) = lines[u][j]
<1>1. /\ lines' = [lines EXCEPT ![u] = Tail(@)]
      /\ lines[u] \in Seq(LineType)
  BY DEF Consume, ILines
<1>2. ASSUME NEW i \in 1..Len(Tail(lines[u]))
      PROVE  i + 1 \in 1..Len(lines[u]) /\ Tail(lines[u])[i] = lines[u][i + 1]
  BY <1>1, <1>2, HeadTail
<1>3. QED
  BY <1>1, <1>2, HeadTail DEF Line, ILines

LEMMA AppendKeeps ==
    ASSUME ILines, NEW u \in Upstreams, NEW l \in LineType, Appended(u, l)
    PROVE  /\ ILines'
           /\ \A v \in Upstreams : \A i \in 1..Len(lines'[v]) :
                 \/ \E j \in 1..Len(lines[v]) : lines'[v][i] = lines[v][j]
                 \/ v = u /\ lines'[v][i] = l
<1>1. CASE lines' = [lines EXCEPT ![u] = Append(@, l)]
  BY <1>1 DEF ILines
<1>2. CASE lines' = lines
  BY <1>2 DEF ILines
<1>3. QED
  BY <1>1, <1>2 DEF Appended

LEMMA EmptiedKeeps ==
    ASSUME ILines, NEW u \in Upstreams, lines' = [lines EXCEPT ![u] = <<>>]
    PROVE  /\ ILines'
           /\ \A v \in Upstreams : \A i \in 1..Len(lines'[v]) :
                 \E j \in 1..Len(lines[v]) : lines'[v][i] = lines[v][j]
  BY DEF ILines

--------------------------------------------------------------------------------
(* What most steps have in common *)

(* Every line in a queue was there before. *)
NoNewLine ==
    \A v \in Upstreams : \A i \in 1..Len(lines'[v]) :
        \E j \in 1..Len(lines[v]) : lines'[v][i] = lines[v][j]

(* An id is awaited that is new, or that was awaited before. *)
IdsGrow ==
    \A v \in Upstreams :
        /\ nextId[v] \in Nat /\ nextId'[v] \in Nat /\ nextId'[v] >= nextId[v]
        /\ pc' \in Methods /\ v = Head(todo') /\ nextId'[v] = nextId[v] =>
              pc \in Methods /\ v = Head(todo) /\ calls' = calls

LEMMA ThisCallKept ==
    ASSUME IdsGrow, NEW v \in Upstreams, NEW r, r.id \in Nat, IsOfThisCall(v, r)
    PROVE  IsOfThisCall(v, r)'
  BY DEF IdsGrow, IsOfThisCall

LEMMA AnswersKept ==
    ASSUME ILines, IAnswers, IdsGrow, NoNewLine
    PROVE  IAnswers'
<1>1. ASSUME NEW v \in Upstreams, NEW i \in 1..Len(lines'[v]), lines'[v][i].kind = "result"
      PROVE  IsOfThisCall(v, lines[v][i])'
  <2>1. PICK r \in LineType : lines'[v][i] = r /\ \E j \in 1..Len(lines[v]) : lines[v][j] = r
    BY DEF NoNewLine, ILines
  <2>2. r.id \in Nat /\ IsOfThisCall(v, r)
    BY <1>1, <2>1 DEF IAnswers, LineType
  <2>3. IsOfThisCall(v, r)'
    BY <2>2, ThisCallKept
  <2>4. QED
    BY <2>1, <2>3 DEF IsOfThisCall
<1>2. QED
  BY <1>1 DEF IAnswers, IsOfThisCall

LEMMA InboxKept ==
    ASSUME IType, IInbox, IdsGrow, inbox' = inbox
    PROVE  IInbox'
  BY DEF IType, RequestType, IInbox, IdsGrow, IsOfThisCall

(* Only what the gateway serves changes, and no upstream is asked. *)
LEMMA ServingStep ==
    ASSUME IInv, UNCHANGED <<client, world, listed, condemned>>,
           pc \in {"idle", "serving"}, call' \in Calls, calls' \in Nat, reply' \in Nat,
           todo' \in Seq(Upstreams),
           \/ pc' \in {"idle", "serving"} /\ call'.op # "shutdown"
           \/ pc' = "stopping" /\ call'.op = "shutdown" /\ todo' = Order,
           reply' # 0 => reply' = calls'
    PROVE  IInv'
<1>1. IType' /\ ILines' /\ ITodo'
  BY DEF IInv, IType, ILines, ITodo, client, world, Ending, Methods
<1>2. IProcess' /\ IForgotten'
  BY DEF IInv, IProcess, IForgotten, client, world, Ending, Methods
<1>3. IStopping'
  BY GatewayConstants DEF IStopping, client, Ending, Methods
<1>4. IInbox' /\ IAnswers'
  <2>1. IdsGrow /\ NoNewLine /\ inbox' = inbox
    BY DEF IdsGrow, NoNewLine, IInv, IType, client, world, Methods
  <2>2. QED
    BY <2>1, AnswersKept, InboxKept DEF IInv
<1>5. IIndex' /\ AnswerIsForTheCall'
  BY DEF IInv, IIndex, AnswerIsForTheCall, client, Methods
<1>6. QED
  BY <1>1, <1>2, <1>3, <1>4, <1>5 DEF IInv

(* The call ends; what has been read from a queue is gone, and an id may    *)
(* have been used up.                                                       *)
LEMMA FinishStep ==
    ASSUME IInv, pc' = "idle", todo' = <<>>, call.op # "shutdown", reply' \in Nat,
           UNCHANGED <<spawnCount, tools, indexed, world, call, calls, listed, condemned>>,
           process' \in [Upstreams -> Nat],
           \A v \in Upstreams :
               process'[v] = process[v] \/ (process'[v] = 0 /\ alive[v] = {}),
           pc \notin Ending,
           nextId' \in [Upstreams -> Nat],
           \A v \in Upstreams : nextId'[v] >= nextId[v],
           ILines', NoNewLine,
           reply' # 0 => reply' = calls
    PROVE  IInv'
<1>1. IType' /\ ITodo'
  BY DEF IInv, IType, ITodo, world, Ending, Methods
<1>2. IProcess' /\ IForgotten' /\ IStopping'
  BY DEF IInv, IProcess, IForgotten, IStopping, world, Ending, Methods
<1>3. IInbox' /\ IAnswers'
  <2>1. IdsGrow /\ inbox' = inbox
    BY DEF IdsGrow, IInv, IType, world, Methods
  <2>2. QED
    BY <2>1, AnswersKept, InboxKept DEF IInv
<1>4. IIndex' /\ AnswerIsForTheCall'
  BY DEF IInv, IIndex, AnswerIsForTheCall, Methods
<1>5. QED
  BY <1>1, <1>2, <1>3, <1>4 DEF IInv

(* The process of the upstream that is served is given up. *)
LEMMA TerminateStep ==
    ASSUME IInv, NEW u \in Upstreams, u = Head(todo), todo # <<>>, process[u] # 0,
           pc \in Methods \cup {"stopping"}, Terminate(u),
           UNCHANGED <<spawnCount, nextId, world, call, todo, calls, reply, listed>>
    PROVE  IInv'
<1>1. /\ process' = [process EXCEPT ![u] = 0] /\ pc' = "closing"
      /\ condemned' = [condemned EXCEPT ![u] = @ \cup {process[u]}]
      /\ lines' = [lines EXCEPT ![u] = <<>>]
      /\ tools' = [tools EXCEPT ![u] = {}]
      /\ indexed' = [indexed EXCEPT ![u] = FALSE]
  BY DEF Terminate
<1>2. ILines' /\ NoNewLine
  BY <1>1, EmptiedKeeps DEF IInv, NoNewLine
<1>3. IType'
  <2>1. condemned' \in [Upstreams -> SUBSET Nat]
    BY <1>1 DEF IInv, IType
  <2>2. QED
    BY <1>1, <2>1 DEF IInv, IType, world, Ending
<1>4. ITodo'
  BY <1>1 DEF IInv, ITodo
<1>5. IProcess'
  BY <1>1 DEF IInv, IType, IProcess, world, Ending, Methods
<1>6. IForgotten'
  BY <1>1 DEF IInv, IType, IForgotten, world, Ending, Methods
<1>7. IStopping'
  BY <1>1 DEF IInv, IType, IProcess, IStopping, Ending, Methods
<1>8. IInbox' /\ IAnswers'
  <2>1. IdsGrow /\ inbox' = inbox
    BY <1>1 DEF IdsGrow, IInv, IType, world, Methods
  <2>2. QED
    BY <1>2, <2>1, AnswersKept, InboxKept DEF IInv
<1>9. IIndex'
  <2>1. \A v \in Upstreams : v # u =>
           condemned'[v] = condemned[v] /\ tools'[v] = tools[v] /\ process'[v] = process[v]
    BY <1>1 DEF IInv, IType
  <2>2. tools'[u] = {} /\ process'[u] = 0
        /\ condemned'[u] = condemned[u] \cup {spawnCount[u]}
    BY <1>1 DEF IInv, IType, IProcess
  <2>3. condemned'[u] \subseteq 1..spawnCount[u]
    BY <2>2 DEF IInv, IType, IProcess, IIndex
  <2>4. QED
    BY <1>1, <2>1, <2>2, <2>3 DEF IInv, IIndex, Methods
<1>10. AnswerIsForTheCall'
  BY DEF IInv, AnswerIsForTheCall
<1>11. QED
  BY <1>2, <1>3, <1>4, <1>5, <1>6, <1>7, <1>8, <1>9, <1>10 DEF IInv

--------------------------------------------------------------------------------
(* The initial states and the steps of the gateway *)

LEMMA InitInv == Init => IInv
  BY GatewayConstants DEF Init, IInv, IType, ILines, ITodo, IProcess, IForgotten, IStopping,
     IInbox, IAnswers, IIndex, AnswerIsForTheCall, Calls, Ending, Methods, LineType,
     RequestType

LEMMA SearchStep ==
    ASSUME IInv, Search \/ SearchPasses \/ SearchEnds
    PROVE  IInv'
<1>1. CASE Search
  <2>1. call' \in Calls /\ call'.op # "shutdown"
    BY <1>1 DEF Search, IInv, IType, Calls
  <2>2. /\ UNCHANGED <<client, world, listed, condemned>> /\ pc = "idle" /\ pc' = "serving"
        /\ calls' \in Nat /\ reply' = 0 /\ todo' \in Seq(Upstreams)
    BY <1>1, GatewayConstants DEF Search, IInv, IType
  <2>3. QED
    BY <2>1, <2>2, ServingStep
<1>2. CASE SearchPasses
  BY <1>2, TodoHead, ServingStep DEF SearchPasses, client, world, observed, IInv, IType,
     IProcess, AnswerIsForTheCall
<1>3. CASE SearchEnds
  BY <1>3, ServingStep DEF SearchEnds, Finished, client, world, IInv, IType, IProcess,
     AnswerIsForTheCall
<1>4. QED
  BY <1>1, <1>2, <1>3

LEMMA AddressStep ==
    ASSUME IInv, NEW u \in Upstreams, NEW t \in Tools, Address(u, t)
    PROVE  IInv'
<1>1. call' \in Calls /\ call'.op # "shutdown"
  BY DEF Address, Calls
<1>2. todo' \in Seq(Upstreams)
  BY DEF Address
<1>3. QED
  BY <1>1, <1>2, ServingStep DEF Address, client, world, IInv, IType

LEMMA ShutdownStep ==
    ASSUME IInv, Shutdown
    PROVE  IInv'
<1>1. call' \in Calls /\ call'.op = "shutdown"
  BY DEF Shutdown, IInv, IType, Calls
<1>2. QED
  BY <1>1, GatewayConstants, ServingStep DEF Shutdown, client, world, observed, IInv, IType,
     AnswerIsForTheCall

LEMMA CloseStep ==
    ASSUME IInv, CloseOutput \/ WriteWhileClosing
    PROVE  IInv'
<1>1. pc = "closing" /\ pc' = "killing" /\ UNCHANGED <<client, world, call, todo, calls, observed>>
  BY DEF CloseOutput, WriteWhileClosing
<1>2. IType' /\ ILines' /\ ITodo' /\ IProcess'
  BY <1>1 DEF IInv, IType, ILines, ITodo, IProcess, client, world, observed, Ending, Methods
<1>3. IForgotten'
  BY <1>1 DEF IInv, IForgotten, client, world, Ending
<1>4. IStopping'
  BY <1>1 DEF IInv, IStopping, client, Ending
<1>5. IInbox' /\ IAnswers'
  <2>1. IdsGrow /\ NoNewLine /\ inbox' = inbox
    BY <1>1 DEF IdsGrow, NoNewLine, IInv, IType, client, world, Methods
  <2>2. QED
    BY <2>1, AnswersKept, InboxKept DEF IInv
<1>6. IIndex'
  BY <1>1 DEF IInv, IIndex, client, observed
<1>7. AnswerIsForTheCall'
  BY <1>1 DEF IInv, AnswerIsForTheCall, observed
<1>8. QED
  BY <1>2, <1>3, <1>4, <1>5, <1>6, <1>7 DEF IInv

LEMMA KillStep ==
    ASSUME IInv, Kill
    PROVE  IInv'
<1> DEFINE u == Head(todo)
<1>1. /\ pc = "killing" /\ todo # <<>> /\ u \in Upstreams /\ process[u] = 0
      /\ alive' = [alive EXCEPT ![u] = @ \ {spawnCount[u]}]
      /\ open' = [open EXCEPT ![u] = FALSE]
      /\ UNCHANGED <<client, inbox, call, calls, listed, condemned, reply>>
      /\ \/ call.op = "shutdown" /\ pc' = "stopping" /\ todo' = Tail(todo)
         \/ call.op # "shutdown" /\ pc' = "idle" /\ todo' = <<>>
  BY TodoHead DEF Kill, AfterKill, Finished, IInv, ITodo, IProcess, Ending
<1> HIDE DEF u
<1>2. IType' /\ ILines'
  BY <1>1 DEF IInv, IType, ILines, client
<1>3. ITodo'
  <2>1. Tail(todo) \in Seq(Upstreams)
    BY <1>1, TodoHead DEF IInv
  <2>2. todo' \in Seq(Upstreams)
    <3>1. CASE todo' = Tail(todo)
      BY <2>1, <3>1
    <3>2. CASE todo' = <<>>
      BY <3>2
    <3>3. QED
      BY <1>1, <3>1, <3>2
  <2>3. QED
    BY <1>1, <2>2 DEF ITodo, Ending, Methods
<1>4. /\ alive'[u] = {}
      /\ \A v \in Upstreams : v # u => alive'[v] = alive[v]
  BY <1>1 DEF IInv, IType, IProcess
<1>5. IProcess'
  BY <1>1, <1>4 DEF IInv, IProcess, client, Ending, Methods
<1>6. IForgotten'
  BY <1>1, <1>4 DEF IInv, IForgotten, u, client
<1>7. IStopping'
  <2>1. ASSUME call.op = "shutdown", NEW v \in Upstreams, process[v] # 0
        PROVE  \E i \in 1..Len(Tail(todo)) : Tail(todo)[i] = v
    <3>1. PICK i \in 1..Len(todo) : todo[i] = v
      BY <1>1, <2>1 DEF IInv, IStopping, Ending
    <3>2. i # 1
      BY <1>1, <2>1, <3>1, HeadTail DEF u, IInv, ITodo
    <3>3. i - 1 \in 1..Len(Tail(todo)) /\ Tail(todo)[i - 1] = todo[i]
      BY <1>1, <3>2, HeadTail DEF IInv, ITodo
    <3>4. QED
      BY <3>1, <3>3
  <2>2. QED
    BY <1>1, <2>1 DEF IStopping, client, Ending
<1>8. IInbox' /\ IAnswers'
  <2>1. IdsGrow /\ NoNewLine /\ inbox' = inbox
    BY <1>1 DEF IdsGrow, NoNewLine, IInv, IType, client, Methods
  <2>2. QED
    BY <2>1, AnswersKept, InboxKept DEF IInv
<1>9. IIndex' /\ AnswerIsForTheCall'
  BY <1>1 DEF IInv, IIndex, AnswerIsForTheCall, client
<1>10. QED
  BY <1>2, <1>3, <1>5, <1>6, <1>7, <1>8, <1>9 DEF IInv

LEMMA StoppingStep ==
    ASSUME IInv, Stopping
    PROVE  IInv'
<1>1. CASE todo # <<>> /\ process[Head(todo)] # 0
  BY <1>1, TodoHead, TerminateStep DEF Stopping, IInv
<1>2. CASE ~(todo # <<>> /\ process[Head(todo)] # 0)
  <2>1. /\ pc = "stopping" /\ call.op = "shutdown"
        /\ UNCHANGED <<client, world, call, calls, observed>>
        /\ \/ todo = <<>> /\ pc' = "stopped" /\ todo' = todo
           \/ todo # <<>> /\ process[Head(todo)] = 0 /\ pc' = pc /\ todo' = Tail(todo)
    BY <1>2 DEF Stopping, client, observed, IInv, IProcess
  <2>2. IType' /\ ILines'
    BY <2>1 DEF IInv, IType, ILines, client, world, observed
  <2>3. ITodo'
    BY <2>1, HeadTail DEF IInv, ITodo, Ending, Methods
  <2>4. IProcess' /\ IForgotten'
    BY <2>1 DEF IInv, IProcess, IForgotten, client, world, Ending, Methods
  <2>5. IStopping'
    <3>1. ASSUME todo # <<>>, process[Head(todo)] = 0, NEW v \in Upstreams, process[v] # 0
          PROVE  \E i \in 1..Len(Tail(todo)) : Tail(todo)[i] = v
      <4>1. PICK i \in 1..Len(todo) : todo[i] = v
        BY <2>1, <3>1 DEF IInv, IStopping
      <4>2. i # 1
        BY <3>1, <4>1, HeadTail DEF IInv, ITodo
      <4>3. i - 1 \in 1..Len(Tail(todo)) /\ Tail(todo)[i - 1] = todo[i]
        BY <3>1, <4>2, HeadTail DEF IInv, ITodo
      <4>4. QED
        BY <4>1, <4>3
    <3>2. CASE todo = <<>>
      BY <2>1, <3>2 DEF IInv, IStopping, client
    <3>3. CASE todo # <<>>
      BY <2>1, <3>1, <3>3 DEF IStopping, client
    <3>4. QED
      BY <3>2, <3>3
  <2>6. IInbox' /\ IAnswers'
    <3>1. IdsGrow /\ NoNewLine /\ inbox' = inbox
      BY <2>1 DEF IdsGrow, NoNewLine, IInv, IType, client, world, Methods
    <3>2. QED
      BY <3>1, AnswersKept, InboxKept DEF IInv
  <2>7. IIndex' /\ AnswerIsForTheCall'
    BY <2>1 DEF IInv, IIndex, AnswerIsForTheCall, client, observed
  <2>8. QED
    BY <2>2, <2>3, <2>4, <2>5, <2>6, <2>7 DEF IInv
<1>3. QED
  BY <1>1, <1>2

LEMMA GiveUpStep ==
    ASSUME IInv, NEW u \in Upstreams, Timeout(u) \/ Broken(u)
    PROVE  IInv'
<1>1. Waiting(u) /\ Terminate(u)
      /\ UNCHANGED <<spawnCount, nextId, world, call, todo, calls, reply, listed>>
  BY DEF Timeout, Broken, Reads
<1>2. QED
  BY <1>1, TerminateStep DEF Waiting, IInv, ITodo, IProcess

(* What becomes of the call once the tools of an upstream are indexed, or a *)
(* request for them is sent.                                                *)
Passed ==
    /\ pc' = "serving" /\ todo' = Tail(todo)
    /\ UNCHANGED <<nextId, inbox, reply>>

Ended ==
    /\ pc' = "idle" /\ todo' = <<>>
    /\ UNCHANGED <<nextId, inbox, reply>>

Asked(u) ==
    /\ pc' \in {"tools/list", "tools/call"}
    /\ pc' = "tools/call" => call.tool \in tools'[u]
    /\ todo' = todo /\ reply' = reply
    /\ nextId' = [nextId EXCEPT ![u] = @ + 1]
    /\ \E m \in Methods :
          inbox' = [inbox EXCEPT ![u] =
                      @ \cup {[id |-> nextId[u] + 1, method |-> m, of |-> calls]}]

LEMMA Outcome ==
    ASSUME IType, NEW u \in Upstreams, EnsureIndexed(u) \/ Proceed(u),
           indexed[u] => tools'[u] = tools[u]
    PROVE  Passed \/ Ended \/ Asked(u)
<1>1. ASSUME NEW m \in Methods, Request(u, m), m = pc', pc' # "initialize",
             pc' = "tools/call" => call.tool \in tools'[u]
      PROVE  Asked(u)
  <2>1. nextId'[u] = nextId[u] + 1
    BY <1>1 DEF Request, IType
  <2>2. QED
    BY <1>1, <2>1 DEF Request, Asked, Methods
<1>2. CASE Proceed(u)
  BY <1>1, <1>2 DEF Proceed, Passed, Ended, Finished, Request, Methods
<1>3. CASE ~indexed[u] /\ EnsureIndexed(u)
  BY <1>1, <1>3 DEF EnsureIndexed, Request, Methods
<1>4. QED
  BY <1>2, <1>3 DEF EnsureIndexed

(* An upstream that runs is gone past, or sent a request. *)
LEMMA ServedStep ==
    ASSUME IInv, NEW u \in Upstreams, u = Head(todo), todo # <<>>, process[u] # 0,
           call.op # "shutdown", pc \notin Ending, Passed \/ Ended \/ Asked(u),
           UNCHANGED <<process, spawnCount, alive, open, call, calls, condemned>>,
           ILines', NoNewLine,
           tools' \in [Upstreams -> SUBSET Tools], indexed' \in [Upstreams -> BOOLEAN],
           listed' \in [Upstreams -> SUBSET (Nat \X Tools)],
           \A v \in Upstreams : \A t \in tools'[v] : \E g \in 1..spawnCount[v] :
               <<g, t>> \in listed'[v] /\ condemned[v] \cap (g..spawnCount[v]) = {}
    PROVE  IInv'
<1>1. /\ pc' \in {"serving", "idle", "tools/list", "tools/call"}
      /\ pc' \in Methods => todo' = todo
      /\ reply' = reply
  BY DEF Passed, Ended, Asked, Methods
<1>2. nextId' \in [Upstreams -> Nat] /\ inbox' \in [Upstreams -> SUBSET RequestType]
  <2>1. CASE Passed \/ Ended
    BY <2>1 DEF Passed, Ended, IInv, IType
  <2>2. CASE Asked(u)
    <3>1. PICK m \in Methods :
             inbox' = [inbox EXCEPT ![u] =
                         @ \cup {[id |-> nextId[u] + 1, method |-> m, of |-> calls]}]
      BY <2>2 DEF Asked
    <3>2. [id |-> nextId[u] + 1, method |-> m, of |-> calls] \in RequestType
      BY DEF IInv, IType, RequestType
    <3>3. inbox[u] \cup {[id |-> nextId[u] + 1, method |-> m, of |-> calls]} \in SUBSET RequestType
      BY <3>2 DEF IInv, IType
    <3>4. inbox' \in [Upstreams -> SUBSET RequestType]
      BY <3>1, <3>3 DEF IInv, IType
    <3>5. QED
      BY <2>2, <3>4 DEF Asked, IInv, IType
  <2>3. QED
    BY <2>1, <2>2
<1>3. IType'
  BY <1>1, <1>2 DEF IInv, IType, Ending, Methods
<1>4. ITodo'
  <2>1. Tail(todo) \in Seq(Upstreams)
    BY TodoHead DEF IInv
  <2>2. todo' \in Seq(Upstreams)
    <3>1. CASE Passed
      BY <2>1, <3>1 DEF Passed
    <3>2. CASE Ended
      BY <3>2 DEF Ended
    <3>3. CASE Asked(u)
      BY <3>3 DEF Asked, IInv, ITodo
    <3>4. QED
      BY <3>1, <3>2, <3>3
  <2>3. QED
    BY <1>1, <2>2 DEF ITodo, Ending, Methods
<1>5. IProcess'
  BY <1>1 DEF IInv, IProcess, Ending, Methods
<1>6. IForgotten' /\ IStopping'
  BY <1>1 DEF IInv, IForgotten, IStopping, Ending, Methods
<1>7. IdsGrow
  BY <1>1 DEF IdsGrow, Passed, Ended, Asked, IInv, IType, Methods
<1>8. IInbox'
  <2>1. CASE Passed \/ Ended
    BY <1>7, <2>1, InboxKept DEF Passed, Ended, IInv
  <2>2. CASE Asked(u)
    <3>1. PICK m \in Methods :
             inbox' = [inbox EXCEPT ![u] =
                         @ \cup {[id |-> nextId[u] + 1, method |-> m, of |-> calls]}]
      BY <2>2 DEF Asked
    <3>2. ASSUME NEW v \in Upstreams, NEW r \in inbox[v]
          PROVE  IsOfThisCall(v, r)'
      <4>1. r.id \in Nat /\ IsOfThisCall(v, r)
        BY <3>2 DEF IInv, IType, IInbox, RequestType
      <4>2. QED
        BY <1>7, <4>1, ThisCallKept
    <3>3. ASSUME NEW r, r = [id |-> nextId[u] + 1, method |-> m, of |-> calls]
          PROVE  IsOfThisCall(u, r)'
      BY <2>2, <3>3 DEF IsOfThisCall, Asked, IInv, IType
    <3>4. ASSUME NEW v \in Upstreams, NEW r \in inbox'[v]
          PROVE  IsOfThisCall(v, r)'
      <4>1. CASE r \in inbox[v]
        BY <3>2, <4>1
      <4>2. CASE v = u /\ r = [id |-> nextId[u] + 1, method |-> m, of |-> calls]
        BY <3>3, <4>2
      <4>3. QED
        BY <3>1, <3>4, <4>1, <4>2 DEF IInv, IType
    <3>5. QED
      BY <3>4 DEF IInbox
  <2>3. QED
    BY <2>1, <2>2
<1>9. IAnswers'
  BY <1>7, AnswersKept DEF IInv
<1>10. IIndex'
  BY <1>1 DEF IInv, IIndex, Asked, Passed, Ended
<1>11. AnswerIsForTheCall'
  BY <1>1 DEF IInv, AnswerIsForTheCall
<1>12. QED
  BY <1>3, <1>4, <1>5, <1>6, <1>8, <1>9, <1>10, <1>11 DEF IInv

LEMMA UseStartedStep ==
    ASSUME IInv, NEW u \in Upstreams, UseStarted(u)
    PROVE  IInv'
<1>1. /\ u = Head(todo) /\ todo # <<>> /\ pc = "serving" /\ process[u] # 0
      /\ UNCHANGED <<process, spawnCount, tools, indexed, lines, alive, open,
                     call, calls, listed, condemned>>
  BY DEF UseStarted, Turn, Started
<1>2. Passed \/ Ended \/ Asked(u)
  BY <1>1, Outcome DEF UseStarted, IInv
<1>3. ILines' /\ NoNewLine
  BY <1>1 DEF IInv, ILines, NoNewLine
<1>4. QED
  BY <1>1, <1>2, <1>3, ServedStep DEF IInv, IType, IProcess, IIndex, Ending

LEMMA InitializedStep ==
    ASSUME IInv, NEW u \in Upstreams, Initialized(u)
    PROVE  IInv'
<1>1. /\ u = Head(todo) /\ todo # <<>> /\ pc = "initialize" /\ process[u] # 0
      /\ call.op # "shutdown" /\ lines[u] # <<>> /\ Consume(u)
      /\ UNCHANGED <<process, spawnCount, tools, indexed, alive, open, call, calls,
                     listed, condemned>>
  BY DEF Initialized, Accepts, Reads, Waiting, IInv, ITodo, IProcess, Methods
<1>2. Passed \/ Ended \/ Asked(u)
  BY <1>1, Outcome DEF Initialized, IInv
<1>3. ILines' /\ NoNewLine
  BY <1>1, ConsumeKeeps DEF IInv, NoNewLine
<1>4. QED
  BY <1>1, <1>2, <1>3, ServedStep DEF IInv, IType, IIndex, Ending

LEMMA ListedStep ==
    ASSUME IInv, NEW u \in Upstreams, Listed(u)
    PROVE  IInv'
<1>1. /\ u = Head(todo) /\ todo # <<>> /\ pc = "tools/list" /\ process[u] # 0
      /\ call.op # "shutdown" /\ lines[u] # <<>> /\ Consume(u)
      /\ UNCHANGED <<process, spawnCount, alive, open, call, calls, condemned>>
      /\ indexed' = [indexed EXCEPT ![u] = TRUE] /\ Proceed(u)
  BY DEF Listed, Accepts, Reads, Waiting, IInv, ITodo, IProcess, Methods
<1>2. PICK ts \in SUBSET Tools :
          /\ tools' = [tools EXCEPT ![u] = ts]
          /\ listed' = [listed EXCEPT ![u] = @ \cup {<<process[u], t>> : t \in ts}]
  BY DEF Listed
<1>3. Passed \/ Ended \/ Asked(u)
  BY <1>1 DEF Proceed, Passed, Ended, Asked, Finished, Request, Methods, IInv, IType
<1>4. ILines' /\ NoNewLine
  BY <1>1, ConsumeKeeps DEF IInv, NoNewLine
<1>5. /\ tools' \in [Upstreams -> SUBSET Tools] /\ indexed' \in [Upstreams -> BOOLEAN]
      /\ listed' \in [Upstreams -> SUBSET (Nat \X Tools)]
  BY <1>1, <1>2 DEF IInv, IType
<1>6. ASSUME NEW v \in Upstreams, NEW t \in tools'[v]
      PROVE  \E g \in 1..spawnCount[v] :
                <<g, t>> \in listed'[v] /\ condemned[v] \cap (g..spawnCount[v]) = {}
  <2>1. CASE v = u
    <3>1. process[u] = spawnCount[u] /\ spawnCount[u] \in 1..spawnCount[u]
      BY <1>1 DEF IInv, IType, IProcess
    <3>2. <<process[u], t>> \in listed'[u]
      BY <1>2, <1>6, <2>1 DEF IInv, IType
    <3>3. condemned[u] \cap (spawnCount[u]..spawnCount[u]) = {}
      BY <3>1 DEF IInv, IIndex
    <3>4. QED
      BY <2>1, <3>1, <3>2, <3>3
  <2>2. CASE v # u
    BY <1>2, <1>6, <2>2 DEF IInv, IType, IIndex
  <2>3. QED
    BY <2>1, <2>2
<1>7. QED
  BY <1>1, <1>3, <1>4, <1>5, <1>6, ServedStep DEF Ending

LEMMA SpawnStep ==
    ASSUME IInv, NEW u \in Upstreams, Spawn(u)
    PROVE  IInv'
<1> DEFINE n == spawnCount[u] + 1
           k == nextId[u] + 1
           m == [id |-> k, method |-> "initialize", of |-> calls]
<1>1. /\ n \in Nat /\ n # 0 /\ k \in Nat /\ m \in RequestType
  BY DEF IInv, IType, RequestType, Methods
<1>2. /\ u = Head(todo) /\ todo # <<>> /\ pc = "serving" /\ pc' = "initialize"
      /\ ~Started(u)
      /\ lines' = [lines EXCEPT ![u] = <<>>]
      /\ UNCHANGED <<tools, indexed, call, todo, calls, observed>>
  BY DEF Spawn, Turn
<1>3. /\ spawnCount' = [spawnCount EXCEPT ![u] = n]
      /\ process' = [process EXCEPT ![u] = n]
      /\ nextId' = [nextId EXCEPT ![u] = k]
  BY DEF Spawn, IInv, IType
<1>4. /\ alive' = [alive EXCEPT ![u] = @ \cup {n}]
      /\ open' = [open EXCEPT ![u] = TRUE]
      /\ inbox' = [inbox EXCEPT ![u] = {m}]
  BY <1>3 DEF Spawn, IInv, IType
<1>5. alive[u] = {}
  <2>1. CASE process[u] = 0
    BY <1>2, <2>1 DEF IInv, IForgotten, Ending
  <2>2. CASE process[u] # 0
    BY <1>2, <2>2 DEF IInv, IProcess, Started
  <2>3. QED
    BY <2>1, <2>2
<1> HIDE DEF n, k, m
<1>6. ILines' /\ NoNewLine
  BY <1>2, EmptiedKeeps DEF IInv, NoNewLine
<1>7. IType'
  <2>1. alive' \in [Upstreams -> SUBSET Nat]
    BY <1>1, <1>4, <1>5 DEF IInv, IType
  <2>2. inbox' \in [Upstreams -> SUBSET RequestType]
    BY <1>1, <1>4 DEF IInv, IType
  <2>3. QED
    BY <1>1, <1>2, <1>3, <1>4, <2>1, <2>2 DEF IInv, IType, observed, Methods
<1>8. ITodo'
  BY <1>2 DEF IInv, ITodo
<1>9. /\ spawnCount'[u] = n /\ process'[u] = n /\ alive'[u] = {n}
      /\ \A v \in Upstreams : v # u =>
            /\ spawnCount'[v] = spawnCount[v] /\ process'[v] = process[v]
            /\ alive'[v] = alive[v]
  BY <1>3, <1>4, <1>5 DEF IInv, IType
<1>10. IProcess' /\ IForgotten' /\ IStopping'
  BY <1>1, <1>2, <1>9 DEF IInv, IProcess, IForgotten, IStopping, Ending, Methods
<1>11. IdsGrow
  BY <1>1, <1>2, <1>3 DEF IdsGrow, IInv, IType, k
<1>12. IInbox'
  <2>1. ASSUME NEW v \in Upstreams, NEW r \in inbox'[v]
        PROVE  IsOfThisCall(v, r)'
    <3>1. CASE v = u
      <4>1. r.id = k /\ r.of = calls
        BY <1>4, <2>1, <3>1 DEF IInv, IType, m
      <4>2. QED
        BY <1>1, <1>2, <1>3, <3>1, <4>1 DEF IsOfThisCall, IInv, IType
    <3>2. CASE v # u
      <4>1. r \in inbox[v]
        BY <1>4, <2>1, <3>2 DEF IInv, IType
      <4>2. r.id \in Nat /\ IsOfThisCall(v, r)
        BY <4>1 DEF IInv, IType, IInbox, RequestType
      <4>3. QED
        BY <1>11, <4>2, ThisCallKept
    <3>3. QED
      BY <3>1, <3>2
  <2>2. QED
    BY <2>1 DEF IInbox
<1>13. IAnswers'
  BY <1>6, <1>11, AnswersKept DEF IInv
<1>14. IIndex'
  <2>1. ASSUME NEW v \in Upstreams
        PROVE  condemned[v] \subseteq 1..spawnCount'[v] /\ process'[v] \notin condemned[v]
    BY <1>9, <2>1 DEF IInv, IType, IIndex, n
  <2>2. ASSUME NEW v \in Upstreams, NEW t \in tools[v]
        PROVE  \E g \in 1..spawnCount'[v] :
                  <<g, t>> \in listed[v] /\ condemned[v] \cap (g..spawnCount'[v]) = {}
    <3>1. PICK g \in 1..spawnCount[v] :
             <<g, t>> \in listed[v] /\ condemned[v] \cap (g..spawnCount[v]) = {}
      BY <2>2 DEF IInv, IIndex
    <3>2. /\ condemned[v] \subseteq 1..spawnCount[v]
          /\ spawnCount'[v] \in {spawnCount[v], spawnCount[v] + 1}
      BY <1>9 DEF IInv, IIndex, n
    <3>3. g \in 1..spawnCount'[v] /\ condemned[v] \cap (g..spawnCount'[v]) = {}
      BY <3>1, <3>2 DEF IInv, IType
    <3>4. QED
      BY <3>1, <3>3
  <2>3. QED
    BY <1>2, <2>1, <2>2 DEF IIndex, observed
<1>15. AnswerIsForTheCall'
  BY <1>2 DEF IInv, AnswerIsForTheCall, observed
<1>16. QED
  BY <1>6, <1>7, <1>8, <1>10, <1>12, <1>13, <1>14, <1>15 DEF IInv

LEMMA StartFailsStep ==
    ASSUME IInv, NEW u \in Upstreams, SpawnFails(u) \/ SendFails(u)
    PROVE  IInv'
<1>1. ILines' /\ NoNewLine
  BY DEF SpawnFails, SendFails, IInv, ILines, NoNewLine
<1>2. CASE SpawnFails(u)
  <2>1. alive[u] = {}
    BY <1>2 DEF SpawnFails, Turn, Started, IInv, IProcess, IForgotten, Ending
  <2>2. /\ process' \in [Upstreams -> Nat]
        /\ \A v \in Upstreams :
              process'[v] = process[v] \/ (process'[v] = 0 /\ alive[v] = {})
    BY <1>2, <2>1 DEF SpawnFails, IInv, IType
  <2>3. /\ \A v \in Upstreams : nextId'[v] >= nextId[v]
        /\ nextId' \in [Upstreams -> Nat]
    BY <1>2 DEF SpawnFails, IInv, IType
  <2>4. QED
    BY <1>1, <1>2, <2>2, <2>3, FinishStep DEF SpawnFails, Finished, Turn, IInv, IType, IProcess,
       AnswerIsForTheCall, Ending
<1>3. CASE SendFails(u)
  <2>1. /\ \A v \in Upstreams : nextId'[v] >= nextId[v]
        /\ nextId' \in [Upstreams -> Nat]
    BY <1>3 DEF SendFails, IInv, IType
  <2>2. QED
    BY <1>1, <1>3, <2>1, FinishStep DEF SendFails, Finished, Turn, IInv, IType, IProcess,
       AnswerIsForTheCall, Ending
<1>4. QED
  BY <1>2, <1>3

LEMMA SkipStep ==
    ASSUME IInv, NEW u \in Upstreams, Skip(u)
    PROVE  IInv'
<1>1. /\ ILines' /\ NoNewLine
      /\ UNCHANGED <<process, spawnCount, tools, indexed, nextId, world, serving, observed>>
  BY ConsumeKeeps DEF Skip, Reads, IInv, NoNewLine
<1>2. IType' /\ ITodo' /\ IProcess' /\ IForgotten' /\ IStopping'
  BY <1>1 DEF IInv, IType, ITodo, IProcess, IForgotten, IStopping, world, serving, observed
<1>3. IInbox' /\ IAnswers'
  <2>1. IdsGrow /\ inbox' = inbox
    BY <1>1 DEF IdsGrow, IInv, IType, world, serving
  <2>2. QED
    BY <1>1, <2>1, AnswersKept, InboxKept DEF IInv
<1>4. IIndex' /\ AnswerIsForTheCall'
  BY <1>1 DEF IInv, IIndex, AnswerIsForTheCall, world, serving, observed
<1>5. QED
  BY <1>1, <1>2, <1>3, <1>4 DEF IInv

(* The result that is relayed has the id that is awaited.                   *)
LEMMA ReadStep ==
    ASSUME IInv, NEW u \in Upstreams, Called(u) \/ Refused(u)
    PROVE  IInv'
<1>1. /\ ILines' /\ NoNewLine
      /\ \E i \in 1..Len(lines[u]) : Line(u) = lines[u][i]
      /\ Line(u) \in LineType
  BY ConsumeKeeps DEF Called, Refused, Accepts, Reads, IInv, NoNewLine
<1>2. /\ pc \in Methods /\ u = Head(todo)
      /\ pc' = "idle" /\ todo' = <<>>
      /\ UNCHANGED <<process, spawnCount, tools, indexed, nextId, world, call, calls,
                     listed, condemned>>
  BY DEF Called, Refused, Accepts, Reads, Waiting, Relayed, Finished
<1>3. reply' \in Nat /\ (reply' # 0 => reply' = calls)
  <2>1. CASE reply' = reply
    BY <2>1 DEF IInv, IType, AnswerIsForTheCall
  <2>2. CASE Called(u) /\ reply' = Line(u).of
    <3>1. Line(u).kind = "result" /\ Line(u).id = nextId[u]
      BY <2>2 DEF Called, Accepts, IsAnswer
    <3>2. Line(u).of = calls
      BY <1>1, <1>2, <3>1 DEF IInv, IAnswers, IsOfThisCall
    <3>3. QED
      BY <2>2, <3>2 DEF IInv, IType
  <2>3. QED
    BY <2>1, <2>2 DEF Called, Refused, Relayed, Finished
<1>4. /\ \A v \in Upstreams : nextId'[v] >= nextId[v]
      /\ nextId' \in [Upstreams -> Nat]
  BY <1>2 DEF IInv, IType
<1>5. process' \in [Upstreams -> Nat] /\ call.op # "shutdown"
  BY <1>2 DEF IInv, IType, IProcess
<1>6. QED
  BY <1>1, <1>2, <1>3, <1>4, <1>5, FinishStep DEF Ending, Methods

--------------------------------------------------------------------------------
(* The steps of an upstream *)

LEMMA WriteStep ==
    ASSUME IInv, NEW u \in Upstreams, NEW l \in LineType, Appended(u, l),
           l.kind = "result" => \E r \in inbox[u] : l.id = r.id /\ l.of = r.of,
           UNCHANGED <<process, spawnCount, tools, indexed, nextId, inbox, serving, observed>>,
           alive' \in [Upstreams -> SUBSET Nat], open' \in [Upstreams -> BOOLEAN],
           \A v \in Upstreams : alive'[v] \subseteq alive[v]
    PROVE  IInv'
<1>1. ILines'
  BY AppendKeeps DEF IInv
<1>2. IType' /\ ITodo' /\ IProcess' /\ IForgotten' /\ IStopping'
  BY DEF IInv, IType, ITodo, IProcess, IForgotten, IStopping, serving, observed
<1>3. IdsGrow
  BY DEF IdsGrow, IInv, IType, serving
<1>4. IInbox'
  BY <1>3, InboxKept DEF IInv
<1>5. IAnswers'
  <2>1. ASSUME NEW v \in Upstreams, NEW i \in 1..Len(lines'[v]), lines'[v][i].kind = "result"
        PROVE  IsOfThisCall(v, lines[v][i])'
    <3>1. PICK x \in LineType : x = lines'[v][i]
      BY <1>1 DEF ILines
    <3>2. CASE \E j \in 1..Len(lines[v]) : x = lines[v][j]
      <4>1. x.id \in Nat /\ IsOfThisCall(v, x)
        BY <2>1, <3>1, <3>2 DEF IInv, IAnswers, LineType
      <4>2. IsOfThisCall(v, x)'
        BY <1>3, <4>1, ThisCallKept
      <4>3. QED
        BY <3>1, <4>2 DEF IsOfThisCall
    <3>3. CASE v = u /\ x = l
      <4>1. PICK r \in inbox[u] : l.id = r.id /\ l.of = r.of
        BY <2>1, <3>1, <3>3
      <4>2. IsOfThisCall(u, r)
        BY DEF IInv, IInbox
      <4>3. x.id \in Nat /\ IsOfThisCall(v, x)
        BY <3>3, <4>1, <4>2 DEF IsOfThisCall, LineType
      <4>4. IsOfThisCall(v, x)'
        BY <1>3, <4>3, ThisCallKept
      <4>5. QED
        BY <3>1, <4>4 DEF IsOfThisCall
    <3>4. QED
      BY <3>1, <3>2, <3>3, AppendKeeps DEF IInv
  <2>2. QED
    BY <2>1 DEF IAnswers
<1>6. IIndex' /\ AnswerIsForTheCall'
  BY DEF IInv, IIndex, AnswerIsForTheCall, serving, observed
<1>7. QED
  BY <1>1, <1>2, <1>4, <1>5, <1>6 DEF IInv

LEMMA WritesStep ==
    ASSUME IInv, NEW u \in Upstreams, Answer(u) \/ Ask(u) \/ Garbage(u)
    PROVE  IInv'
<1>1. ASSUME NEW l \in LineType, Writes(u, l),
             l.kind = "result" => \E r \in inbox[u] : l.id = r.id /\ l.of = r.of
      PROVE  IInv'
  BY <1>1, WriteStep DEF Writes, world, IInv, IType
<1>2. CASE Answer(u)
  <2>1. PICK r \in inbox[u], k \in {"result", "error"} :
           Writes(u, [kind |-> k, id |-> r.id, of |-> r.of])
    BY <1>2 DEF Answer
  <2>2. [kind |-> k, id |-> r.id, of |-> r.of] \in LineType
    BY DEF IInv, IType, RequestType, LineType
  <2>3. QED
    BY <1>1, <2>1, <2>2
<1>3. CASE Ask(u)
  <2>1. PICK i \in 1..nextId[u] : Writes(u, [kind |-> "request", id |-> i, of |-> 0])
    BY <1>3 DEF Ask
  <2>2. [kind |-> "request", id |-> i, of |-> 0] \in LineType
    BY DEF IInv, IType, LineType
  <2>3. QED
    BY <1>1, <2>1, <2>2
<1>4. CASE Garbage(u)
  <2>1. [kind |-> "garbage", id |-> 0, of |-> 0] \in LineType
    BY DEF LineType
  <2>2. QED
    BY <1>1, <1>4, <2>1 DEF Garbage
<1>5. QED
  BY <1>2, <1>3, <1>4

LEMMA EndStep ==
    ASSUME IInv, NEW u \in Upstreams, EndOutput(u) \/ Exit(u)
    PROVE  IInv'
<1> DEFINE eof == [kind |-> "eof", id |-> 0, of |-> 0]
<1>1. eof \in LineType /\ eof.kind # "result"
  BY DEF LineType
<1>2. /\ UNCHANGED <<process, spawnCount, tools, indexed, nextId, inbox, serving, observed>>
      /\ open' = [open EXCEPT ![u] = FALSE]
      /\ alive' = alive \/ alive' = [alive EXCEPT ![u] = @ \ {spawnCount[u]}]
  BY DEF EndOutput, Exit
<1>3. /\ alive' \in [Upstreams -> SUBSET Nat] /\ open' \in [Upstreams -> BOOLEAN]
      /\ \A v \in Upstreams : alive'[v] \subseteq alive[v]
  BY <1>2 DEF IInv, IType
<1>4. CASE Appended(u, eof)
  BY <1>1, <1>2, <1>3, <1>4, WriteStep
<1>5. CASE lines' = lines
  <2>1. IType' /\ ILines' /\ ITodo' /\ IProcess' /\ IForgotten' /\ IStopping'
    BY <1>2, <1>3, <1>5 DEF IInv, IType, ILines, ITodo, IProcess, IForgotten, IStopping,
       serving, observed
  <2>2. IdsGrow /\ NoNewLine
    BY <1>2, <1>5 DEF IdsGrow, NoNewLine, IInv, IType, serving
  <2>3. IInbox' /\ IAnswers'
    BY <1>2, <2>2, AnswersKept, InboxKept DEF IInv
  <2>4. IIndex' /\ AnswerIsForTheCall'
    BY <1>2 DEF IInv, IIndex, AnswerIsForTheCall, serving, observed
  <2>5. QED
    BY <2>1, <2>3, <2>4 DEF IInv
<1>6. QED
  BY <1>4, <1>5 DEF EndOutput, Exit, Ends

LEMMA NextInv ==
    ASSUME IInv, [Next]_vars
    PROVE  IInv'
<1>1. CASE UNCHANGED vars
  <2>1. UNCHANGED <<client, world, serving, observed>>
    BY <1>1 DEF vars
  <2>2. IType' /\ ILines' /\ ITodo'
    BY <2>1 DEF client, world, serving, observed, IInv, IType, ILines, ITodo
  <2>3. IProcess' /\ IForgotten' /\ IStopping'
    BY <2>1 DEF client, world, serving, observed, IInv, IProcess, IForgotten, IStopping
  <2>4. IInbox' /\ IAnswers'
    BY <2>1 DEF client, world, serving, observed, IInv, IInbox, IAnswers, IsOfThisCall
  <2>5. IIndex' /\ AnswerIsForTheCall'
    BY <2>1 DEF client, world, serving, observed, IInv, IIndex, AnswerIsForTheCall
  <2>6. QED
    BY <2>2, <2>3, <2>4, <2>5 DEF IInv
<1>2. CASE Search \/ SearchPasses \/ SearchEnds \/ Shutdown \/ Stopping
  BY <1>2, SearchStep, ShutdownStep, StoppingStep
<1>3. CASE CloseOutput \/ WriteWhileClosing \/ Kill
  BY <1>3, CloseStep, KillStep
<1>4. ASSUME NEW u \in Upstreams, Ensure(u) \/ Reading(u) \/ Timeout(u) \/ Upstream(u)
      PROVE  IInv'
  BY <1>4, UseStartedStep, SpawnStep, StartFailsStep, SkipStep, InitializedStep, ListedStep,
     ReadStep, GiveUpStep, WritesStep, EndStep DEF Ensure, Reading, Upstream
<1>5. ASSUME NEW u \in Upstreams, NEW t \in Tools, Address(u, t)
      PROVE  IInv'
  BY <1>5, AddressStep
<1>6. QED
  BY <1>1, <1>2, <1>3, <1>4, <1>5 DEF Next

THEOREM InvariantHolds == Spec => []IInv
<1>1. IInv /\ [Next]_vars => IInv'
  BY NextInv
<1>2. QED
  BY InitInv, <1>1, PTL DEF Spec

--------------------------------------------------------------------------------

(* "one process per upstream, ever", and none when the gateway has shut     *)
(* down, for any number of upstreams, calls and processes.                  *)
THEOREM OneProcess == Spec => []OneProcessPerUpstream
<1>1. ASSUME IInv
      PROVE  OneProcessPerUpstream
  <2>1. \A u \in Upstreams : \A g, h \in alive[u] : g = h
    BY <1>1 DEF IInv, IProcess
  <2>2. ASSUME pc = "stopped", NEW u \in Upstreams
        PROVE  alive[u] = {}
    <3>1. todo = <<>>
      BY <1>1, <2>2 DEF IInv, ITodo
    <3>2. ~\E i \in 1..Len(todo) : todo[i] = u
      BY <3>1
    <3>3. process[u] = 0
      BY <1>1, <2>2, <3>2 DEF IInv, IStopping
    <3>4. QED
      BY <1>1, <2>2, <3>3 DEF IInv, IForgotten, Ending
  <2>3. QED
    BY <2>1, <2>2 DEF OneProcessPerUpstream
<1>2. QED
  BY <1>1, InvariantHolds, PTL

(* What is relayed for a call was computed for it, whatever the upstreams   *)
(* answer late, twice or unasked.                                           *)
THEOREM AnswersMatch == Spec => []AnswerIsForTheCall
<1>1. IInv => AnswerIsForTheCall
  BY DEF IInv
<1>2. QED
  BY <1>1, InvariantHolds, PTL

(* A tool is never called on the word of a process that was given up.       *)
THEOREM CallsWhatWasListed == Spec => []CalledToolWasListed
<1>1. ASSUME IInv, pc = "tools/call"
      PROVE  \E g \in 1..process[Head(todo)] :
                /\ <<g, call.tool>> \in listed[Head(todo)]
                /\ condemned[Head(todo)] \cap (g..process[Head(todo)]) = {}
  <2>1. Head(todo) \in Upstreams /\ process[Head(todo)] = spawnCount[Head(todo)]
    BY <1>1, TodoHead DEF IInv, ITodo, IProcess, Methods
  <2>2. QED
    BY <1>1, <2>1 DEF IInv, IIndex
<1>2. IInv => CalledToolWasListed
  BY <1>1 DEF CalledToolWasListed
<1>3. QED
  BY <1>2, InvariantHolds, PTL
--------------------------------------------------------------------------------
(* The bounds of TypeOK *)

(* Every id belongs to a request that was sent, in a call that was received. *)
IBounds ==
    /\ calls <= MaxCalls
    /\ pc \in Methods \cup {"serving"} => calls >= 1
    /\ \A u \in Upstreams :
          /\ spawnCount[u] <= MaxSpawns /\ 0 \notin alive[u]
          /\ \A r \in inbox[u] : r.id \in 1..nextId[u] /\ r.of \in 1..calls
          /\ \A i \in 1..Len(lines[u]) :
                lines[u][i].id \in 0..nextId[u] /\ lines[u][i].of \in 0..calls

LEMMA InitBounds == Init => IBounds
  BY GatewayConstants DEF Init, IBounds, Methods

(* A request gets the next id, and nothing else is sent. *)
LEMMA BoundsKept ==
    ASSUME IInv, IBounds,
           calls' \in Nat, calls' >= calls, calls' <= MaxCalls,
           pc' \in Methods \cup {"serving"} => calls' >= 1,
           nextId' \in [Upstreams -> Nat],
           \A v \in Upstreams :
               /\ nextId'[v] >= nextId[v]
               /\ spawnCount'[v] <= MaxSpawns /\ 0 \notin alive'[v]
               /\ \A r \in inbox'[v] :
                     \/ r \in inbox[v]
                     \/ r.id = nextId'[v] /\ nextId'[v] = nextId[v] + 1
                        /\ r.of = calls' /\ calls' >= 1
               /\ \A i \in 1..Len(lines'[v]) :
                     \/ \E j \in 1..Len(lines[v]) : lines'[v][i] = lines[v][j]
                     \/ lines'[v][i].id \in 0..nextId'[v] /\ lines'[v][i].of \in 0..calls'
    PROVE  IBounds'
<1>1. ASSUME NEW v \in Upstreams, NEW r \in inbox'[v]
      PROVE  r.id \in 1..nextId'[v] /\ r.of \in 1..calls'
  <2>1. nextId[v] \in Nat /\ nextId'[v] \in Nat /\ nextId'[v] >= nextId[v] /\ calls \in Nat
    BY DEF IInv, IType
  <2>2. CASE r \in inbox[v]
    <3>1. r.id \in 1..nextId[v] /\ r.of \in 1..calls
      BY <2>2 DEF IBounds
    <3>2. QED
      BY <2>1, <3>1
  <2>3. CASE r \notin inbox[v]
    <3>1. r.id = nextId'[v] /\ nextId'[v] = nextId[v] + 1 /\ r.of = calls' /\ calls' >= 1
      BY <1>1, <2>3
    <3>2. QED
      BY <2>1, <3>1
  <2>4. QED
    BY <2>2, <2>3
<1>2. ASSUME NEW v \in Upstreams, NEW i \in 1..Len(lines'[v])
      PROVE  lines'[v][i].id \in 0..nextId'[v] /\ lines'[v][i].of \in 0..calls'
  <2>1. nextId[v] \in Nat /\ nextId'[v] \in Nat /\ nextId'[v] >= nextId[v] /\ calls \in Nat
    BY DEF IInv, IType
  <2>2. CASE \E j \in 1..Len(lines[v]) : lines'[v][i] = lines[v][j]
    <3>1. lines'[v][i].id \in 0..nextId[v] /\ lines'[v][i].of \in 0..calls
      BY <2>2 DEF IBounds
    <3>2. QED
      BY <2>1, <3>1
  <2>3. QED
    BY <1>2, <2>2
<1>3. QED
  BY <1>1, <1>2 DEF IBounds

(* Steps that neither send a request nor start a process. *)
LEMMA QuietBounds ==
    ASSUME IInv, IBounds, NoNewLine,
           UNCHANGED <<spawnCount, inbox>>,
           \A v \in Upstreams : alive'[v] \subseteq alive[v],
           calls' \in Nat, calls' >= calls, calls' <= MaxCalls,
           pc' \in Methods \cup {"serving"} => calls' >= 1,
           nextId' \in [Upstreams -> Nat],
           \A v \in Upstreams : nextId'[v] >= nextId[v]
    PROVE  IBounds'
<1>1. \A v \in Upstreams : spawnCount'[v] <= MaxSpawns /\ 0 \notin alive'[v]
  BY DEF IBounds
<1>2. QED
  BY <1>1, BoundsKept DEF NoNewLine

(* A call goes on, or a request is sent for it. *)
LEMMA ServedBounds ==
    ASSUME IInv, IBounds, NEW u \in Upstreams, Passed \/ Ended \/ Asked(u), NoNewLine,
           pc \in Methods \cup {"serving"},
           UNCHANGED <<spawnCount, alive, calls>>
    PROVE  IBounds'
<1>1. calls' \in Nat /\ calls' = calls /\ calls' <= MaxCalls /\ calls' >= 1
  BY DEF IInv, IType, IBounds
<1>2. CASE Passed \/ Ended
  <2>1. nextId' \in [Upstreams -> Nat] /\ \A v \in Upstreams : nextId'[v] >= nextId[v]
    BY <1>2 DEF Passed, Ended, IInv, IType
  <2>2. QED
    BY <1>1, <1>2, <2>1, QuietBounds DEF Passed, Ended
<1>3. CASE Asked(u)
  <2>1. PICK m \in Methods :
           inbox' = [inbox EXCEPT ![u] =
                       @ \cup {[id |-> nextId[u] + 1, method |-> m, of |-> calls]}]
    BY <1>3 DEF Asked
  <2>2. nextId' = [nextId EXCEPT ![u] = @ + 1]
    BY <1>3 DEF Asked
  <2>3. nextId' \in [Upstreams -> Nat] /\ \A v \in Upstreams : nextId'[v] >= nextId[v]
    BY <2>2 DEF IInv, IType
  <2>4. ASSUME NEW v \in Upstreams, NEW r \in inbox'[v], r \notin inbox[v]
        PROVE  r.id = nextId'[v] /\ nextId'[v] = nextId[v] + 1 /\ r.of = calls'
    <3>1. v = u /\ r = [id |-> nextId[u] + 1, method |-> m, of |-> calls]
      BY <2>1, <2>4 DEF IInv, IType
    <3>2. nextId'[u] = nextId[u] + 1
      BY <2>2 DEF IInv, IType
    <3>3. QED
      BY <1>1, <3>1, <3>2
  <2>5. \A v \in Upstreams : spawnCount'[v] <= MaxSpawns /\ 0 \notin alive'[v]
    BY DEF IBounds
  <2>6. QED
    BY <1>1, <2>3, <2>4, <2>5, BoundsKept DEF NoNewLine
<1>4. QED
  BY <1>2, <1>3

LEMMA SpawnBounds ==
    ASSUME IInv, IBounds, NEW u \in Upstreams, Spawn(u)
    PROVE  IBounds'
<1>1. /\ spawnCount' = [spawnCount EXCEPT ![u] = @ + 1] /\ spawnCount[u] < MaxSpawns
      /\ nextId' = [nextId EXCEPT ![u] = @ + 1]
      /\ lines' = [lines EXCEPT ![u] = <<>>]
      /\ UNCHANGED <<tools, indexed, call, todo, calls, observed>>
      /\ pc = "serving"
  BY DEF Spawn, Turn
<1>2. spawnCount'[u] = spawnCount[u] + 1 /\ nextId'[u] = nextId[u] + 1
  BY <1>1 DEF IInv, IType
<1>3. /\ alive' = [alive EXCEPT ![u] = @ \cup {spawnCount[u] + 1}]
      /\ inbox' = [inbox EXCEPT ![u] =
                    {[id |-> nextId[u] + 1, method |-> "initialize", of |-> calls]}]
  BY <1>2 DEF Spawn
<1>4. calls' \in Nat /\ calls' = calls /\ calls' <= MaxCalls /\ calls' >= 1
  BY <1>1 DEF IInv, IType, IBounds
<1>5. nextId' \in [Upstreams -> Nat] /\ \A v \in Upstreams : nextId'[v] >= nextId[v]
  BY <1>1 DEF IInv, IType
<1>6. NoNewLine
  BY <1>1, EmptiedKeeps DEF IInv, NoNewLine
<1>7. \A v \in Upstreams : spawnCount'[v] <= MaxSpawns
  BY <1>1, GatewayConstants DEF IInv, IType, IBounds
<1>8. \A v \in Upstreams : 0 \notin alive'[v]
  BY <1>3 DEF IInv, IType, IBounds
<1>9. ASSUME NEW v \in Upstreams, NEW r \in inbox'[v], r \notin inbox[v]
      PROVE  r.id = nextId'[v] /\ nextId'[v] = nextId[v] + 1 /\ r.of = calls'
  <2>1. v = u /\ r = [id |-> nextId[u] + 1, method |-> "initialize", of |-> calls]
    BY <1>3, <1>9 DEF IInv, IType
  <2>2. QED
    BY <1>2, <1>4, <2>1
<1>10. QED
  BY <1>4, <1>5, <1>6, <1>7, <1>8, <1>9, BoundsKept DEF NoNewLine

(* An upstream writes a line about a request, or about none. *)
LEMMA WriteBounds ==
    ASSUME IInv, IBounds, NEW u \in Upstreams, NEW l \in LineType, Appended(u, l),
           l.id \in 0..nextId[u], l.of \in 0..calls,
           UNCHANGED <<spawnCount, inbox, nextId, calls, pc>>,
           \A v \in Upstreams : alive'[v] \subseteq alive[v]
    PROVE  IBounds'
<1>1. calls' \in Nat /\ calls' = calls /\ calls' <= MaxCalls /\ nextId' \in [Upstreams -> Nat]
      /\ (pc' \in Methods \cup {"serving"} => calls' >= 1)
  BY DEF IInv, IType, IBounds
<1>2. \A v \in Upstreams : nextId'[v] >= nextId[v] /\ nextId'[v] = nextId[v]
  BY DEF IInv, IType
<1>3. \A v \in Upstreams : spawnCount'[v] <= MaxSpawns /\ 0 \notin alive'[v]
  BY DEF IBounds
<1>4. \A v \in Upstreams : \A i \in 1..Len(lines'[v]) :
          \/ \E j \in 1..Len(lines[v]) : lines'[v][i] = lines[v][j]
          \/ lines'[v][i].id \in 0..nextId'[v] /\ lines'[v][i].of \in 0..calls'
  BY <1>1, <1>2, AppendKeeps DEF IInv
<1>5. QED
  BY <1>1, <1>2, <1>3, <1>4, BoundsKept

LEMMA UpstreamBounds ==
    ASSUME IInv, IBounds, NEW u \in Upstreams, Upstream(u)
    PROVE  IBounds'
<1>1. /\ UNCHANGED <<spawnCount, inbox, nextId, calls, pc>>
      /\ \A v \in Upstreams : alive'[v] \subseteq alive[v]
  BY DEF Upstream, Answer, Ask, Garbage, Writes, EndOutput, Exit, world, serving, IInv, IType
<1>2. nextId[u] \in Nat /\ calls \in Nat
  BY DEF IInv, IType
<1>3. CASE Answer(u)
  <2>1. PICK r \in inbox[u], k \in {"result", "error"} :
           Appended(u, [kind |-> k, id |-> r.id, of |-> r.of])
    BY <1>3 DEF Answer, Writes
  <2>2. r.id \in 1..nextId[u] /\ r.of \in 1..calls
    BY DEF IBounds
  <2>3. [kind |-> k, id |-> r.id, of |-> r.of] \in LineType
    BY DEF IInv, IType, RequestType, LineType
  <2>4. PICK l \in LineType : l = [kind |-> k, id |-> r.id, of |-> r.of]
    BY <2>3
  <2>5. QED
    BY <1>1, <1>2, <2>1, <2>2, <2>4, WriteBounds
<1>4. CASE Ask(u)
  <2>1. PICK i \in 1..nextId[u] : Appended(u, [kind |-> "request", id |-> i, of |-> 0])
    BY <1>4 DEF Ask, Writes
  <2>2. [kind |-> "request", id |-> i, of |-> 0] \in LineType
    BY DEF IInv, IType, LineType
  <2>3. PICK l \in LineType : l = [kind |-> "request", id |-> i, of |-> 0]
    BY <2>2
  <2>4. QED
    BY <1>1, <1>2, <2>1, <2>3, WriteBounds
<1>5. CASE Garbage(u)
  <2>1. PICK l \in LineType : l = [kind |-> "garbage", id |-> 0, of |-> 0]
    BY DEF LineType
  <2>2. QED
    BY <1>1, <1>2, <1>5, <2>1, WriteBounds DEF Garbage, Writes
<1>6. CASE (EndOutput(u) \/ Exit(u)) /\ Ends(u)
  <2>1. PICK l \in LineType : l = [kind |-> "eof", id |-> 0, of |-> 0]
    BY DEF LineType
  <2>2. QED
    BY <1>1, <1>2, <1>6, <2>1, WriteBounds DEF Ends
<1>7. CASE UNCHANGED lines
  <2>1. NoNewLine
    BY <1>7 DEF NoNewLine
  <2>2. QED
    BY <1>1, <2>1, QuietBounds DEF IInv, IType, IBounds
<1>8. QED
  BY <1>3, <1>4, <1>5, <1>6, <1>7 DEF Upstream, EndOutput, Exit

LEMMA ReadingBounds ==
    ASSUME IInv, IBounds, NEW u \in Upstreams, Ensure(u) \/ Reading(u) \/ Timeout(u)
    PROVE  IBounds'
<1>0. calls \in Nat /\ calls <= MaxCalls
  BY DEF IInv, IType, IBounds
<1>1. CASE UseStarted(u)
  <2>1. Passed \/ Ended \/ Asked(u)
    BY <1>1, Outcome DEF UseStarted, IInv
  <2>2. NoNewLine /\ pc = "serving"
    BY <1>1 DEF UseStarted, Turn, NoNewLine
  <2>3. QED
    BY <1>1, <2>1, <2>2, ServedBounds DEF UseStarted
<1>2. CASE Spawn(u)
  BY <1>2, SpawnBounds
<1>3. CASE SpawnFails(u) \/ SendFails(u)
  <2>1. UNCHANGED <<spawnCount, inbox, lines, alive, calls>> /\ pc' = "idle"
    BY <1>3 DEF SpawnFails, SendFails, Finished, world
  <2>2. nextId' = nextId \/ nextId' = [nextId EXCEPT ![u] = @ + 1]
    BY <1>3 DEF SpawnFails, SendFails
  <2>3. nextId' \in [Upstreams -> Nat] /\ \A v \in Upstreams : nextId'[v] >= nextId[v]
    BY <2>2 DEF IInv, IType
  <2>4. NoNewLine
    BY <2>1 DEF NoNewLine
  <2>5. QED
    BY <1>0, <2>1, <2>3, <2>4, QuietBounds DEF Methods
<1>4. CASE Initialized(u)
  <2>1. Passed \/ Ended \/ Asked(u)
    BY <1>4, Outcome DEF Initialized, IInv
  <2>2. NoNewLine /\ pc \in Methods
    BY <1>4, ConsumeKeeps DEF Initialized, Accepts, Reads, Waiting, IInv, NoNewLine
  <2>3. QED
    BY <1>4, <2>1, <2>2, ServedBounds DEF Initialized
<1>5. CASE Listed(u)
  <2>1. Passed \/ Ended \/ Asked(u)
    BY <1>5 DEF Listed, Proceed, Passed, Ended, Asked, Finished, Request, Methods, IInv, IType
  <2>2. NoNewLine /\ pc \in Methods
    BY <1>5, ConsumeKeeps DEF Listed, Accepts, Reads, Waiting, IInv, NoNewLine
  <2>3. QED
    BY <1>5, <2>1, <2>2, ServedBounds DEF Listed
<1>6. CASE Skip(u) \/ Called(u) \/ Refused(u)
  <2>1. NoNewLine /\ UNCHANGED <<spawnCount, inbox, alive, calls, nextId>> /\ pc' \in {pc, "idle"}
    BY <1>6, ConsumeKeeps DEF Skip, Called, Refused, Accepts, Reads, Finished, Relayed, IInv,
       NoNewLine, world, serving
  <2>2. pc' \in Methods \cup {"serving"} => calls' >= 1
    BY <2>1 DEF IBounds, Methods
  <2>3. nextId' \in [Upstreams -> Nat] /\ \A v \in Upstreams : nextId'[v] >= nextId[v]
    BY <2>1 DEF IInv, IType
  <2>4. calls' \in Nat /\ calls' >= calls /\ calls' <= MaxCalls
    BY <1>0, <2>1
  <2>5. QED
    BY <2>1, <2>2, <2>3, <2>4, QuietBounds
<1>7. CASE Broken(u) \/ Timeout(u)
  <2>1. UNCHANGED <<spawnCount, inbox, alive, calls, nextId>> /\ pc' = "closing"
        /\ lines' = [lines EXCEPT ![u] = <<>>]
    BY <1>7 DEF Broken, Timeout, Terminate, world
  <2>2. NoNewLine
    BY <2>1, EmptiedKeeps DEF IInv, NoNewLine
  <2>3. nextId' \in [Upstreams -> Nat] /\ \A v \in Upstreams : nextId'[v] >= nextId[v]
    BY <2>1 DEF IInv, IType
  <2>4. QED
    BY <1>0, <2>1, <2>2, <2>3, QuietBounds DEF Methods
<1>8. QED
  BY <1>1, <1>2, <1>3, <1>4, <1>5, <1>6, <1>7 DEF Ensure, Reading

LEMMA NextBounds ==
    ASSUME IInv, IBounds, [Next]_vars
    PROVE  IBounds'
<1>0. calls \in Nat /\ calls <= MaxCalls /\ nextId \in [Upstreams -> Nat] /\ MaxCalls \in Nat
  BY GatewayConstants DEF IInv, IType, IBounds
<1>1. CASE UNCHANGED vars
  <2>1. NoNewLine /\ UNCHANGED <<spawnCount, inbox, alive, calls, nextId, pc>>
    BY <1>1 DEF vars, client, world, serving, NoNewLine
  <2>2. QED
    BY <1>0, <2>1, QuietBounds DEF IBounds
<1>2. CASE Search \/ SearchPasses \/ SearchEnds \/ Shutdown
           \/ \E u \in Upstreams, t \in Tools : Address(u, t)
  <2>1. NoNewLine /\ UNCHANGED <<spawnCount, inbox, alive, nextId>>
    BY <1>2 DEF Search, SearchPasses, SearchEnds, Shutdown, Address, client, world, NoNewLine
  <2>2. calls' \in {calls, calls + 1} /\ calls' <= MaxCalls
        /\ (pc' \in Methods \cup {"serving"} => calls' >= 1)
    BY <1>0, <1>2 DEF Search, SearchPasses, SearchEnds, Shutdown, Address, Finished,
       IBounds, Methods
  <2>3. QED
    BY <1>0, <2>1, <2>2, QuietBounds
<1>3. CASE Stopping
  <2>1. UNCHANGED <<spawnCount, inbox, alive, calls, nextId>>
        /\ pc' \notin Methods \cup {"serving"}
    BY <1>3 DEF Stopping, Terminate, world, Methods
  <2>2. NoNewLine
    <3>1. CASE UNCHANGED lines
      BY <3>1 DEF NoNewLine
    <3>2. CASE lines' # lines
      <4>1. todo # <<>> /\ lines' = [lines EXCEPT ![Head(todo)] = <<>>]
        BY <1>3, <3>2 DEF Stopping, Terminate
      <4>2. QED
        BY <4>1, TodoHead, EmptiedKeeps DEF IInv, NoNewLine
    <3>3. QED
      BY <3>1, <3>2
  <2>3. QED
    BY <1>0, <2>1, <2>2, QuietBounds
<1>4. CASE CloseOutput \/ WriteWhileClosing
  <2>1. NoNewLine /\ UNCHANGED <<spawnCount, inbox, alive, calls, nextId>> /\ pc' = "killing"
    BY <1>4 DEF CloseOutput, WriteWhileClosing, client, world, NoNewLine
  <2>2. QED
    BY <1>0, <2>1, QuietBounds DEF Methods
<1>5. CASE Kill
  <2>1. NoNewLine /\ UNCHANGED <<spawnCount, inbox, calls, nextId>> /\ pc' \in {"stopping", "idle"}
        /\ \A v \in Upstreams : alive'[v] \subseteq alive[v]
    BY <1>5 DEF Kill, AfterKill, Finished, client, NoNewLine, IInv, IType
  <2>2. QED
    BY <1>0, <2>1, QuietBounds DEF Methods
<1>6. ASSUME NEW u \in Upstreams, Ensure(u) \/ Reading(u) \/ Timeout(u) \/ Upstream(u)
      PROVE  IBounds'
  BY <1>6, ReadingBounds, UpstreamBounds
<1>7. QED
  BY <1>1, <1>2, <1>3, <1>4, <1>5, <1>6 DEF Next

(* A sequence whose elements are in a smaller set. *)
LEMMA Narrower ==
    ASSUME NEW S, NEW T, NEW q \in Seq(S), \A i \in 1..Len(q) : q[i] \in T
    PROVE  q \in Seq(T)
  OBVIOUS

LEMMA TypeBounds ==
    ASSUME IInv, IBounds
    PROVE  TypeOK
<1>1. ASSUME NEW u \in Upstreams
      PROVE  /\ process[u] \in {0, spawnCount[u]}
             /\ lines[u] \in Seq([kind : {"result", "error", "request", "garbage", "eof"},
                                  id : 0..nextId[u], of : 0..calls])
             /\ inbox[u] \subseteq [id : 1..nextId[u], method : Methods, of : 1..calls]
             /\ alive[u] \subseteq 1..spawnCount[u]
             /\ condemned[u] \subseteq 1..spawnCount[u]
             /\ spawnCount[u] \in 0..MaxSpawns
  <2>1. lines[u] \in Seq(LineType)
    BY DEF IInv, ILines
  <2>2. \A i \in 1..Len(lines[u]) :
            lines[u][i] \in [kind : {"result", "error", "request", "garbage", "eof"},
                             id : 0..nextId[u], of : 0..calls]
    <3>1. ASSUME NEW i \in 1..Len(lines[u]), NEW l, l = lines[u][i]
          PROVE  l \in [kind : {"result", "error", "request", "garbage", "eof"},
                        id : 0..nextId[u], of : 0..calls]
      <4>1. l \in LineType
        BY <2>1, <3>1
      <4>2. l.id \in 0..nextId[u] /\ l.of \in 0..calls
        BY <3>1 DEF IBounds
      <4>3. QED
        BY <4>1, <4>2 DEF LineType
    <3>2. QED
      BY <3>1
  <2>3. ASSUME NEW r \in inbox[u]
        PROVE  r \in [id : 1..nextId[u], method : Methods, of : 1..calls]
    <3>1. r \in RequestType
      BY DEF IInv, IType
    <3>2. r.id \in 1..nextId[u] /\ r.of \in 1..calls
      BY DEF IBounds
    <3>3. QED
      BY <3>1, <3>2 DEF RequestType
  <2>4. alive[u] \subseteq 1..spawnCount[u]
    BY DEF IInv, IType, IProcess, IBounds
  <2>5. spawnCount[u] \in 0..MaxSpawns
    BY GatewayConstants DEF IInv, IType, IBounds
  <2>6. lines[u] \in Seq([kind : {"result", "error", "request", "garbage", "eof"},
                          id : 0..nextId[u], of : 0..calls])
    BY <2>1, <2>2, Narrower
  <2>7. QED
    BY <2>3, <2>4, <2>5, <2>6 DEF IInv, IProcess, IIndex
<1>2. calls \in 0..MaxCalls /\ reply \in 0..MaxCalls
  BY GatewayConstants DEF IInv, IType, IBounds, AnswerIsForTheCall
<1>3. todo \in Seq(Upstreams) /\ (pc \in {"closing", "killing"} \cup Methods => todo # <<>>)
  BY DEF IInv, ITodo, Ending
<1>4. spawnCount \in [Upstreams -> 0..MaxSpawns]
  BY <1>1 DEF IInv, IType
<1>5. pc \in {"idle", "serving", "closing", "killing", "stopping", "stopped"} \cup Methods
  BY DEF IInv, IType, Ending
<1>6. QED
  BY <1>1, <1>2, <1>3, <1>4, <1>5 DEF IInv, IType, TypeOK

(* The variables hold what their comments say: every line in a queue carries *)
(* an id that was used, and every request the call it was sent for.         *)
THEOREM TypesHold == Spec => []TypeOK
<1>1. IInv /\ IBounds /\ [Next]_vars => IBounds'
  BY NextBounds
<1>2. IInv /\ IBounds => TypeOK
  BY TypeBounds
<1>3. QED
  BY <1>1, <1>2, InitBounds, InvariantHolds, PTL DEF Spec
================================================================================
