------------------------------ MODULE McpGateway ------------------------------
(***************************************************************************)
(* The MCP gateway (mcp/gateway.py): one loop serves the meta-tools, starts *)
(* upstream processes when they are first needed, keeps the tools each one  *)
(* has listed, and relays one answer per call.                              *)
(*                                                                          *)
(* An upstream answers late, twice or never, sends requests of its own,     *)
(* writes garbage, closes its output or exits, whenever it likes.           *)
(***************************************************************************)
EXTENDS Naturals, Sequences

CONSTANTS
    Upstreams,  \* names in the gateway config
    Order,      \* their order there
    Tools,      \* tool names
    Spawnable,  \* upstreams whose trust level permits a process
    Visible,    \* the tools of each upstream that the profile shows
    Callable,   \* the tools of each upstream that it lets through
    MaxCalls,   \* bound: meta-tool calls
    MaxSpawns,  \* bound: processes started for one upstream
    MaxLines    \* bound: lines in the queue of one upstream that are not read

ASSUME GatewayConstants ==
    /\ Order \in Seq(Upstreams)
    /\ \A u \in Upstreams : \E i \in 1..Len(Order) : Order[i] = u
    /\ Spawnable \subseteq Upstreams
    /\ Visible \in [Upstreams -> SUBSET Tools]
    /\ Callable \in [Upstreams -> SUBSET Tools]
    /\ MaxCalls \in Nat /\ MaxSpawns \in Nat /\ MaxLines \in Nat

VARIABLES
    \* UpstreamClient; a process is named by its place among those started
    process,    \* the process, or 0
    spawnCount,
    tools,      \* tools that are indexed
    indexed,
    nextId,
    lines,      \* the queue between the reader thread and request
    \* the upstreams
    alive,      \* processes that run
    open,       \* the output of the last process started has not ended
    inbox,      \* requests that the last process started has been sent
    \* the gateway
    pc,
    call,       \* the meta-tool call being served
    todo,       \* upstreams it has yet to go through
    calls,      \* calls received
    \* observed
    reply,      \* the call for which the result relayed was computed, or 0
    listed,     \* tools that each process has listed
    condemned   \* processes that the gateway has terminated

client == <<process, spawnCount, tools, indexed, nextId, lines>>
world  == <<alive, open, inbox>>
serving == <<pc, call, todo, calls>>
observed == <<reply, listed, condemned>>
vars == <<client, world, serving, observed>>

Methods == {"initialize", "tools/list", "tools/call"}
Calls == [op : {"tools_search", "tools_schema", "tools_call", "shutdown"}, tool : Tools]

Init ==
    /\ process = [u \in Upstreams |-> 0]
    /\ spawnCount = [u \in Upstreams |-> 0]
    /\ tools = [u \in Upstreams |-> {}]
    /\ indexed = [u \in Upstreams |-> FALSE]
    /\ nextId = [u \in Upstreams |-> 0]
    /\ lines = [u \in Upstreams |-> <<>>]
    /\ alive = [u \in Upstreams |-> {}]
    /\ open = [u \in Upstreams |-> FALSE]
    /\ inbox = [u \in Upstreams |-> {}]
    /\ pc = "idle"
    /\ call \in [op : {"tools_search"}, tool : Tools]
    /\ todo = <<>>
    /\ calls = 0
    /\ reply = 0
    /\ listed = [u \in Upstreams |-> {}]
    /\ condemned = [u \in Upstreams |-> {}]

--------------------------------------------------------------------------------
(* The answer to the agent *)

(* The call is over; nothing an upstream computed is relayed. *)
Finished == pc' = "idle" /\ todo' = <<>> /\ UNCHANGED reply

Relayed(of) == pc' = "idle" /\ todo' = <<>> /\ reply' = of

--------------------------------------------------------------------------------
(* UpstreamClient: request, terminate *)

(* The line is written to the process and the answer is awaited. *)
Request(u, method) ==
    /\ nextId' = [nextId EXCEPT ![u] = @ + 1]
    /\ inbox' = [inbox EXCEPT ![u] =
                    @ \cup {[id |-> nextId'[u], method |-> method, of |-> calls]}]
    /\ pc' = method
    /\ UNCHANGED <<todo, reply>>

(* Mutant: the tools of the process stay indexed. *)
Terminate_Keeps(u) ==
    /\ process' = [process EXCEPT ![u] = 0]
    /\ lines' = [lines EXCEPT ![u] = <<>>]
    /\ condemned' = [condemned EXCEPT ![u] = @ \cup {process[u]}]
    /\ pc' = "closing"
    /\ UNCHANGED <<tools, indexed>>

(* The client forgets the process, then closes its two streams. *)
Terminate(u) ==
    /\ process' = [process EXCEPT ![u] = 0]
    /\ lines' = [lines EXCEPT ![u] = <<>>]
    /\ tools' = [tools EXCEPT ![u] = {}]
    /\ indexed' = [indexed EXCEPT ![u] = FALSE]
    /\ condemned' = [condemned EXCEPT ![u] = @ \cup {process[u]}]
    /\ pc' = "closing"

(* Closing the output takes the lock that the reader thread holds while it  *)
(* waits for a line: the gateway waits until the output has ended ...       *)
CloseOutput ==
    /\ pc = "closing"
    /\ ~open[Head(todo)]
    /\ pc' = "killing"
    /\ UNCHANGED <<client, world, call, todo, calls, observed>>

(* ... or the upstream writes a line and the reader lets go of the lock. *)
WriteWhileClosing ==
    /\ pc = "closing"
    /\ open[Head(todo)]
    /\ pc' = "killing"
    /\ UNCHANGED <<client, world, call, todo, calls, observed>>

(* After a failure the call is over; shutdown goes on to the next upstream. *)
AfterKill ==
    IF call.op = "shutdown"
    THEN pc' = "stopping" /\ todo' = Tail(todo) /\ UNCHANGED reply
    ELSE Finished

(* Mutant: the process is forgotten and left running. *)
Kill_Not ==
    /\ pc = "killing"
    /\ AfterKill
    /\ UNCHANGED <<client, world, call, calls, listed, condemned>>

(* terminate, wait, kill, wait *)
Kill ==
    /\ pc = "killing"
    /\ alive' = [alive EXCEPT ![Head(todo)] = @ \ {spawnCount[Head(todo)]}]
    /\ open' = [open EXCEPT ![Head(todo)] = FALSE]
    /\ AfterKill
    /\ UNCHANGED <<client, inbox, call, calls, listed, condemned>>

--------------------------------------------------------------------------------
(* UpstreamClient: start, ensure_indexed *)

Started(u) == process[u] # 0 /\ process[u] \in alive[u]

(* What the handler does once the tools of an upstream are indexed: the     *)
(* search goes on to the next one, a schema is read from the index, and a   *)
(* tool that is in the index is called.                                     *)
Proceed(u) ==
    \/ /\ call.op = "tools_search"
       /\ todo' = Tail(todo)
       /\ pc' = "serving"
       /\ UNCHANGED <<nextId, inbox, reply>>
    \/ /\ call.op # "tools_search"
       /\ call.op = "tools_schema" \/ call.tool \notin tools'[u]
       /\ Finished
       /\ UNCHANGED <<nextId, inbox>>
    \/ /\ call.op = "tools_call"
       /\ call.tool \in tools'[u]
       /\ Request(u, "tools/call")

(* The tools are listed unless they are indexed: the index outlives a       *)
(* process that went away by itself.                                        *)
EnsureIndexed(u) ==
    IF indexed[u]
    THEN Proceed(u)
    ELSE Request(u, "tools/list")

(* A refresh passes over an upstream that has no visible tool. *)
Contributes(u) == u \in Spawnable /\ Visible[u] # {}

Turn(u) == pc = "serving" /\ todo # <<>> /\ u = Head(todo) /\ Contributes(u)

UseStarted(u) ==
    /\ Turn(u)
    /\ Started(u)
    /\ UNCHANGED <<process, spawnCount, tools, indexed, lines, alive, open,
                   call, calls, listed, condemned>>
    /\ EnsureIndexed(u)

(* A process with a queue of its own, which is sent the first request. *)
Spawn(u) ==
    /\ Turn(u)
    /\ ~Started(u)
    /\ spawnCount[u] < MaxSpawns
    /\ spawnCount' = [spawnCount EXCEPT ![u] = @ + 1]
    /\ process' = [process EXCEPT ![u] = spawnCount'[u]]
    /\ lines' = [lines EXCEPT ![u] = <<>>]
    /\ alive' = [alive EXCEPT ![u] = @ \cup {spawnCount'[u]}]
    /\ open' = [open EXCEPT ![u] = TRUE]
    /\ nextId' = [nextId EXCEPT ![u] = @ + 1]
    /\ inbox' = [inbox EXCEPT ![u] =
                    {[id |-> nextId'[u], method |-> "initialize", of |-> calls]}]
    /\ pc' = "initialize"
    /\ UNCHANGED <<tools, indexed, call, todo, calls, observed>>

(* The working directory is gone, or the command cannot be run: the call    *)
(* fails, and only then is the process that went away forgotten.            *)
SpawnFails(u) ==
    /\ Turn(u)
    /\ ~Started(u)
    /\ process' \in {process, [process EXCEPT ![u] = 0]}
    /\ Finished
    /\ UNCHANGED <<spawnCount, tools, indexed, nextId, lines, world, call, calls,
                   listed, condemned>>

(* A request cannot be written; an id has been used up. *)
SendFails(u) ==
    /\ Turn(u)
    /\ Started(u)
    /\ ~open[u]
    /\ ~indexed[u] \/ (call.op = "tools_call" /\ call.tool \in tools[u])
    /\ nextId' = [nextId EXCEPT ![u] = @ + 1]
    /\ Finished
    /\ UNCHANGED <<process, spawnCount, tools, indexed, lines, world, call, calls,
                   listed, condemned>>

--------------------------------------------------------------------------------
(* UpstreamClient.request: what is read while the answer is awaited *)

Waiting(u) == pc \in Methods /\ u = Head(todo)

Line(u) == Head(lines[u])

Reads(u) == Waiting(u) /\ lines[u] # <<>>

Consume(u) == lines' = [lines EXCEPT ![u] = Tail(@)]

(* Mutant: the first line that has a result is the answer. *)
IsAnswer_Any(u) == Line(u).kind \in {"result", "error", "request"}

(* A request that the upstream sends may have the id that is awaited. *)
IsAnswer(u) == Line(u).kind \in {"result", "error", "request"} /\ Line(u).id = nextId[u]

(* Notifications, late answers and requests with another id are skipped. *)
Skip(u) ==
    /\ Reads(u)
    /\ Line(u).kind \in {"result", "error", "request"}
    /\ ~IsAnswer(u)
    /\ Consume(u)
    /\ UNCHANGED <<process, spawnCount, tools, indexed, nextId, world, serving, observed>>

Accepts(u) == Reads(u) /\ IsAnswer(u) /\ Line(u).kind = "result"

(* The process is initialized; its tools are listed unless they are indexed. *)
Initialized(u) ==
    /\ Accepts(u)
    /\ pc = "initialize"
    /\ Consume(u)
    /\ UNCHANGED <<process, spawnCount, tools, indexed, alive, open, call, calls,
                   listed, condemned>>
    /\ EnsureIndexed(u)

Listed(u) ==
    /\ Accepts(u)
    /\ pc = "tools/list"
    /\ Consume(u)
    /\ \E ts \in SUBSET Tools :
          /\ tools' = [tools EXCEPT ![u] = ts]
          /\ listed' = [listed EXCEPT ![u] = @ \cup {<<process[u], t>> : t \in ts}]
    /\ indexed' = [indexed EXCEPT ![u] = TRUE]
    /\ Proceed(u)
    /\ UNCHANGED <<process, spawnCount, alive, open, call, calls, condemned>>

(* The result is relayed, or dropped when it is too large. *)
Called(u) ==
    /\ Accepts(u)
    /\ pc = "tools/call"
    /\ Consume(u)
    /\ Relayed(Line(u).of) \/ Finished
    /\ UNCHANGED <<process, spawnCount, tools, indexed, nextId, world, call, calls,
                   listed, condemned>>

(* The output has ended, or the answer is an error or no result: the call   *)
(* fails and the process is kept.  During the start that is so only when    *)
(* the error is no object, of which the client cannot read the code: what   *)
(* it raises then is not the UpstreamError that start waits for.            *)
Refused(u) ==
    /\ Reads(u)
    /\ \/ pc # "initialize" /\ Line(u).kind = "eof"
       \/ pc # "initialize" /\ IsAnswer(u) /\ Line(u).kind = "request"
       \/ IsAnswer(u) /\ Line(u).kind = "error"
    /\ Consume(u)
    /\ Finished
    /\ UNCHANGED <<process, spawnCount, tools, indexed, nextId, world, call, calls,
                   listed, condemned>>

(* Garbage and a deadline that passes terminate the process, and so does    *)
(* nearly every other failure while it starts.                              *)
Broken(u) ==
    /\ Reads(u)
    /\ \/ Line(u).kind = "garbage"
       \/ /\ pc = "initialize"
          /\ \/ Line(u).kind = "eof"
             \/ IsAnswer(u) /\ Line(u).kind # "result"
             \/ IsAnswer(u) /\ ~open[u]
    /\ Terminate(u)
    /\ UNCHANGED <<spawnCount, nextId, world, call, todo, calls, reply, listed>>

(* Mutant: every line that is read extends the deadline. *)
Timeout_WhenQuiet(u) ==
    /\ Waiting(u)
    /\ lines[u] = <<>>
    /\ Terminate(u)
    /\ UNCHANGED <<spawnCount, nextId, world, call, todo, calls, reply, listed>>

(* The deadline of a request: the queue may hold lines that are not read. *)
Timeout(u) ==
    /\ Waiting(u)
    /\ Terminate(u)
    /\ UNCHANGED <<spawnCount, nextId, world, call, todo, calls, reply, listed>>

--------------------------------------------------------------------------------
(* Gateway: the meta-tools, and the end of the session *)

(* tools_search with refresh; without it nothing but the index is read. *)
Search ==
    /\ pc = "idle"
    /\ calls < MaxCalls
    /\ call' = [call EXCEPT !.op = "tools_search"]
    /\ todo' = Order
    /\ calls' = calls + 1
    /\ reply' = 0
    /\ pc' = "serving"
    /\ UNCHANGED <<client, world, listed, condemned>>

SearchPasses ==
    /\ pc = "serving" /\ todo # <<>>
    /\ ~Contributes(Head(todo))
    /\ todo' = Tail(todo)
    /\ UNCHANGED <<client, world, pc, call, calls, observed>>

SearchEnds ==
    /\ pc = "serving" /\ todo = <<>>
    /\ Finished
    /\ UNCHANGED <<client, world, call, calls, listed, condemned>>

(* tools_schema and tools_call of a tool that the profile and the trust     *)
(* level let through; a call that they refuse changes nothing.              *)
Address(u, t) ==
    /\ pc = "idle"
    /\ calls < MaxCalls
    /\ u \in Spawnable
    /\ t \in Visible[u]
    /\ \/ call' = [op |-> "tools_schema", tool |-> t]
       \/ t \in Callable[u] /\ call' = [op |-> "tools_call", tool |-> t]
    /\ todo' = <<u>>
    /\ calls' = calls + 1
    /\ reply' = 0
    /\ pc' = "serving"
    /\ UNCHANGED <<client, world, listed, condemned>>

(* The agent's end of the connection is closed. *)
Shutdown ==
    /\ pc = "idle"
    /\ call' = [call EXCEPT !.op = "shutdown"]
    /\ todo' = Order
    /\ pc' = "stopping"
    /\ UNCHANGED <<client, world, calls, observed>>

(* Mutant: terminate goes on without a process. *)
Stopping_All ==
    /\ pc = "stopping"
    /\ UNCHANGED <<spawnCount, nextId, world, call, calls, reply, listed>>
    /\ IF todo = <<>>
       THEN pc' = "stopped" /\ UNCHANGED <<process, tools, indexed, lines, todo, condemned>>
       ELSE Terminate(Head(todo)) /\ UNCHANGED todo

(* Every upstream is terminated in turn. *)
Stopping ==
    /\ pc = "stopping"
    /\ UNCHANGED <<spawnCount, nextId, world, call, calls, reply, listed>>
    /\ IF todo = <<>>
       THEN pc' = "stopped" /\ UNCHANGED <<process, tools, indexed, lines, todo, condemned>>
       ELSE IF process[Head(todo)] = 0
            THEN todo' = Tail(todo) /\ UNCHANGED <<process, tools, indexed, lines, pc, condemned>>
            ELSE Terminate(Head(todo)) /\ UNCHANGED todo

--------------------------------------------------------------------------------
(* What an upstream does by itself *)

Runs(u) == spawnCount[u] \in alive[u]

(* The queue of a process that is forgotten is never read. *)
Appended(u, line) ==
    lines' = IF process[u] = spawnCount[u] THEN [lines EXCEPT ![u] = Append(@, line)] ELSE lines

Writes(u, line) ==
    /\ Runs(u) /\ open[u] /\ process[u] = spawnCount[u]
    /\ Len(lines[u]) < MaxLines
    /\ Appended(u, line)
    /\ UNCHANGED <<process, spawnCount, tools, indexed, nextId, world, serving, observed>>

(* A request is answered, late or more than once. *)
Answer(u) ==
    \E r \in inbox[u], k \in {"result", "error"} :
        Writes(u, [kind |-> k, id |-> r.id, of |-> r.of])

(* An upstream numbers its own requests as it likes. *)
Ask(u) == \E i \in 1..nextId[u] : Writes(u, [kind |-> "request", id |-> i, of |-> 0])

Garbage(u) == Writes(u, [kind |-> "garbage", id |-> 0, of |-> 0])

Ends(u) == Appended(u, [kind |-> "eof", id |-> 0, of |-> 0])

(* The output is closed and the process runs on. *)
EndOutput(u) ==
    /\ Runs(u) /\ open[u]
    /\ open' = [open EXCEPT ![u] = FALSE]
    /\ Ends(u)
    /\ UNCHANGED <<process, spawnCount, tools, indexed, nextId, alive, inbox, serving, observed>>

Exit(u) ==
    /\ Runs(u)
    /\ alive' = [alive EXCEPT ![u] = @ \ {spawnCount[u]}]
    /\ open' = [open EXCEPT ![u] = FALSE]
    /\ IF open[u] THEN Ends(u) ELSE UNCHANGED lines
    /\ UNCHANGED <<process, spawnCount, tools, indexed, nextId, inbox, serving, observed>>

--------------------------------------------------------------------------------

Reading(u) ==
    \/ Skip(u) \/ Initialized(u) \/ Listed(u) \/ Called(u) \/ Refused(u) \/ Broken(u)

Ensure(u) == UseStarted(u) \/ Spawn(u) \/ SpawnFails(u) \/ SendFails(u)

Upstream(u) == Answer(u) \/ Ask(u) \/ Garbage(u) \/ EndOutput(u) \/ Exit(u)

Next ==
    \/ Search \/ SearchPasses \/ SearchEnds \/ Shutdown \/ Stopping
    \/ CloseOutput \/ WriteWhileClosing \/ Kill
    \/ \E u \in Upstreams : Ensure(u) \/ Reading(u) \/ Timeout(u) \/ Upstream(u)
    \/ \E u \in Upstreams, t \in Tools : Address(u, t)

Spec == Init /\ [][Next]_vars

(* The gateway's own loop runs on, and its deadlines pass; nothing is       *)
(* assumed of the agent or of an upstream.                                  *)
FairSpec ==
    /\ Spec
    /\ WF_vars(SearchPasses \/ SearchEnds \/ Stopping \/ CloseOutput \/ Kill)
    /\ \A u \in Upstreams : WF_vars(Ensure(u)) /\ WF_vars(Timeout(u))

(* An upstream exits when its input is closed. *)
ExitOnEof(u) == pc = "closing" /\ u = Head(todo) /\ Exit(u)

PoliteSpec == FairSpec /\ \A u \in Upstreams : WF_vars(ExitOnEof(u))

--------------------------------------------------------------------------------

(* The variables hold what their comments say. *)
TypeOK ==
    /\ process \in [Upstreams -> Nat]
    /\ spawnCount \in [Upstreams -> 0..MaxSpawns]
    /\ tools \in [Upstreams -> SUBSET Tools]
    /\ indexed \in [Upstreams -> BOOLEAN]
    /\ nextId \in [Upstreams -> Nat]
    /\ \A u \in Upstreams :
          /\ process[u] \in {0, spawnCount[u]}
          /\ lines[u] \in Seq([kind : {"result", "error", "request", "garbage", "eof"},
                                id : 0..nextId[u], of : 0..calls])
          /\ inbox[u] \subseteq [id : 1..nextId[u], method : Methods, of : 1..calls]
          /\ alive[u] \subseteq 1..spawnCount[u]
          /\ condemned[u] \subseteq 1..spawnCount[u]
    /\ open \in [Upstreams -> BOOLEAN]
    /\ pc \in {"idle", "serving", "closing", "killing", "stopping", "stopped"} \cup Methods
    /\ pc \in {"closing", "killing"} \cup Methods => todo # <<>>
    /\ call \in Calls
    /\ todo \in Seq(Upstreams)
    /\ calls \in 0..MaxCalls
    /\ reply \in 0..MaxCalls

(* "one process per upstream, ever" (docs/mcp-upstream-security-model.md),  *)
(* through failed starts, deadlines, answers that make no sense and         *)
(* processes that go away by themselves; and none is left when the gateway  *)
(* has shut down.                                                           *)
OneProcessPerUpstream ==
    \A u \in Upstreams :
        /\ \A g, h \in alive[u] : g = h
        /\ pc = "stopped" => alive[u] = {}

(* What is relayed for a call was computed for that call: an answer to an   *)
(* earlier call that was given up, a second answer and a request of the     *)
(* upstream's own are never taken for it.                                   *)
AnswerIsForTheCall == reply # 0 => reply = calls

(* A tool is called on the process that has listed it, or on one that       *)
(* replaced it after it went away by itself: what a process listed that the *)
(* gateway gave up is not used again.                                       *)
CalledToolWasListed ==
    pc = "tools/call" =>
        LET u == Head(todo)
        IN  \E g \in 1..process[u] :
                <<g, call.tool>> \in listed[u] /\ condemned[u] \cap (g..process[u]) = {}

(* "Every upstream interaction has a hard deadline" (docs/mcp-gateway.md):  *)
(* a meta-tool call, and the shutdown, come to an end.                      *)
CallEnds == pc \notin {"idle", "stopped"} ~> pc \in {"idle", "stopped"}

================================================================================
