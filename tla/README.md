# A formal model of unlimited-skills

`unlimited-skills` is a local skill library for coding agents (search, packs,
learning), with optional parts around it: a gateway for MCP servers, a team hub,
hosted registration and updates, and a *fleet agent* that brings signed packs
onto many machines and reports, as evidence, what really runs there.

This directory holds TLA+ modules of the parts with state and failures of their
own (the fleet agent, the gateway, its signed profiles, and the installation of
collections and private packs), the TLC configurations that check them on small
instances, and proofs for TLAPS. `PROJECT.json` maps each
definition to the lines it stands for. Paths below are relative to the
repository's `unlimited_skills/` unless they start with `docs/`.

## Inventory

The fleet agent is where the program's hard behaviour is: it keeps state in
several files with no lock, it may be killed anywhere, more than one process
writes its files, it talks to a registry over a network that loses and repeats,
and the registry draws conclusions from what it reports. Next come the parts where
processes meet other processes (the MCP gateway) or files that a command replaces
in several steps (trust store, bundles, collections, private packs).

| Component | State | Operations | What makes it correct |
|---|---|---|---|
| Receipt spool (`fleet/spool.py`) | a file per receipt; `sequence-state.json` | `append`, `acknowledge`, `pending`, `last_event_*` | numbers of an attempt are never reused, and leave a gap only after a failed write; the newest event is never forgotten |
| Receipt builder (`fleet/receipts.py`) | `_sequence` | `build` | starts at the newest number the spool knows |
| Reconciler (`fleet/reconciler.py`) | `reconcile-state.json` (the control epoch) | `reconcile` and its two multi-pack branches | milestones in order, activation only of a complete inventory, every attempt closed, old documents refused, the newest document brought to an end |
| Managed runtime (`fleet/managed_runtime.py`; Claude Code, Codex, Hermes, OpenClaw adapters) | skills directory, `active.json`, `runtime-current.json`, `runtime-history/` | `discover`, `install_revision`, `activate_inventory`, `attest_inventory`, `detect_inventory_drift`; hooks call `record_managed_runtime_observation` | an activation that fails, but for its second move, undoes itself; an attestation is backed by a session of this very activation |
| Agent client (`fleet/client.py`) | `agent-identity.json` | `register`, `heartbeat`, `upload_pending_receipts`, `run_once` | one identity for good; no receipt lost; the spool drains |
| Service client (`service_client.py`) | none | `request_json` with retries | a repeated or late request does no harm |
| Wire contract (`fleet/contract.py`) | none | validation, digests | pure |
| MCP gateway (`mcp/gateway.py`, `protocol.py`, `server.py`) | child processes, request ids, queues, tool index | meta-tool calls, start, index, request, terminate, shutdown | an answer reaches its request or nobody; one process per upstream; every call ends |
| Tool profiles (`mcp/profiles.py`) | none | validation, resolution along `extends`, intersection | a local profile only narrows a bundle; an upstream is started only when it can contribute |
| MCP trust and bundles (`mcp/trust_store.py`, `bundles.py`, `bundle_publisher.py`) | `trusted-keys.json`, revocation list, metadata; a package of four files | import, revoke, publish, verify at start | what is revoked is refused by gateways started later; a package agrees with itself |
| Profile rollout (`mcp/profile_rollout.py`) | rollout reports and stages | evaluate, promote | a stage is promoted on its own evidence |
| MCP audit (`mcp/audit*.py`, `savings.py`) | append-only log | append, rotate, replay | nothing recorded is lost |
| Hub (`hub*.py`, `remote_client.py`) | allow-list, entitlements, snapshots | serve, refresh | an expired entitlement serves nothing |
| Collections and private packs (`updates.py`, `private_packs.py`) | installed directory, backup beside it, snapshots, manifest | install, undo, roll back, remove | no installed version is lost; the manifest tells what is installed |
| Registration, self update (`registration.py`, `self_update.py`) | registration state, archives of the tool itself | register, apply | an update that fails leaves the old version |
| Team and policy sync (`team.py`, `policy_sync.py`) | team library, policy cache | sync, revoke | a revoked pack is not used |
| Installers (`adapters.py`, `native.py`, `installers/`, `sync_inject.py`) | an agent's configuration, backups | install, migrate, roll back | a rollback restores the configuration |
| Search, learning, savings, catalog, diagnostics, command line | indexes, logs, cached answers | reading and arithmetic | mostly pure |

How the fleet's parts meet: `run_once` calls `register` (identity file, registry),
`adapter.discover`, `heartbeat` (the registry answers with the signed desired
state), `reconcile` (adapter, spool), `heartbeat` again and
`upload_pending_receipts` (spool, registry). Vendor runtimes run hooks of their
own that write observations while the agent works. Everything is meant to be
repeated: a scheduler or an operator runs `run_once` again and again.

The gateway runs in a coding agent's session, between the agent and the MCP
servers ("upstreams") of its config. When it starts it reads a profile, from a
local file or from a signed bundle checked against the trust store, and the
profile decides for the whole session which upstreams are started and which tools
are shown or called. Trust commands and publishing ceremonies are separate
processes that only share files with it. Installed collections are read by the
search; their commands share nothing with the fleet agent.

The hard behaviours, line by line, are the `hazards` of `PROJECT.json`: crashes
between two file steps, overlapping `run_once` processes, hooks that read stale
files, documents delivered again or out of order, requests that arrive late or
twice, one pack of several failing, a number taken and never spooled, an upstream
that answers late or not at all, a revocation that is written while a gateway
starts, a copy that fails after the old directory was set aside.

## Modules

```
ReceiptLedger           what the spool promises        (abstract)
ReceiptSpool            the spool's files              implements ReceiptLedger
  ReceiptSpoolProofs
DeliveryAttempt         an attempt as the registry sees it (abstract)
FleetReconciler         uses the spool through ReceiptLedger's promises,
                        implements DeliveryAttempt
  FleetReconcilerProofs
AgentAdapter            the adapter as the reconciler sees it (abstract)
ManagedRuntime          adapter, hooks and their files  implements AgentAdapter
  ManagedRuntimeProofs
ReceiptUpload           client, network, registry, over ReceiptLedger's promises
  ReceiptUploadProofs
FleetIdentity           identity file, registration
  FleetIdentityProofs
McpGateway              the gateway's loop and its upstreams
  McpGatewayProofs
ToolProfiles            what a profile document grants (no state)
ProfileBundles          extends ToolProfiles: publisher, trust store, gateway start
  ProfileBundlesProofs
CollectionInstall       install, rollback, removal of a collection or private pack
  CollectionInstallProofs
MC...                   symmetry and constants for TLC
```

### ReceiptLedger and ReceiptSpool

`ReceiptLedger` is the spool as its callers see it: a set of pending receipts
and, for each attempt, the newest event (`last`). An append is above every
number of its attempt; a retirement removes a receipt and forgets nothing.

`ReceiptSpool` is the directory. `files` are the `evt_*.json` files, `seqState`
is `sequence-state.json`, `builder` the counters of live `ReceiptBuilder`s. An
append is two steps (`BuildAndLink`: `os.link` of the complete file;
`RecordAppended`: replacement of the state file), and so is each receipt of an
acknowledgement (`AcknowledgeRecord`, `AcknowledgeUnlink`). `Stop` ends the
process between any two; `BuildAndFail`, `RecordFails` and `AcknowledgeFails`
are failing writes. `Init` includes what older clients left: a state file with
numbers only (schema 1) or without generations (schema 2), completed from the
receipts by `_record_event_sequence`. Event types and generations are values
nothing tells apart; ids are numbers where the code draws a UUID.

One process at a time uses the spool in this module. What overlapping processes
do to it is in `ReceiptUpload` (retiring) and in the limits below (appending).

### DeliveryAttempt and FleetReconciler

`DeliveryAttempt` is the state machine of the wire contract
(`src/contracts/fleet/v1/state-machine.json`, `attempt`): the ordered path of an
attempt, its failures, and the two things an attested one may receive, an attestation of
another generation or a drift of the attested one. Each attempt has a `stage`, the type
and generation of its last receipt; `stopped` says that some pass was killed or left by a
failing append, after which an attempt may be announced once more, a failed one too.

A desired state is named by its control epoch, an attempt by epoch and pack.
`reported` is the sequence of events of each attempt, which is what the spool
promises to keep; `outbox` holds the receipts the code spools next, before it
does anything else, so that a crash, or a failing append, can fall before each
of them. `pc` is what a process does after that: `next` and `install` are the
loop over the items, then activation, `attest` and `drift`, and `finish`
(`_result` and `_write_epoch_state`, the only place that records the epoch).
`Begin` is a document with a higher epoch, `Resume` the recorded one again.

The adapter is seen as the reconciler sees it: which inventory is `active`,
whether it `drifted`, and with what the runtime was last observed. `runtime.gen`
grows with each session. A receipt about a running runtime carries a `claim`, the
generation and the inventory it asserts. Every pass begins with `discover`, which
raises when an inventory is active and there is no skills directory (`lost`). An
activation that is killed or fails half way (`HalfExchanged`) may leave the agent so;
only another hand (`Tamper`) puts a directory back.

### AgentAdapter and ManagedRuntime

`AgentAdapter` is the adapter by its promises: an inventory is active, or none, and its
files may have been changed; a runtime is observed under a new generation; the
reconciler asks, and is attested (with the inventory asked for and a generation seen
with this very activation) or refused. `FleetReconciler` uses the adapter in this way.

`ManagedRuntime` is the same adapter, from inside. The agent replaces the skills directory in the
code's steps (`Stage`, `MoveAside`, `MoveIn`, `RecordActive`), with a failure of
each (`MoveInFails`, `RecordFails` and then `PutBack`) and a crash between any
two. A hook reads `active.json`, then the tree, creates the history file
exclusively, writes it, and replaces `runtime-current.json`, as five steps, so
that all of the agent's steps, those of other hooks and the end of the session
may fall between them. `attest_inventory` reads the current record and compares
it (`Evidence`) with the files as they are then. A tree is named by the
inventory it holds, so the digests that the code compares are equal exactly when
trees are; a generation is the pair of session and activation marker that the
code hashes.

### ReceiptUpload

`upload_pending_receipts` as the steps between which other processes and the
network act: cut a batch, send it, wait, retire receipt by receipt. `wire` holds
the requests on their way. A request the client has given up (`Abandoned`) is
lost or arrives later with nobody to answer. The registry is not in the
repository; `Answers` are the answers that the client distinguishes: a batch is
taken whole or not at all, a missing number is `sequence_gap`, an attempt that a
newer desired state replaced is `stale_attempt` and may name receipts, and a receipt
whose content the registry does not take (`Refuse`) is `rejected` or a `conflict`, for
good; the drift receipt of the run `reconciler_drift_claim` is one. After the last two
the client ends the loop and keeps everything, as
`docs/fleet-wire-contract-v1.md:264` says: "A rejected atomic batch leaves every spool
entry intact". Three assumptions about the registry matter: what it rejects as stale is
stale, as the client deletes it unasked; a repeated batch is answered like the first;
and it looks whether an attempt is still wanted before it looks at the content and the
number of a receipt.

### FleetIdentity

The identity file as two steps of a first run (`Create` links, `Reload` reads
what is there) and three of binding (`Bind` compares, `Replace`, `Verify`), over
any number of overlapping processes, which may believe in different
installations. The registry answers one agent id per installation and UUID.

### McpGateway

`pc` is where the gateway's single loop is: between calls (`idle`), going through
the upstreams of a call (`serving`, `todo`), waiting for an answer (`pc` is then
the method asked for), ending a process (`closing`, `killing`) or shutting down. An
upstream's process is named by its place among those started, so that what an
earlier process of the same upstream left behind (an index, a queue, a listing) is
told from the present one's. `lines` is the queue that the reader thread fills;
`inbox` holds every request the process was sent, each of which it may answer, late
or more than once. `Terminate` drops the process and its index before the kill, as
the code does; `CloseOutput` and `WriteWhileClosing` are the two ways in which
`stdout.close()` gets the lock that the reader thread holds. The tools of an
upstream are a set that it chooses when asked; the profile is what `Visible` and
`Callable` say. An answer carries the call for which it was computed (`of`), which
nobody in the code sees: `AnswerIsForTheCall` speaks of it.

### ToolProfiles and ProfileBundles

`ToolProfiles` gives a profile document its meaning: the walk along `extends` with
its depth limit, the validation, the resolution and the intersection of two
profiles. A rule set with its globs is a set of pairs of upstream and tool or `Any`.

`ProfileBundles` is about files that several programs write and one reads. A trust
command reads everything, then replaces the keys (`WriteKeys`) or the list of
revocations (`WriteCrl`) and then the metadata (`WriteMetadata`); what it read may be
old by then when several `Managers` run. A ceremony (`Sign`) checks all it has
signed, writes three sidecars and then the bundle; a failing write removes the
sidecars it wrote, killing leaves them. A gateway start is one step per file:
`Start` reads the bundle, `ReadKeys` the keys, `ReadCrl` the list, `Resolve` the
local file; `session.origin` remembers what was served and what had been reported
as revoked before the start. A signature is the pair of key id and key material;
equal contents have equal digests.

### CollectionInstall

One installed directory with the hidden backup beside it, the snapshots by name,
and the manifest. Every rename, copy and write is an action; `Fails`, `Undo` and
`Restore` are the undo of `updates.py` and `private_packs.py`, and `Stops` a kill, or
a failure where nothing is undone. `shutil.move` copies and deletes what it cannot
rename: `SetAsideFails` has what that leaves where the old directory is set aside, no
backup, a part of one or a whole one; in the other steps a move is a rename. A copy is
two steps, as a tree that was cut short is `Partial`. The name of a snapshot is its second and a suffix, in the order of the
alphabet, because rollback takes the newest by name, and `shutil.move` to a name
that exists moves *into* that directory (`Joined`). `kind` chooses between the
two commands that share these steps. History variables (`kept`, `wiped`, `torn`,
`misnoted`) record what was reported and which exceptions occurred.

## Runs

Each run is one question. Bounds are constants of the modules with the name
`Max...`.

| Run | Properties | Instance, and why it is large enough |
|---|---|---|
| `receipt_spool` | `TypeOK`, `SequenceNeverReused`, `NoSequenceConflict`, `GapOnlyAfterIOError`, `ImplementsLedger` | 2 attempts, 2 types, 1 generation, 3 receipts, 1 failing write, any number of crashes: an older client's receipt, one linked and one acknowledged may coexist |
| `reconciler_crash` | `TypeOK`, `MilestonesReached`, `NoRepeatedAttestation`, `RecordedMeansReported`, `FailureClosesAll`, `ActivationFollowsInstall`, `LowerEpochsFailClosed`, `ImplementsAttempt` | 2 packs, 2 documents, both modes of activation, older documents delivered again, any three of one crash or failing append, one failing adapter call, one drift and one idle start (`ThreeMishaps`): a pass that fails halfway, its repetition and a newer document |
| `reconciler_settles` | `NewestSettles` | automatic activation, 2 documents, one crash or failing append, failing call and drift, with an activation that stops half way among them |
| `runtime` | `TypeOK`, `FailedActivationUndone`, `AttestationSound`, `CurrentIsRecorded`, `ImplementsAdapter` | 2 documents, 2 hooks at once, 2 sessions, 2 activations and one mishap of any kind: a hook of the first activation that ends after the second, two hooks of one session, the same files activated twice |
| `upload_overlap` | `RetiredIsSettled` | 2 processes on one spool, 3 receipts of 2 attempts in batches of 2, a fault, a crash; no refused receipt, which retires nothing (the theorem `NothingLost` includes them) |
| `upload_drains` | `TypeOK`, `RetiresWhatIsPending`, `BatchesLeaveNoGap`, `SpoolDrains` | 1 process, 3 receipts of 2 attempts in batches of 2, and any three of 2 faults (all tries of a batch), a gap, a refused receipt, a crash and an answer that names no receipt (`ThreeMishaps`) |
| `identity` | `TypeOK`, `OneAgentRegistered`, `IdentityIsKept` | 3 processes, 2 installations, 3 UUIDs, 2 faults |
| `gateway` | `TypeOK`, `OneProcessPerUpstream`, `AnswerIsForTheCall`, `CalledToolWasListed`, `CallEnds` | 2 upstreams that the profile shows and one it hides, 2 calls and the shutdown, 2 processes of each upstream, one unread line, of one upstream at a time (`OneQueueAtATime`: a call reads one queue only): a late answer to the first call meets the second, a second process meets the index of the first |
| `bundles` | `TypeOK`, `RevokedIsRefused`, `RevocationsExplained`, `SidecarsDescribeTheBundle`, `GrantsOnlyNarrow` | one trust command at a time, 1 key id with 2 materials, 2 documents, 4 local files (one with a cycle, one not covered), 2 bundles, 1 stopped command, 2 instants: a bundle and its successor, before and after its key was revoked |
| `install` | `TypeOK`, `NothingLost`, `ManifestTellsTheTree` | both kinds, 2 versions, 4 installs over 2 seconds, 2 faults: a failed or killed undo of a failed install, two snapshots of one second, a kill between exchange and manifest |

These runs show where the code does not do what the repository says of it:

| Run | Violated | What TLC shows |
|---|---|---|
| `reconciler_drift_claim` | `DriftClaimsOtherInventory` | a drift receipt asserts the inventory of the attestation before it, which is the desired one |
| `gateway_hangs` | `CallEnds` | `terminate` closes the output of the upstream while the reader thread waits on it: an upstream that stays silent and ignores the end of its input holds the gateway for ever, without reaching `process.terminate`; the documented deadline does not cover it |

`FailureClosesAll` and `LowerEpochsFailClosed` are conditional, and so is the part of
`ImplementsAttempt` that lets nothing follow a failure: they hold as long as no pass
was killed or left by a failing append (`EveryPassEnded`), because only the end of a
pass records the epoch. After a crash in the middle of a
document, that document, and an older one too, is taken as new.

Two more statements are conditional. `NewestSettles` holds as long as there is a skills
directory in the end, since without one every pass ends in `discover`; TLC shows that it
fails without this condition. `SpoolDrains` holds if every attempt with a gap or a
refused receipt is superseded in the end.

Deadlock is not checked in the reconciler, runtime, upload, gateway and install
runs: their bounds (documents, sessions, receipts, commands) end every behaviour, an
agent with nothing to do is at rest, and a gateway's session is over when `pc` is
`stopped`.

Symmetry is used where nothing tells members of a set apart (attempts and types
of the spool, processes, hooks, installations) and never in a run that checks
liveness.

Other observations, made with these modules and their neighbourhood:

- A pass killed between the receipts of a failure and the record of the epoch is
  repeated: the failed attempt starts anew (`FailureIsTerminal` without the
  condition of `FailureStays`).
- Two overlapping reconcilers, the slower with the older document, take the recorded
  epoch back (`docs/fleet-wire-contract-v1.md:160`: lower epochs fail closed).
- Between the two moves of an activation there is no skills directory
  (`fleet/adapter.py:114` and `docs/fleet-wire-contract-v1.md:162` call the replacement
  atomic). An agent killed between them (`fleet/managed_runtime.py:884`), or whose second
  move fails, after which the clean-up deletes the backup too (919-923), is stuck:
  `discover` raises `managed_skills_directory_invalid` (124, 507) in every later pass, and
  no code path makes the directory again.
- One refused receipt stops the upload of all that come after it, of every attempt,
  until its attempt is superseded (`fleet/client.py:666`).
- A profile may declare a field that no ancestor declares, and then grants what its
  parent denies (`mcp/profiles.py`, `docs/mcp-permissioned-tool-profiles.md`).
- Two overlapping trust commands can lose a revocation that one of them has reported
  (`docs/mcp-trust-store.md:107` calls the list append-only).
- A forced ceremony that fails removes the sidecars it had overwritten, those of the
  bundle still in place (`mcp/bundle_publisher.py:819`): `SidecarsDescribeTheBundle`
  allows a missing sidecar, never a wrong one.
- When setting the old directory aside fails, the undo deletes it (`wiped` in
  `NothingLost`), or puts back a part of it.

## Fairness

`NewestSettles` assumes that the process gets on when it can (`WF` of its steps),
that `run_once` is started again and again, as the scheduled control loop does
(`WF` of `Begin` or `Resume`, which `discover` may disable), and that a runtime is
started after an activation (`WF` of `RuntimeStart`). Crashes, failures, tampering and
idle starts are never required. `RuntimeStart` is free of its bound when it records something new; a start
within the bound may also publish what a late hook saw, of files that are gone.

`SpoolDrains` assumes that the control loop repeats and its passes come to the upload
(one that raises in `discover` or `reconcile` does not), that a process gets on, and
that the registry answers a request whose sender still waits. It is conditional:
an attempt whose numbers have a gap, or of which a receipt is refused, has to be
superseded, since the registry answers the batch that shows it with `sequence_gap`,
`rejected` or `conflict` for ever and the client keeps every receipt behind it.

`CallEnds` assumes that the gateway's loop runs on and that its deadlines pass
(`FairSpec`), which is what a running process and a clock give, and nothing of the
agent or the tools. `PoliteSpec` adds that an upstream exits when its input is
closed, as MCP asks of a server on stdio; the run `gateway_hangs` shows that the
addition is needed. The bounds on unread lines and processes stop the upstreams, never
the gateway: a gateway at its bound of processes has still a failing start.

## Proofs

All theorems hold for every value of the constants that satisfies the named
assumptions (`SpoolConstants`, `UploadConstants`, `IdentityConstants`,
`ReconcilerConstants`, `RuntimeConstants`, `GatewayConstants` and the named
assumptions of `ToolProfiles`, `ProfileBundles` and `CollectionInstall`): they say
that the extra values (`None`, `NoReceipt`, ...) are not ordinary ones, that the
bounds are naturals, that the packs of a document are finitely many and that the
gateway's config lists every upstream.

**ReceiptSpool.** `SequenceNeverReused` is not inductive: a state in which a
builder is behind the directory satisfies it and the next `build` breaks it.
`IInv` adds that every live builder is at or above all numbers the directory
knows (`BuilderAhead`), that the directory, files and record together, knows
every number ever used (`Remembered`, through any crash), that what is recorded
for a number agrees with its receipt (`RecordAgrees`), that a receipt is unlinked
only once it is fully recorded (`AckedRecorded`), and that a greatest number
exists (`HasNewest`), so that `Max` in the code's sense is defined. From it follow
`TypeOK`, `SequenceNeverReused`, `NoSequenceConflict` and, with one lemma on how
each step changes `_last_event_state`, `ImplementsLedger`. `GapOnlyAfterIOError` needs
that as long as no write failed, every number recorded or counted is that of a
receipt (`IGap`).

**ReceiptUpload.** `RetiredIsSettled` needs that whatever a process is about to
retire is settled (`IAcking`), hence that an answer is still true when it is read
(`IReply`: accepted receipts stay accepted, stale attempts stale, and only an answer that
takes or supersedes lets the client retire anything), hence that the
answer is about the batch the process holds (`IWire`: a request that somebody
waits for carries the sender's batch, and a given-up one has no receiver).
`TypeOK` needs that finitely many receipts exist, with bounded numbers (`IAppended`),
so that the newest and the oldest of an attempt exist, and that an answer rejects
receipts of its batch only (`IAsked`). `BatchesLeaveNoGap` rests on `IGapless`: as long
as nothing was skipped, each receipt follows one that was appended, so what precedes
the oldest of a spool has been taken; what the registry knows only grows.
`RetiresWhatIsPending` is proved for one process (`OneProcess`), whose batch nobody
else retires (`IPresent`).

**FleetIdentity.** A process past `load_or_create` holds the stored identity but
for the agent id (`IHeld`), and the registry knows no other (`IRegistered`), so
binding compares and replaces without a lock and still changes nothing but an
absent agent id. This rests on the registry repeating the agent id it issued.

**FleetReconciler**, with one process at a time (`OneProcess`). That a recorded epoch
has no open attempt depends on receipts that are still to be spooled when a pass may
be killed. `After(p, k, T)` says what the attempt of pack `k` comes to once the
outbox is spooled; spooling the head of the outbox leaves it unchanged
(`AfterSpooled`), even where a repeated attestation is passed over. `IPass` states
with it how far every attempt is at each point of a pass, `IItems` that an item is
done once, `IOutbox` what the receipts of each point are about, and `IFirst` that the
first attestation of a pass follows a receipt of another kind. From `IInv` follow
`NoRepeatedAttestation`, `RecordedMeansReported` and, for every step,
`ActivationFollowsInstall`. `Unkilled` adds what holds as long as no pass was killed:
all attempts of a document that nobody works on have failed or none has (`IOver`),
nothing was reported of documents above the recorded epoch but of the one worked on
(`IFresh`), and a pass has nothing to spool for a failed attempt. From it follow
`FailureStays` (nothing is reported of an attempt after it failed), `FailureClosesAll`
and `LowerEpochsFailClosed`. `MilestonesReached` has an invariant of its own, `MInv`:
the receipts a pass has still to spool, joined to the last reported one of their
attempt, walk through the milestones one by one.

That the reconciler implements `DeliveryAttempt` (`AttemptsImplemented`) needs one more
part, `LInv`: each receipt in the outbox is one its attempt may receive when its turn
comes (`Legal`). While attestations are being spooled, every attempt whose receipt is
out has the attested generation, also where a repeated attestation was passed over, so
that a drift to be reported afterwards names the generation reported last; and a pass
that still has a runtime event to spool leaves no attempt failed (`LegalOK`).
With it each append is one step of one attempt (`Receives`), and each other step changes
nothing that the registry sees.

**FleetReconciler**, with any number of processes. What two passes do to one attempt
is beyond the code's promises, but three things hold of any number of overlapping ones,
by `OInv`, which speaks of what a pass alone holds: `TypeOK`; `ClaimsOwnInventory`, by
which a receipt about the runtime names the inventory of its own document even when
another pass has activated a different one since; and `PassesEnd`. `ClaimsOwnInventory` turns the finding
`reconciler_drift_claim` from an example into a rule: `EveryDriftIsRefused` says that
`DriftClaimsOtherInventory` holds only as long as no drift was reported at all.
`PassesEnd` is the part of termination that needs no fairness: `StepsLeft` is a number
that every step of a pass lowers, failing appends and failing adapter calls included,
and that only the start of a pass raises, to at most 11 times the number of items plus
5. A failing append in a pass replaces what was to be spooled by receipts of the
failure, and it is not obvious that these, failing in turn, do not go on for ever: the
measure counts them (`Open`).

**ManagedRuntime.** `GenerationNamesOneObservation` (a theorem only) and
`CurrentIsRecorded` rest on `IOwned` (only the hook that created the file of a
generation writes it, and nothing else has) and `IPublished` (what is about to become
current is in the history); `AttestationSound` on a history that only grows. `TypeOK`
is the first part of the same invariant. For `FailedActivationUndone`, `IUndo`
follows the directory through the two moves: while no other hand interferes, what
`PutBack` would put back is what the records speak of.

`AdapterImplemented` shows that the five steps of a hook, the moves of an activation and
the steps of an attestation, in any interleaving, come to the single steps of
`AgentAdapter`. An observation takes effect when its hook replaces
`runtime-current.json`, an activation when `active.json` is replaced; an attestation asks
when the record is read and is given when it has been compared. Between the moves of an
activation the adapter shows as drifted. `IClaims` says that the generations that hooks
have claimed and not yet published are pairwise different, so that publishing one leaves
the others new; `IStamps` says that no record, published or in the hands of a hook,
bears a marker above the number of activations, nor, while an activation is under way,
that number itself, so that an activation makes every session before it stale.

**McpGateway.** `AnswersMatch` needs that every request that carries the awaited id
belongs to the call being served (`IInbox`) and so does every line in the queue
(`IAnswers`). `CallsWhatWasListed` needs that each tool in the index was listed by
a process after which none was given up (`IIndex`), although the index outlives
processes that go away by themselves. `OneProcess` follows from `IProcess` and
`IForgotten`: a forgotten process is gone or about to be killed. `TypeOK` needs that
every id in a queue was used before, for a call that was received (`IBounds`).

**ProfileBundles.** `StartsWhatContributes` and `GrantsNarrow` hold of every document,
chain and ceiling, by lemmas on joined chains and covered rules. `StoreExplains`,
`RevocationHolds` and `TypeCorrect` assume one trust command at a time (`OneManager`),
without which they are false; `RevocationHolds` also rests on the list only growing
between the start of a gateway and its reading of the list. `PackageAgrees`
holds for every ceremony that was not killed after its first write.

**CollectionInstall.** `NothingLost` needs to know where everything is while the target
is being written or removed (`IKept`), `ManifestTellsTheTree` what an undo would put
back and what is about to be noted (`ITold`), and that notes are true of the trees
they lie in (`INotes`); `ISteps` says what each step finds.

Model-checked only: all liveness (`NewestSettles`, `SpoolDrains`, `CallEnds`), since the
prover does not handle fairness. What a recursive definition computes for every input
cannot be proved either (induction over data): that a child profile grants no more than
its parents, where it declares no field of its own, would need it, as the walk along
`extends` is one. Every other property of a passing run is a theorem,
those of the reconciler (but `TypeOK`), of the trust store and `RetiresWhatIsPending` for
one process at a time.

## What the models leave out

- Signatures, digests and canonical JSON: equal exactly when the contents are.
- The expiry of desired states: a refusal without effects.
- The single-item path of `reconcile` for adapters without `activate_inventory`.
- Overlapping processes that append to the same attempt. Both builders would
  start at the same number, as no lock is taken; `ReceiptSpool` and the reconciler
  runs have one process at a time.
- The release archive cache of `install_revision`: a damaged extracted release is
  not downloaded again, and shows here as repeated `InstallItemFails`.
- Gateway: an interrupt from the keyboard, descendants that keep a pipe open,
  `process.wait` raising after the kill, writes that block on an upstream that does not
  read, `tools_search` without refresh and refused calls (they read), audit rows.
- Bundles: file formats and field validation, the refusal of private key material, dry
  runs, the doctor, status and list reports. Codes of refusal are one, "refusing".
- Installs: downloads and their verification happen before the first step and leave the
  library alone; the removal of a tree is one step; overlapping install commands, which
  take no lock, are not modelled.

## Not modelled

`PROJECT.json` names every other part. The wire contract, signatures, search core,
savings and catalog are pure functions or reports of which a test covers an input as
well as a model would. The hub, the audit log, registration, team and policy sync and
self update keep state; most of their operations replace one file or make one request,
and what relates several of them is the next candidate for a model (below).
Installers of agent configurations and the command line are text manipulation and
dispatch. The rollout of profiles only reads and writes reports.

## Plan

1. Compose: `FleetAgent`, the whole of `run_once` over the spool, the reconciler,
   the runtime and the upload, with overlapping processes that append to one
   attempt; the single-item path of `reconcile`; `install_revision` and its
   release directory.
2. `SelfUpdate`: replacement of the running tool; `TeamSync` and `PolicySync`: cached
   policies that go stale, overlapping with installs of the packs they revoke.
3. `Hub`: entitlements and snapshots.
4. Proofs about what overlapping reconcilers do to one attempt, once the reconciler is
   composed with the spool; a measure like `StepsLeft` for the upload of a batch and for
   a call of the gateway.
