# Verification of zc

`zc` is a proxy client: a command line that keeps profiles of proxy
configurations, and a daemon that runs one of them. This directory holds TLA+
models of the parts of it that keep state or run concurrently, the TLC runs that
check them on small instances, and TLAPS proofs of the properties that matter most
for instances of any size. `PROJECT.json` lists, for every definition that models
code, the lines it was written from.

## The system and its modules

| part of the program | code (`src/src/`) | modules | run | proofs |
|---|---|---|---|---|
| profile store | `store.rs` | `Store`, `CasRegister` | `StoreCommits`, `Serving`, `StoreRetry` | `StoreProofs` |
| daemon lifecycle | `daemon.rs` | `Daemon`, `RuntimeOwner` | `DaemonControl`, `DaemonCalls` | `DaemonProofs` |
| changing selections of a running daemon | `cli.rs`, `daemon.rs`, `api.rs` | `Selection` | `SelectionApply`, `SelectionReimport` | `SelectionProofs` |
| accept loop, registry, probe tickets | `runtime.rs`, `connection.rs`, `connection/probes.rs` | `Connections` | `ConnectionsHttp`, `ConnectionsSocks` | `ConnectionsSteps`, `ConnectionsProofs` |
| AnyTLS session and relay | `anytls.rs`, `runtime.rs` | `Relay` | `RelayTransfer` | |
| user service and installer | `user_service.rs` | `UserService` | `UserService` | |
| config commands, legacy mirror | `cli.rs` | `Update` | `Configuration` | |
| override scripts | `override_script.rs` | `OverrideChild` | `Configuration` | |
| rule provider caches | `config_provider.rs` | `ProviderSync` | `Configuration` | |
| preparation of an instance | `service.rs` | `Preparation` | `Configuration` | |
| groups, rules, routes | `config.rs`, `config_provider.rs` | `Routing` | `Serving` | |
| plain HTTP exchange | `runtime.rs` | `Forward` | `Serving` | `StreamProofs` |
| UDP session over a stream | `udp.rs` | `Datagrams` | `Serving` | `SessionProofs` |
| control API server | `api.rs` | `ControlApi` | `Serving` | `SessionProofs` |
| setting outbounds up | `runtime.rs`, `outbound.rs`, `dns.rs` | `Outbound` | `Serving` | `ServingProofs` |
| transport adapters | `simple_obfs.rs`, `outbound.rs` | `Transport` | `Serving` | `StreamProofs` |
| runtime log | `observability.rs`, `fsutil.rs` | `EventLog` | `Serving` | |
| evidence of an instance | `observability.rs` | `Evidence` | `Serving` | `ServingProofs` |

The parts meet in a few places, and the models meet there too. The store is the
only state commands share with each other across time; `Store` has its files and
`CasRegister` what they amount to, and `Selection` and `Update` use a catalog that
is such a register. A command and a daemon meet in the runtime directory
(`Daemon`) and at the control API (`ControlApi` for the server, `Selection` for the
one request that changes files). Inside the daemon, `Connections` has the tasks,
and `Routing`, `Outbound`, `Transport`, `Relay`, `Forward` and `Datagrams` what a
task does with one connection. `Preparation` extends `OverrideChild` and
`ProviderSync`, which it drives.

`Serving` and `Configuration` collect parts that share no state one of their
properties reads: a behaviour picks one part in its first state and follows that.
They add nothing to the parts; they let one run ask all their questions.

## How to run

    tlc -workers 2 -config Serving.cfg MCServing
    tlapm --threads 2 DaemonProofs.tla

A `.cfg` belongs to the `MC` module that is named like it, up to the last word
(`StoreCommits.cfg` to `MCStore`). No configuration replaces a definition: they
give constants their values, so that a theorem and a run about the same property
speak of the same formula. Proofs are written for Z3, Zenon and LS4.

## Conventions

- A step is the code between two points where somebody else can see or change the
  state: between two file operations, two lock operations, two awaits.
- Where the code holds a lock across several steps and releases it when it returns,
  the model does too. A lock that is taken and released within one step has no
  variable.
- A digest is the value it is a digest of; a nonce, token or process id is a
  number that is not used twice, unless the reuse is the question.
- Bounds are constants with a comment that starts with "bound"; limits of the
  code (`MAX_HEARTS`, `QueueSize`, `TicketLimit`) are constants with their names.
  Bounds that stand for exhausted counters of the code (`MaxSequence`,
  `MaxGeneration` in `Store`) refuse the operation as the code does.
- `NONE` is a value that is none of the others; the modules that are proved about
  assume so.
- Deadlock is checked where a part must always be able to go on. The runs with
  `CHECK_DEADLOCK FALSE` are about transfers, shutdowns and commands, which end.
- Definitions whose comment says "Mutant of", or that stand right before a
  definition of nearly the same name, are the plausible mistakes against which the
  properties were tried: with the mistake in place of the definition, the run
  finds the property violated.

## The profile store

**Code.** `store.rs` keeps one file, `state-v2.json` (the catalog: profiles,
their head revisions, desired selections, controller secret, active identity and
a sequence number), and below `profiles/<id>/revisions/<id>` immutable revisions.
Every operation takes `state-v2.lock`, compares the *state token* it loaded
earlier (a digest of the catalog bytes) with the one on disk, prepares the next
catalog, publishes the revisions that catalog will name and replaces the file by
an atomic rename followed by a sync of the root directory. A root left by an
earlier release is converted (*takeover*) under a second lock,
`legacy-cutover.lock`.

**`Store`.** A client is a process with an open store. `pc` says where it is
inside an operation: deciding (`Publish`, `Activate`, `Delete`, `Rename`,
`SelectProxy`, `PrepareSelections`, `EnsureSecret`, `Takeover`), publishing one
directory entry at a time (`Make`, `Sync`, `SyncFails`), committing (`Commit`)
and syncing the root (`SyncCatalog`, `SyncCatalogFails`, `Resync`, `ResyncFails`).
Visible state and what a power loss may leave are separate variables (`entries`
and `durable`, `catalog` and `disk`); `Kill` ends a process between any two
steps, `PowerLoss` ends all of them and keeps any subset of what was not synced.

**`CasRegister`** is the promise: a register that is read whole, replaced only
by a client that has seen its present value, with a sequence that grows by one,
and that falls back on a power loss to a value stored since the last flush.

**Runs.** `StoreCommits.cfg` (two clients, two profiles, one bundle, two commits,
an empty or a legacy root) asks what kills, failed syncs and power losses may take
from what was acknowledged, checks the refinement of `CasRegister`, and, under weak
fairness of each client's own steps, that every operation ends. The fairness is
what the code gives: lock waits have a deadline (`lock_timeout`), and nothing else
in an operation waits for another process. Two commits are a lost update (load,
foreign commit, own commit) and a failed sync followed by a retry. The part
`store` of `Serving.cfg` (one client, two profiles, three bundles, three commits
from a legacy root, three generations, so that both counters meet their end) asks
what long sequences of operations do to active identity, generations and secrets.

`StoreRetry.cfg` is expected to fail and records a disagreement between the code
and its comment. `publish_revision` says of a retry that it must re-establish the
durability of a revision that was renamed but not synced, and it does so for the
revision directory. The directories above it are opened with `SecureDir::child`,
which syncs a parent only after its own `mkdirat` succeeded, and `identity.json`
is only verified. A first attempt that fails between creating one of those and
syncing its parent leaves an entry the retry trusts; the catalog the retry commits
durably names a revision that a power loss can still take away. The constant
`Interruptible` names the levels at which a create may miss its sync: the passing
runs leave out the three levels above the revision.

**Left out.** The content of revisions (a name stands for its content; its digest
is verified on every read), edits of legacy files while they are taken over, the
JSON forms, and the size limits on catalog and revision files.

## The daemon's lifecycle

**Code.** `zc start`, `stop`, `restart` and `status` are processes that share with
the daemon nothing but a runtime directory: `zc.lock`, held by whoever owns the
runtime and handed to the child as an open file; `zc.launch.lock`, `zc.stop.lock`
and `zc.lifecycle.lock`; `zc.pid` and `zc.daemon.json` (the *descriptor*, which
says whether the instance is ready and names its prepared snapshot); and one stop
request file per instance.

**`Daemon`.** `call[c]` is the progress of a command, with one label per step of
the code: `Observe` and its two readings of the descriptor around the probe of
`zc.lock`, the removal of stale files, the launch (`TakeLaunchLock`, `AcquireStart`,
`Clean`, `Spawn`, `AwaitReady`), the stop (`TakeStopLock`, `WriteRequest`, `Poll`),
and the restart, which captures an instance, stops it, launches its replacement and
goes back to the captured one if that fails. `phase[i]` is the progress of an
instance: it is spawned, takes the lifecycle lock, writes `zc.pid`, announces
itself, saves its snapshot, serves, and goes down in the order of the code. Every
wait may end by its deadline; with `Faults`, commands and instances are killed
between any two steps.

**`RuntimeOwner`** is what everybody else relies on: one owner at a time, which
comes once, and an announcement that only the owner makes and withdraws, or that
is swept after the owner died and before the next one comes.

**Runs.** `DaemonControl.cfg` (two commands of the four kinds, two instances) asks
the safety questions and checks the refinement: two commands race for every lock
and file, and two instances are an old and a new one. `DaemonCalls.cfg` (two
restarts, one instance, kills of either) asks for `CallsEnd`, of one of the two
callers since they are interchangeable: a command's own steps
are weakly fair, and its deadlines strongly fair, because a deadline is an instant
that passes although the loop that compares it with the clock leaves and comes back
to the place where it does. Nothing is assumed of instances: they may never become
ready, hang while they drain or ignore a request. A restart makes every kind of step
the other commands make. The foreground start has no passing run of its own; the
proofs cover it, since they leave `Operations` open.

**Left out.** Service-owned instances (`UserService` has them), replacement of the
runtime directory itself, and the authenticated form of snapshots.

## Selections of a running daemon

`zc proxy select` commits the new choice to the catalog under the next generation
and then asks the running instance to apply it. The instance takes the store's
lock, compares the request with its own identity and with the catalog, saves a new
snapshot, switches its data plane, publishes the descriptor and discards the old
snapshot; a publication that fails puts everything back. **`Selection`** has the
commands (`Load`, `Select`, `ObserveRuntime`, `Send`, `Receive`, timeouts), the
instance's request step by step (`Accept` to `DiscardPrevious`, `PublishFails`),
requests that are lost, late or answered after the command gave up, other commits
(`Republish`, `Delete`, `Import`), restarts with their rollback, and kills. Each
command has an HTTP connection of its own, so the answer to a request it gave up
waiting for reaches nobody.

`SelectionApply.cfg` has two commands, two groups, two revisions (the second
without one of the groups), two commits and two instances: enough for a commit
between any two steps of a request, and for a restart under it.
`SelectionReimport.cfg` is expected to fail. Its bounds are the smallest that show
the case: one instance, two generations, six commits. Deleting a profile and
importing the same document again restarts its generations under the same revision.
In the trace one command selects in two groups, generations 1 and 2, and its request
carries the first selection under generation 2. Before it arrives the profile is
deleted and imported again, and another command selects twice in the first group and
ends at the same choice there, under generation 2. The instance finds revision,
generation and selection as the request says and confirms it, though what the first
command had chosen in the second group is not in force. `docs/cli/spec.md` says of "Applied"
that the running instance is confirmed to have applied it. Without a reimport the
property holds, and that is what `SelectionsMoveForward` states.
Selections of unmanaged configurations touch neither catalog nor descriptor and are
left out.

## Connections

**`Connections`** has the accept loop of `Runtime::run`, a task per connection with
the record it keeps for the control API, SOCKS UDP associations with their worker
tasks, and the probe tickets that tie a diagnostic request to its route. A task is
cancelled only where it awaits; a step is what it does between two accesses to
shared state. `ConnectionsHttp.cfg` has two kept-alive connections whose requests
carry the same ticket, routes that connect or reject, closes, failures and
shutdown. `ConnectionsSocks.cfg` has tunnels and associations that compete for one
UDP permit. There the tasks that can run are polled and the loop goes on
(`FairSpec`, what the executor guarantees), and clients and servers may do nothing
for ever: closes and shutdowns end all the same, because they interrupt every await.

## AnyTLS

**`Relay`** is one AnyTLS session with the two futures of `transfer` that drive it:
groups of packets cut by a padding scheme, heartbeats whose answers both futures
may have to write, the close with its drain, whole close and idle expiry, over two
bounded queues for TLS and TCP. `RelayTransfer.cfg` gives every queue room for one
the server two heartbeats and one chunk, and the client one chunk, so that both
directions are full at once and a heartbeat can meet a full queue of answers. `TransferEnds` assumes that the relay's task is polled when it can run, that
the server finishes sending before it reads (the worst peer there is), reads on and
closes after that, and that the client closes some day; no timeout is assumed to
fire. Padding is reduced to the number of packets of a group; updates of the
scheme, keep-alives, and the half-close relay of other outbounds
(`tokio::io::copy_bidirectional`) are left out.

## User service

**`UserService`** has the seven `zc service` commands, which hold one operation lock
from beginning to end, the manager that restarts a service that dies, the service's
process, an instance started by hand, and the install transaction with its backup,
lease, publication and recovery. Manager commands may fail before or after they take
effect; processes die, commands are killed, the machine reboots, installs are
interrupted. Three processes and three versions are enough for a service that dies
under a command, is restarted and is then replaced and rolled back. Definitions are a
flag, and file-system errors of `write_record` are left out.

launchd and systemd are one manager with two differences, which `platform` tells
apart. On launchd a start reloads the job first (`Reload`, the `bootout` of
`start_ready`), after an inspection that found no process: what was started between
the two is stopped. `StopsOnlyItsOwn` names that step as the exception and says that
it is never the process the command had captured. On launchd the start at login also
has two parts, the copy of the definition (`login`) and an external
`launchctl disable` (`disabled`, `ExternalDisable`), and a start must clear the
second without turning on the first: `LoginIsKept`. If the disable comes after the
inspection, the start leaves the copy and clears the disable, which `LoginIsKept`
says. `docs/cli/spec.md:115` describes the other case, the copy that is removed.
The bound `Installs` has install run on systemd only: the start within it takes no
step that the start in the recovery of a restart does not, which runs on both.

## Configuration

**`Update`** has the `config` commands: a snapshot of the catalog, work outside every
lock, a commit by compare-and-swap with the retry the code makes, the rewriting of
the legacy mirror file by file, and the restart of the daemon if it runs exactly
what was replaced. **`OverrideChild`** has the script runner: pipes with bounded
room, a deadline, a process group whose leader stays unreaped for as long as it may
be signalled, and a script that hangs, forks, floods or closes its pipes.
**`ProviderSync`** has the caches of remote rule providers: paths that may be
aliases, checks of identity around each download, the aggregate budget, and the
publication under a lock. **`Preparation`** composes both the way `prepare_loaded`
does. `Configuration.cfg` runs two commands of any kind at once on two profiles, or
a preparation with a script, or two preparations that share their caches. Some
documents cannot run unless a script patches them (`Ready`): `config override clear`
refuses to leave such a profile without its script, and `CatalogIsUsable` says that
no other command leads there. Initially an instance runs only a profile without a
script, which bounds the number of initial states; one with a script is started by
the restart of a command.

Observed while modelling, and covered by no property:

- When four or more cached providers have expired and all their servers are down,
  every failed download has been charged its limit, so the budget of 64 MiB is gone
  and the fallback to the caches fails too.
- Two synchronizations whose paths are aliases can each replace a file the other
  has just made: the identity check covers what a process itself wrote.
- The configuration file is assumed not to be replaced during a preparation.

## What serves a profile

**`Routing`** loads a document (the cycle search of `resolve_groups` node by node,
the expansion of provider rules with its reservation) and routes one connection rule
by rule while selections and DNS answers change. The properties compare it with the
document itself: `OnlyCyclesRefused` with the transitive closure of membership,
`DocumentDecides` with the unexpanded rules. The documents of `MCServing` are all
graphs over three groups and ten member lists, all pairs of rules out of thirteen,
and provider documents. **`Forward`** is one plain HTTP exchange: upload,
download, closing of the outbound and idle clock in one task.
**`Datagrams`** is a UDP session over a Trojan stream with both bounded queues and
frames that are read and written in parts. **`ControlApi`** is the server: bounded
handlers, authentication, the operations, cancellation and joining.
**`Outbound`** is the setting up of outbounds stage by stage, with the resolver's
permits and the stage and source a failure is counted under. **`Transport`** is
`HttpObfsStream` poll by poll, the progress of Shadowsocks reads and the reset that
AnyTLS must not take for an end. **`EventLog`** is the log under `zc.log.lock` with
its rotation, a program that does not take the lock, and both readers. Its files are
sequences of pieces: a record is written in two, so that `log -f`, which takes no
lock, can meet half of one; an append writes where it looked for the end of the file
and may write over a line that came since; a new file may get the inode number that
`log -f` remembers. **`Evidence`** is the exit marker, the counters and the reporter
thread.

In `Serving.cfg` every queue has its real capacity (two), limits of the code are two
or three so that they are met, and every counter is one more than what a property
distinguishes: three datagrams over queues of two, three calls for two handlers,
three rules of which two come from a provider, two instances of which one finds the
other's marker. A log file holds two records and up to two foreign lines, and two
files are made: enough for a rotation that meets a foreign line at each of
its steps and for a follower whose file is replaced.

`LogIsComplete` says exactly which records the log and its readers may miss, and
that is more than the documentation says. If `rotate_log` finds the file over its
limit, it leaves a warning. But if the other program fills the file after
`rotate_log` measured it, `append_bounded` (`fsutil.rs:717`) replaces the file with
the new record, and zc's own records in it go without a warning; in
`docs/reliability/observability.md:141` one reads that after an external or legacy
writer filled the log beyond its limit zc goes on
"记录 `log_retention_exceeded` 后恢复有界轮转" (after recording
`log_retention_exceeded`), and the comment at `observability.rs:341` does not want
content to be claimed as retained silently. The property lets such records be
missing only if the replaced file had a foreign line. `log -f` moreover does not
print what is archived or replaced between two polls, and is misled by an inode
number that is used again and by an append over a foreign line. That a later
replacement takes the warning with it needs three files; the same run with
`MaxFiles = 3` passes too, with 3.4 million states.

For the exit marker the property is as weak as the code: a marker that was left is
overwritten after the report `previous_exit_unknown` was tried, whether or not it
was written (`observability.rs:420`).

## What is proved

The theorems hold for every value of the constants that satisfies the named
assumptions of the component's module: they say that bounds are natural numbers,
that a unit of a Shadowsocks record has at least a byte, that `NONE` is no other
value, that processes are not instances, and, in
`ControlApi`, that a listener on any interface has a secret
(`validate_controller_auth`) and that a selection is a `PUT`. Each proof finds an
inductive invariant (checked by TLC on the runs' instances before it was proved),
shows that it holds initially and is kept by every action, one lemma per action or
per way of moving, and derives the property from it.

**Store.** `TypeOK` is not inductive: what a client commits is what it prepared
earlier.

- `Typed` adds `PendingOK`: a client past its decision holds the state lock, what
  it prepared is a catalog one sequence ahead of the visible one, its view is that
  catalog, and the entry it is making lies on the path of a revision it still has to
  publish (`TypeCorrect`, `TypesHold`).
- `StoreImplementsRegister`: with `Typed`, every step is a read, a swap, a flush, a
  crash or a stutter of `CasRegister`.
- `Safe` adds that every surviving catalog and every prepared one is `Sound`, and
  that a prepared catalog `Evolves` the visible one. It gives `ActiveHolds`,
  `AcknowledgedHolds`, `SecretsHold` and the action properties `GenerationHolds`
  and `SecretHolds`.
- `HeadsInv` adds that the heads of a prepared catalog are durable or still to be
  published, and that the only entries that are not durable are revisions or the
  entry being synced. It gives `HeadsHold`, under the premise `LevelsSynced`, which
  is what `StoreRetry.cfg` violates.

**Daemon.** `DaemonInv` has four parts. `LockInv`: an instance runs
if and only if it is a holder of `zc.lock`, and there is one holder. `FilesInv`:
what an instance has published at each phase. `CallerInv`: what each command may
rely on at each label, that is which instances it refers to have been launched
(`References`), which locks it holds (`Holdings`), that the request it polls for is
there (`Armament`), what became of its child (`Launches`), and that what it captured
has ended before it is replaced or reported (`Endings`). And `RequestsAreOwned`. The
last is one of the properties, the others imply them: `OneOwnerHolds` from
`LockInv`, `LaunchHolds` from `FilesInv` and `Launches`, `StopHolds` from `Armament`
and `Endings`. `OwnerRefinement` maps the holder of `zc.lock` to the owner and the
ready descriptor to the announcement; a step of a command is then a stutter, an
`Acquire` (`Spawn`) or a `Sweep` (the removal of stale files, which holds the lock),
a step of an instance an `Announce`, a `Withdraw`, a `Leave` or a stutter.

**Selections.** `SelectionInv` says what a request under way has done so far
(`WorkInv`), what the descriptor says of the instance meanwhile (`DescriptorInv`),
what commands have loaded and committed (`CommandInv`), and, while the profile was
not reimported, that every generation anybody refers to stands for one choice and is
not ahead of the catalog's (`Unambiguous`). `PublishedHolds` follows from the first
two. `ForwardHolds` needs `Unambiguous`: a command is told that its generation is in
force, and what makes that its choice is that no other choice has the same number.

**Control API.** `ControlInv` says of each handler what it has done for its request
and what it will answer (`CallInv`), and that a panic is in the result or in a
handler that is yet to be joined. It gives `ControlHolds`.

**UDP sessions.** `DatagramInv` relates both ends of each queue: the reader is at
the start of a frame or within it and has not passed the malformed one
(`ReaderInv`); delivered and queued frames together increase, are whole, and end
with the error if the worker has ended (`QueuedInv`); the stream holds all frames
taken from the queue, whole but for the pending one, and the queue the ones after
them (`WriterInv`). It gives `SessionHolds` for queues of any capacity.

**Connections.** `ConnectionsInv` (`ConnectionsSteps`) says what a task holds at each
label (`TaskInv`), that its record is listed exactly from accept to drop, is valid
and, unless it is being closed, shows the task's phase, target and route
(`RecordInv`). It counts: the free permits are all but one per record and the free
UDP permits all but one per association (`CountInv`), and records belong to tasks
that are not joined, of which there are at most as many as permits; that is why
`accept` may expect a permit. `LoopInv` keeps the failures of joined tasks in the
loop's result. `ProbesInv` says what the ticket of a request says while the request
is under way; two requests that present the same token are told apart by it: the
ticket names one of them, so the other cannot be dialling. Most steps change one
task and its record: a lemma without state (`...Moves`) shows that the two still fit,
and `TaskStep` carries that to the whole state. It gives `ListingHolds`, `LoopHolds`,
`AssociationsHold` and the action property `RecordsHold`.

**Evidence.** `EvidenceInv` says that a marker is replaced only after a report of it
was tried, which is written or has failed, and removed only after the outcome was
logged (`MarkerInv`), that from the last report on all that was due has been reported
(`CountInv`), and that a panic's sample was written or has failed (`PanicInv`). It gives `EvidenceHolds`.

**Outbounds.** `OutboundInv` says of each attempt which stage and source its context
holds at its place (`Sound`), and that the free permits are all but two for each
lookup under way. It gives `OutboundHolds` for any finite set of attempts.

**HTTP exchanges.** `ForwardInv` says that the upload has written the request's header
and exactly the items of the body it has taken (`UploadInv`); that what the origin
has sent is framed as its header declares, interim responses first and nothing behind
an end (`ReplyInv`); and that, while the exchange runs, the client has what the
download has read, and the download is before the final header or within a body that
is not over (`DownloadInv`). The body is recognised by positions, so that the order in
which the two directions move does not matter. It gives `ReuseHolds` and
`ExchangeHolds` for requests, responses and limits of any length.

**Transports.** `TransportInv` says that what the server has and what is pending are
together the envelope and the acknowledged bytes, numbered without a gap
(`WriteInv`), and where the bytes that came with the header end (`ReadInv`).
`TruncationIsExact` compares a state machine with a remainder: `UnitInv` therefore
writes the number of bytes read as whole records, the unit and the rest that
`SsReadProgress` stands for, and `Advances` shows that a read of any size keeps that.
It gives `StreamHolds`.

## What is only model-checked, and why

- Liveness: `OperationsEnd`, `CallsEnd`, `ShutdownsEnd` and `TransferEnds` depend on
  fairness, which the provers do not handle.
- `ChildIsContained` contains `DeadlineHolds` and `NoStandoff`, which state that a
  step is enabled.
- `GroupsResolve` and `RulesFollowDocument` say what a search and an expansion
  compute for every document; that is induction over the document. `LogIsComplete`
  compares the files with a selection from the sequence of all records, which is
  defined by recursion over it. `TransferIsExact` relates three stages of a stream and
  is longer than the comparisons `SessionProofs` and `StreamProofs` make.
- The properties of `UserService`, `Update`, `ProviderSync` and `Preparation` are
  invariants of many actions without a small inductive core found so far.

## What is not modelled

Parsing and formatting of documents, requests and addresses; the wording of
diagnostics; cryptography and TLS; terminal interaction (`cli/selection.rs`) and the
client side of probes (`cli/probes.rs`), which make one call after another; targets;
entry points; build and install scripts; and the earlier Zig implementation, which
is not built. The files of the repository that these are in are listed with the
reasons in `PROJECT.json`.

## Findings

| run | where | what |
|---|---|---|
| `StoreRetry.cfg` | `store.rs:1397` | a retry trusts directories whose creation was never synced, against the comment at `store.rs:1417` |
| `SelectionReimport.cfg` | `daemon.rs:1942` | after a reimport, a choice that is not in force can be reported as applied, against `docs/cli/spec.md:159` |
