# A TLA+ development of openfortivpn and its control plane

openfortivpn is a Fortinet VPN client: a C engine that speaks TLS and PPP to a
gateway, and a Rust control plane around it that owns profiles, credentials,
engine processes, retries and the network of the machine. What has to be right
for years is who may change routes and DNS, what is left behind after a crash or
a failed call, when a connection may be called finished, and whether everything
that was asked to stop does stop. That is what this directory models, checks
with TLC and, but for liveness and two properties, proves with TLAPS.

## 1. The system

| Part | State | Operations | Hard behaviour |
|---|---|---|---|
| Lease coordinator, `crates/manager-core/src/network.rs` | journal `network.json` of attempts with their routes and DNS scopes; the system's tables | prepare, apply, release, network_changed, reload | a crash or failed write between a change and its record; routes others make and remove; sharing |
| Linux worker, `network_linux_worker.rs` | `binding-<attempt>.json` beside the journal | apply_with, release_with | two durable records that must not lose each other |
| Network authority, `network_authority.rs` | `.authority.lock`, `active.json` | acquire, bind_process_group, finish, acknowledge | lock and reservation have different lifetimes; helper and service compete |
| Windows authority, `windows_network_authority.rs` | the same with fixed temporaries and process identities | acquire, bind_process, finish, acknowledge | no launch gate, reused process ids, a reservation that a loss of power brings back |
| Headless manager, `headless/src/manager.rs` | controls, views, supervisors, run records | connect, disconnect, shutdown, supervise/run_once, restore_recovery, acknowledge | tasks interleave at every await; each step of a start may fail or be the last |
| Native handshake and challenges, `network_control.rs`, `control.rs`, `native_network.rs`, `src/manager_control.c` | a plan in pieces, worker, answers, pending challenge | begin, resource, commit, applied, release; register, respond, cancel, expire | late worker results, lost records, a timeout on either side, two answers |
| Headless profiles, `storage.rs`, `profile_service.rs`, `repository.rs` | `profiles.json`, `secrets.json`, redo journal, session passwords | save, delete, read, backup, restore, schema rollback | two files changed together by threads and a second process |
| Desktop profiles, `lib.rs`, `profile_repository.rs`, `credential_journal.rs`, `backup.rs` | metadata file, system credential store, intents | save, delete, restore, recover, startup probe | two stores without a common transaction |
| Desktop connections, `app/src-tauri/src/lib.rs` | instances, monitors, timers, run records | connect, stop, reconnect, save, delete, quit, restart | threads over one mutex, a lifecycle mutex and a lock per child |
| Mailboxes, `actor.rs` | one bounded queue and worker per profile | dispatch, expire | a queue that expires while it is being used |
| SAML broker, `saml_broker.rs`, `saml.rs` | loopback listener, one-shot binding | session, cancel, serve | a cancellation, a deadline and a browser in the same instant |
| Bundles, `bundle.rs`, `install.rs`, helper | targets, payloads, `pending.json`, `previous.json` | install, rollback, recover, gc, uninstall | several files replaced as one; flushes that fail |
| Engine threads, `src/io.c`, `thread_group.h`, `event.c` | five workers, two pools, semaphores, event mutex | io_loop, signals, cancel and join, --persistent | cancellation at any point, signals before there is anybody to hear them |
| Engine routes and DNS, `src/ipv4.c`, `tunnel.c` | routing table, `resolv.conf`, flags of what was done | set up, restore, report | stopped between any two calls, interface gone at any moment |
| Engine framing, `src/hdlc.c` | a buffer of bytes | encode, find_frame, decode | frames cut anywhere by read and write |
| Helper, `app/src-tauri/helper` | its reservation, components | run_engine, acknowledge_network, install | a root process beside the service |
| Engine lifecycle, admission, process supervision | - | observe, reaped, admit, spawn, drain | used by both managers and modelled inside them |
| Native backends, `network_linux.rs`, `network_macos*.rs`, `network_windows*.rs`, `network_resolved.rs` | none of their own: tables they share with every other program | inspect, apply, remove | others, timeouts and late scripts between a look and the write it justifies |
| Log buffer, HTTP API, remote access, clients, configuration, TLS, Windows engine | - | - | not modelled, section 6 |

How they interact. A user command reaches a manager through the profile's
mailbox. `connect` is admitted and reserved under one lock; a supervisor (in the
desktop, a command thread and then a monitor) writes a run record, acquires the
machine-wide reservation, spawns the engine behind a gate, records the process,
binds it to the reservation, opens the gate and waits. Readers turn the engine's
events into facts of its lifecycle. With native networking the engine announces
its routes and DNS as a plan over the control channel, and a worker applies it
through the lease coordinator; otherwise the engine changes the host itself.
When the engine is reaped and its output drained, a confirmed cleanup gives the
reservation back and removes the record; anything else leaves both and asks for
recovery.

What makes the parts correct: nothing the program did to the machine is ever
forgotten, and nothing somebody else did is undone; one attempt at a time
touches the network, until it is gone and has cleaned up; memory and disk agree
on who is in recovery; profiles and passwords change together; an answer is the
truth; whatever is no longer wanted ends.

## 2. Modules

Each module's header says what a step is. `PROJECT.json` maps every definition
to its source lines.

| Module | Models | State and actions |
|---|---|---|
| `NetworkResources` | `prefix`, `overlaps`, `domain_overlaps`, `shareable`, `conflicts`, the per-resource part of `Plan::validate` | operators; an address has `AddressBits` bits, a domain is a sequence of labels |
| `NetworkTxn` | `Coordinator`, `LockedStore` | `disk` is `network.json`, `mem` the snapshot in memory, `os` the system; `pc`, `idx` the place in the loops. One action per early return and loop step. `External` is everybody else |
| `NetworkWorker` | the Linux worker | extends `NetworkTxn` by `bindings` and a `job` |
| `NetworkAuthority` | `active.json` (`owner`) and the lock (`holder`) | operators used by `HeadlessManager` |
| `MachineLease` | abstract: what a reservation is for | an attempt is busy only while it is the leaseholder; only an idle one yields |
| `HeadlessManager` | the manager's runtime, supervisors as program counters over `supervise`/`run_once`, engines, run records, reboots, the operator, helpers | `ctl`, `view`, `sup`, `stop`, `run`, `engine` |
| `ControlChannel` | one profile's engines and their control protocol | `events` (stderr), `frames` (stdin), `ctl`, `reader`, `worker`, `sup`, `eng`, `user`, `chal`, `net` |
| `ProfileCatalogue` | abstract: profiles and passwords change in one step | |
| `ProfileStorage` | the headless repository | `profiles`, `secrets`, `journal`, backups, `flock`; a thread or command is a program counter |
| `CredentialStore` | the desktop's repository | `disk`/`durable` metadata, `vault`, `intents`, `store` cache, commands, loader, connections |
| `DesktopManager` | the desktop's connections | `inst`, `gen`, `stale`, `records`, `engine`, `mon`, `timers`, `th`, `queue`, `lifecycle` |
| `Mailbox` | `ProfileActors` | `box`, `queue`, `running`, `state`, callers `pc` |
| `WindowsAuthority` | the Windows reservation and its use | `active`, `pending`, `record`, `lock`, `procs`, managers `at` |
| `SamlBroker` | the loopback task, its browsers and its caller | `conn`, `task`, `session`, `cancel`, clocks |
| `ComponentBundle` | `bundle.rs` and its callers | `vis` (what the system sees), `dur` (what is on the disk for certain), `blobs`, `run` |
| `EngineIO` | `io.c`, `thread_group.h`, the loop of `run_tunnel` and `main` | `thr`, `pool`, `sem`, `cancel`, `lock`, `signal`, `main` |
| `EngineNetwork` | `ipv4.c`, `on_ppp_if_up/down` | `routes`, `resolv`, `tun` (the flags), `step`, `undo` |
| `NativeBackends` | rtnetlink, the routing socket and the Dynamic Store of macOS, IP Helper, NRPT | `table` (who made which entry), `stage`, `op`, `want` of the call, `late` (a script nobody waits for); a look, a write and a read-back are steps, `Others` change the table between any two |
| `ResolvedLink` | the three settings of a link in systemd-resolved over D-Bus | `dnsLink`, `view`, `confirmed`, `pendingCall`; the properties are read one by one |
| `Hdlc` | `hdlc.c` with the loops around it, byte by byte | `buf`, `pty`, `wire`; pppd frames as RFC 1662 says, stated independently |

Choices that matter:

- A save ends "ok", "unwritten" (old file, error) or "unsynced" (new file,
  error), the outcomes of `atomic_file::write_private`. Where a crash may be a
  loss of power (`CredentialStore`, `ComponentBundle`, `WindowsAuthority`) what
  was not flushed may be taken back; elsewhere a crash ends the process only.
- What a task does under one hold of a lock, or one durable write, is a step. A
  call that can fail fails at any time, within the bound on failures.
- Deadlines are steps that may happen whenever the code waits.
- `HeadlessManager`: `retain_recovery` belongs to the failing step before it;
  statuses between start and connected are one; `reconnect` and `auto_connect`
  are sequences of other commands; the operator restores the network before
  acknowledging, as `docs/recovery-and-upgrades.md` asks. `gated` is whether the
  engine has the launch gate. The native handshake appears as calls that may
  fail; `ControlChannel` opens it up.
- `CredentialStore`: a secret is the life of the profile it was saved for, so
  that one saved for a deleted profile of the same id is told apart.
- `ControlChannel`: while it logs in, an engine may ask twice, for the OTP of the
  gateway's form and then for a token, because `try_otp_auth` clears the OTP once
  the form is sent (`http.c:592`). The manager registers a question it has not
  seen, up to the budget of an attempt; the limit of 512 questions over all
  profiles is out of one profile's reach and not modelled.
- `EngineIO`: a worker with a cancellation pending dies at its next cancellation
  point; a write to the event stream is one, made with the event mutex held. The
  logout at the end of `run_tunnel` is a step of its own that nobody promises:
  the connection and the exchange it makes have no deadline.
- `DesktopManager`, `WindowsAuthority`: whether a cleanup is confirmed is read
  from the engine's events, of which any may be missing when the output was not
  drained, and not from what is true. That the events do not lie is what an
  engine guarantees: it announces `configuring` before it changes the host, and
  reports the result its cleanup had.
- `ComponentBundle` starts with an empty bundle directory, the targets missing or
  put there by a package. `uninstaller` is the program that removes the targets:
  the helper, whose last unlink must find its file, the headless command, or the
  headless command with `--purge`, which then removes the bundle directory in any
  order, or a part of it.
- `SamlBroker` is used only by its tests in this repository. The browser may be
  told 200 while the session is refused; the code accepts that.
- `NativeBackends` and `ResolvedLink` are what `NetworkTxn` takes for granted of
  inspect, apply and remove. An entry is known by its class (the resource with
  the fingerprint we give it, the resource with another, something else under the
  same key) and by who made it. resolved's three settings do not influence each
  other, and what RevertLink makes of the default route is left open.
- `network_changed` is part of the API and the model; no shipped program calls it.

### Several components in one run

`MCProfiles`, `MCEngine`, `MCServices`, `MCHost`, `MCSettling` and `MCEnding`
extend modules that share no state. A variable `part`, chosen in `MCInit`, says
which of them moves; the others rest in one initial state. The union of such
behaviours is exactly the union of the behaviours of the components, and an
invariant of one of them is checked in all of its states. The fairness of such
a module is that of the component that moves. Constraints of an MC module
(`Bounds`, `OneByOne`, `FirstAttempt`, `EarlySignals`) join several instances in one state
space: long histories with few actors, short ones with many. They restrict what
is explored and no definition.

## 3. Runs

| Run | Instance | Distinct states |
|---|---|---|
| `transactions` | 2 attempts that share a gateway exception, one with a second route; 2 epochs; beside it all pairs of routes of 3 bits and scopes over 2 labels | 0.4 M |
| `manager` | 2 profiles, 2 attempts, 1 reboot, gate or none, 1 helper | 0.8 M |
| `channel` | 2 attempts, 2 users, plans of up to 2 resources, 1 lost record, two questions in a log-in; lost records, second questions and second resources in the first attempt only | 3.5 M |
| `profiles` | headless: 2 threads on 2 profiles, or on 1 with a crash or a failure, or 1 thread and the command line likewise; desktop: 2 commands on 2 profiles, or one profile in two lives with a failure and a crash or loss of power | 0.7 M |
| `desktop` | 1 profile, 3 commands, 2 attempts; 2 profiles, 2 commands; or 1 profile, 2 commands, a failure and a death of the application | 0.9 M |
| `engine` | threads: 2 packets out, 1 in, 2 rounds, 1 signal; network: 3 modes, 2 failing calls; framing: 6 packets, 2 frames read, 3 written; providers: all 5, without bounds but for one late NRPT script; resolved: without bounds | 1.6 M |
| `services` | mailboxes: 3 commands, room for one mailbox of one; Windows: 2 managers, 2 process ids, 3 failures; SAML: 2 browsers, 2 tries | 0.2 M |
| `host` | worker: 2 attempts, a route and a scope; bundle, from the first installation on: 2 targets, 3 generations, 2 failures and a crash; or, while `NamesFlushed`, 3 interruptions with losses of power, or, over two generations, 1 with a failure; or, over two generations, uninstalls and purges with a failure and a crash | 3.4 M |
| `settling` | manager: 1 profile, 2 attempts; channel: 1 attempt; fairness | 0.1 M |
| `ending` | desktop: 1 profile, 2 commands, 1 failure; engine with the event stream, a manager that owns the network and `--persistent`: 1 packet each way, 1 signal, and a second round for a signal that comes before its `io_loop` (`EarlySignals`); fairness | 0.3 M |
| `records`, `desktop_stop` | 1 profile, 2 attempts | violations, section 5 |

What they check. A property made of several parts is a conjunction of named
definitions, each with its own comment in the module.

- `transactions`: `NoOrphan`, what the program created has a record on disk that
  answers for it; `OwnershipSound`, a record never claims somebody else's route;
  `LeasesSafe` (`ActiveInstalled`, `Exclusive`, `EpochCurrent`,
  `UncertaintySticks`); `ResourcesExact`, the conflict test refuses exactly what
  would compete for a packet or a name.
- `manager`: `EnginesSupervised`, one supervisor, and no engine past its gate
  without a record; `ReservationAccounted`, a reservation can be acknowledged
  and its profile stays reserved; `TerminalMeansGone`; `LeaseHonoured`, the
  reservation implements `MachineLease` against crashes, reboots and the helper.
- `channel`: `ReadyMeansApplied`; `NetworkOwned`, nobody loses the network while
  a worker still changes it, and the engine understands late results;
  `PlanWhole`, no plan with a hole is applied; `ChallengesSound`, a question is
  answered once, with an answer to that question and of that attempt, and none
  is left for the next one.
- `profiles`: `CatalogueKept`, the files implement `ProfileCatalogue` (and the
  migration keeps its pair); `RepositoryCurrent`; `CredentialsKept`, no live
  credential is collected and none lost track of; `UsesCurrentSecret`;
  `NoRevisionLost`.
- `desktop`: `NothingForgotten`, `OneOwner`, `ChildrenWatched`,
  `ExitLeavesNothing`, `StopHonoured`.
- `engine`: `ThreadsSound` (and a failure is told), `HostSound` (routes and
  resolv.conf are put back wherever the setup stopped, and the report is true),
  `FramingSound`; `BackendsSound`, an answer of a provider is true unless the
  table changed after its last look, and nothing but its own entry is changed
  wherever the system lets it compare; `LinkSound`, the same for resolved, where
  the only way back wipes the whole link.
- `services`: `DispatchSound`, `ReservationSound`, `LeaseKept` (`MachineLease`
  again), `SessionSound`, and `ServicesAnswer`, the liveness of all three.
- `host`: `JournalAnchored`, `JobsHonest`, `BundleSound`, `AtomicSwitch`. What is
  said of `BundleSound` under a loss of power is said while `NamesFlushed` holds,
  and a purge may leave markers without their payloads: section 5.
- `settling`, `ending`: `ManagerSettles`, `AttemptEnds`, `DesktopEnds`.
  `EngineStops`: a stop that has reached `io_loop`, by a worker or a signal, takes
  the engine through cancellation, cleanup, pppd's end and the exit code to the
  logout, and a signal between two rounds ends the process. The property names
  the one thing that may prevent this, an event mutex that a cancelled worker has
  taken with it, and starts at the semaphore, after the initialisation that may
  forget an earlier signal; both are in section 5. It ends at the logout, which a
  silent gateway can hold up for ever, as it can the setup.

Bounds. Two attempts are enough for sharing, for a retry, for a second profile
and for a stale report of an old one; two resources, targets or packets for a
loop to stop in the middle; one failure and one crash for a recovery that is
itself interrupted. `MaxRecords` stands for 512, `MaxEpoch` for `u64::MAX`,
`PKT_BUF_SZ` 16 for the real buffer (a frame just fits), `TRIES` for 32.
Deadlock is not checked where a system may stop: the program has exited, or the
bound on commands, attempts or failures is reached. In `manager` a helper is met
beside one attempt only, and without a gate one profile. `profiles` has one loss
of power, `engine` runs without a known gateway route, suffix lists, second
acknowledgements and native networking, `desktop` with `Prompt = TRUE` and
`Recreate = FALSE`, `host` where power is lost with `NamesFlushed`: what happens
otherwise is in section 5.

Fairness. Tasks of a live runtime, threads and timers make progress, as tokio
and the system schedule them; an engine that was sent SIGTERM ends (`EngineEnds`
with `term`), which `ending` checks on its side up to the logout; an engine
runs into its own deadlines; blocking workers return; a cancelled
thread dies at its cancellation point, and each of the engine's workers runs;
whoever started an engine reads its event stream; pppd ends once its pty is
closed; on Windows processes end, and somebody restores the network and
acknowledges: that part of `ServicesAnswer` reads "finished, or it can be
acknowledged". Its logout may keep an engine from ending; the SIGKILL that
follows a disconnect or a shutdown after five seconds (`manager.rs:770`, `2123`)
then ends it. An engine the manager signals because of its events (`1385`,
`1426`) gets no SIGKILL until somebody disconnects: there `settling` assumes that
the gateway lets the logout return. Users, crashes, gateways, browsers, idle
timeouts and engines nobody signalled are not assumed to do anything.

Each property has a mutant: a plausible slip in the code, defined right before
the definition it would replace and named in `PROJECT.json`; TLC refutes the
property for it.

## 4. Proofs

Proved for every set of attempts, resources, profiles, commands, users, targets,
process ids and every bound (the constants' named assumptions are all that is
used):

| Module | Theorems | Hypotheses beyond the specification |
|---|---|---|
| `NetworkTxnProofs` | `Inductive` (`IInv`), `TypeCorrect`, `OwnershipSafe`, `NoOrphanSafe`, `LeasesKept`; for the Linux worker `WorkerAnchored`, `WorkerHonest` | `~Hostile` for the first five: others may add, replace and remove anything except a gateway exception this program created. None for the worker, whose plans have no gateway exceptions |
| `HeadlessManagerProofs` | `ManagerInductive`, `ManagerSupervises`, `ManagerAccounts`, `ManagerTerminal`, `ManagerHonoursLease` (refinement of `MachineLease`) | none |
| `ControlChannelProofs` | `ChannelInductive`, `PlanWholeAlways`, `ChallengesAlwaysSound`, `ReleaseAlwaysUnderstood`, `ReadyAlwaysMeansApplied`, `NetworkAlwaysOwned` | `MaxLoss <= 1` for the last two, none for the others: see the observation on lost records in section 5 |
| `ProfileStorageProofs`, headless | `StorageInductive`, `StorageCurrent`, `StorageImplements` (refinement of `ProfileCatalogue`) | `Orphans = {}`: no password without a profile in the files found at the start, the case of `storage.rs:455` in section 5 |
| `ProfileStorageProofs`, desktop | `RepositoryCorrect`, `SecretsCurrent`, `RevisionsKept`; `CredentialsBacked`, `LiveCredentialsKept`, `CredentialsAccounted` | none for the first three; for the others not both losses of power and writes that fail after the rename, the case of `lib.rs:4593` in section 5; for the last also `Legacy = {}` |
| `DesktopManagerProofs` | `DesktopCorrect` (`DesktopInv`), `ForgetsNothing`, `OwnsAlone`, `WatchesChildren`, `QuitsClean`; `StopsHonoured` (`RetryInv`) | none; for the last `Prompt` and `~Recreate`: a stop passes its first sections within the backoff of a retry, and no deleted profile is created again under its id, the cases of `lib.rs:3632` and `2555` in section 5 |
| `EngineProofs` | `HostRestored`, `ThreadsCarry`; `ProvidersInductive`, `ProvidersSound`, `LinkInductive`, `ResolvedSound` | `PlainHost` for the first: no route to the gateway beforehand, no suffix list, one acknowledgement, the three cases of `ipv4.c` in section 5. None for the others |
| `ComponentBundleProofs` | `BundleSafe`, `BundleSurvivesPowerLoss` | the first has no losses of power; the second allows them where nobody uninstalls and `NamesFlushed` holds, the cases of `bundle.rs:193` and `177` in section 5 |
| `ServicesProofs` | mailboxes: `DispatchSafe`, from `MailboxTypes`, `CommandsSerial`, `CommandsOnce`, `AnswersTrue`, `WorkersBounded`; Windows: `LeaseImplemented` (refinement of `MachineLease`), `ReservationSafe`, from `WindowsTypes`, `ReservationAnchored`, `TemporaryOwned`; SAML: `SessionKept` | none |

Each inductive invariant is a conjunction of named parts, stated with its
component or at the head of its proofs; the ones of the larger state machines
were checked with TLC on small instances before they were proved.

The coordinator. `NoOrphan` speaks of the disk, yet what is written next comes
from memory, so `IInv` states coverage of both snapshots (`Covered`), and for
the loops how far each has come: entries before `idx` are applied
(`ApplyProgress`), entries after it are released or answered for by another
record (`ReleaseProgress`), and between the saves memory and disk are equal
(`ControlInv`). A release that skips a shared resource hands its answer to the
other record, which is right only if that record is not itself a borrower of
something we made without a fingerprint: `BorrowedOwn`. `Complete`, an active
record knows all it created, is what makes the sharing branch of `apply` find a
fingerprint, so the `unwrap` in `network.rs` line 597 cannot panic.

`LeasesKept` adds `LeaseInv`. That an active lease has its resources speaks of
the disk while the loops work on memory: what memory holds active is saved as it
is (`ActiveSaved`), so a release has cleared the phase on the disk before it
touches the system; while an attempt is being applied, what the loop has been
through is in place (`AppliedInPlace`); what is borrowed was seen
(`BorrowedSeen`); both snapshots keep profiles and resources apart and are of the
current epoch; and a doubt in the journal is also in memory (`DoubtKept`), so
that no later save drops it. `ResourceAssumption` says that resources are routes
with a number of bits and scopes with domains.

The Linux worker. Its two durable records are never written together, so
`WorkerInv` relates both snapshots of the journal to the binding files
(`Anchored`), says that a binding was validated for its attempt
(`BindingsValid`), and for each place of a job what is bound, what is in the
journal and where the coordinator's call stands (`Places`). From these an answer
can only be the truth. `SortAssumption` says what sorting a plan does: no scope
comes before a route. TLC evaluates both assumptions for the instances it checks.

The headless manager. None of its invariants is inductive: that the reservation
is accounted for depends on which supervisor believes it holds it, and that on
what its engine has said and what is still in its pipe. `ManagerInv` says, for
every place of a supervisor (`Stages`), what its attempt has of a record,
reservation, lock, gate and process; that two supervisors never work for one
attempt or profile (`Tasks`, `Undrawn`); that memory knows every profile with a
record or a supervisor (`Known`, `Published`); who may hold the lock and the
reservation (`Held`, `Reservations`); that a waiting supervisor watches its own
engine (`Waited`) and a finished one has none (`Ended`); and `Told`: while an
engine has left something on the network, its pipe or its lifecycle says so, and
no "cleaned" is on its way. The last is what makes it right to give the
reservation back after a drained pipe. A supervisor's step concerns its own
attempt and profile: `TaskStep`, `LeaveStep`, `SoftStep`, `EngineStep` and the
like state once what such a step has to see to, and each action is shown to be
one of them. The refinement follows from the invariant: an attempt becomes busy
only past the gate, where `Stages` says it has the reservation, and the
reservation passes only from an attempt that is gone and clean (`Passes`).

The control channel. An engine and its manager talk through two queues, and all
that is said of the network depends on what is still in them. `ChannelInv` says
that each of an engine's requests is in one place at most, on its way out, with
the reader or the users, or answered and on its way back, and that where the
engine stands tells which may exist (`OtpAsked`, `PlanAsked`, `ApplyAsked`,
`ReleaseAsked`, `Shape`; of two questions in a log-in, the first is closed
before the second is asked); that what the manager remembers of the handshake is
what the system has (`Handshake`, `Jobs`, `Course`, `Decided`). The plan and the
challenges follow from these, however many records are lost. That a connection
is ready and that an attempt leaves the network alone are only told by records:
the end of a tunnel and an engine's own configuration are announced twice, so
that the loss of one does no harm (`Announced`, `Shown`, `Legacy`, `Owned`). The
lengths of the two queues are bounded in an induction of their own (`Pipes`).

The headless profiles. Memory, two files and a journal are one catalogue if the
journal, when there is one, is it, and the files otherwise (`Cat`). `StorageInv`
says what the lock's holder relies on at each of its places (`Relies`): how many
of the files recovery has written, that a snapshot is the files', that a plan is
one change of the snapshot. Every file written in between maps to a stutter.

The desktop's profiles. Nothing is committed across the metadata file and the
credential store, so what is true is that a reference is announced before its
secret exists and its secret goes before the announcement. `CacheInv` says that
one command edits at a time and nobody uses what it edits (`Exclusive`); that the
cache is the file unless a write failed (`CacheCurrent`); that the copy a command
works on differs from the cache only in flags the startup thread clears, and its
draft from the copy only where the command says (`CommandsSound`); that the
startup thread's findings are of the reference it set out with, or that one is
gone (`LoaderSound`); and that the passwords of sessions and connections are of
the reference in memory (`SessionsSound`). `SecretsBacked` adds that every
reference in the file, the copy or the draft has its secret or it is the one
about to be written, and that a collection has read a file that is not ahead of
what it spares. `SecretsTraced` is the converse: what a draft gives up is on its
list, in an intent of its own or still in the draft; a flag is cleared only of a
reference that holds nothing; an intent goes only when its candidates are deleted
or live. `Legacy = {}` is needed for this last part: the id of a legacy profile
is its reference, and it can come back with a profile of the same id.

The desktop's connections. `OneOwner` is not inductive: what keeps a second
engine from starting is spread over the set of starting profiles, the generation
a start was admitted with, the lifecycle mutex and the instances. `DesktopInv`
says that a start which holds the lifecycle mutex is alone, and one that does not
is alone or has lost its generation and will end (`StartsAlone`); that each
number of an attempt belongs to one command, and nothing has happened under it
until it is used (`NumbersFresh`, `NumbersGiven`); where the attempt of a start
is between its record and its registration (`AttemptsBuilt`); that an instance
runs exactly as long as its monitor watches (`InstancesWatched`); that whoever
has an engine, or a network to restore, has a record and, while the application
is up, is known to it as stale, as an instance or as a start in progress
(`OwnersKnown`); that the lock of a child keeps the engine a stop is about to
signal from being reaped (`ChildrenHeld`); and that a dead application keeps
nothing but its files (`DownMeansFiles`).

`StopsHonoured` adds `RetryInv`. A retry moves from a monitor's decision to a
timer, to the mailbox and to a start, each in its own thread, and a stop that
returns without taking the generation (`StopLocksChild` when the engine just
exited, `StopWaits`) leaves the decision to the mark `user`, which only the timer
reads: an automatic start already in the mailbox would pass it. So `RetryInv`
says that a generation has at most one automatic start, in one of these places,
and none while the profile is connected or being started (`OnePending`); that
none is ahead of its generation (`GensPast`); that a stop which found its
instance has none in the mailbox, and from the child lock on has marked it
(`StopsSeen`); and that what is stopped is marked or has nothing pending
(`StaysStopped`). A start carried to its registration then contradicts the last
part.

The engine. `NetInv` relates the flags of `struct tunnel` to the routes and the
lines of resolv.conf at each call of the setup (`RoutesNoted`), and says what is
left of the host's own at each call of the cleanup, unless a failure was noted
(`RoutesAccounted`, `ResolvAccounted`, `SpoiltTold`). `IoInv` counts the workers
that may be alive from how many were created and joined (`WorkersCounted`),
numbers the packets received, in hand and queued (`PacketsNumbered`), and says
that the semaphore is posted by a packet of this round (`ReadyMeansTalk`) and
that a failure is noted before the event mutex is given back (`FailureNoted`).

The SAML session. `SamlInv` says that one connection is open at the task and a
session is of the last one it served (`ServedOne`), that the verdict is given
once and is what channel and caller carry (`OutcomeGiven`), and that the listener
is closed before the outcome is sent (`ListenerClosed`). That a cancellation in time wins is a property of
whole behaviours; it follows because `Withdrawn`, cancelled and without a good
verdict, once true stays true.

The bundle. What the system sees and what is on the disk differ until a flush,
and a failed flush leaves them apart. `BundleInv` keeps, for either image, that
a begun replacement can be undone from payloads that are there (`Undoable`,
`DiskUndoable`), what the process has read of the markers (`Marked`) and how far
its loop is (`Progress`), and that without `pending.json` the targets are of one
generation. That markers have their payloads is part of it only where nobody
purges, since a purge takes them away in any order.

The providers. `BackInv` and `LinkInv` say that what the last look showed still
holds unless the history variables know of a change, for each place of a call;
that a late NRPT script has room for its rule; and for resolved, that what is
confirmed so far is exactly what apply has set, so that RevertLink takes back
nothing else.

The mailboxes. Serial execution needs to know that a profile has one channel
that is not closed, that a running command has left every queue, and how often
each command has been run at each of its caller's places. The bound on workers
compares the live channels with the table of senders: they are in bijection,
which is the part proved with cardinalities.

The Windows reservation. The invariant ties a manager's place to what it owns:
the lock, the temporary file, an identity bound to a process that was spawned
for this attempt; and says that a process id in a reservation that is in use by
somebody else belongs to an engine that has ended. A step of the reservation is
then a step of `MachineLease` or changes neither leaseholder nor busy set.

Left to TLC: liveness (`ManagerSettles`, `AttemptEnds`, `DesktopEnds`,
`EngineStops`, `ServicesAnswer`), which needs fairness and ENABLED;
`FramingSound`, whose reference is a RECURSIVE definition over frames of any
length; and `ResourcesExact`, which compares prefixes through powers of two, where
the statement for every width is an induction.

## 5. Disagreements found

With a run in `PROJECT.json`:

- `records`: a run record whose write reported an error after the rename, or
  whose removal failed after a refused acquire, is forgotten (`manager.rs:1006`,
  `1046`). The profile's next attempt adds a second one, and the next start of
  the service refuses to run, against `docs/architecture.md:15`.
- `desktop_stop`: a disconnect that is held up between two looks at its instance
  for as long as the reconnection's delay finds the engine reaped and does not
  cancel that reconnection (`lib.rs:3632`), against `docs/architecture.md:83`.

Found with other constants of the same modules; the property named fails there.

| Where | What | Property and constants |
|---|---|---|
| `network.rs:670` | `release` counts a borrowed entry as a sharer, `prepare` and `apply` do not: a gateway exception can outlive its last lease, against `docs/development-plan.zh-CN.md:219`. The Linux worker refuses gateway exceptions | `RemovedWithLastLease`, `Hostile`, 3 attempts |
| `lib.rs:4593` | the restart collects intents without the flush that `recover_profile_repository` repeats (`credential_journal.rs:2`); a loss of power then brings back metadata that names a deleted credential | `LiveCredentialKept`, `PowerLoss = TRUE`, `MaxAppCrash = 2`, one profile |
| `lib.rs:2555` | deleting a profile forgets its reconnection generation; created again under its id, without a revision, it counts from one, and an automatic start left over from before the deletion is taken for a current one. The clients of this repository always send a revision (`profile-controller.ts:51`), with which the save is refused | `StopHonoured`, `Recreate = TRUE`, `MaxAsk = 4` |
| `profile_repository.rs:57` | a profile created without a password under the id of a deleted legacy profile adopts its kept secret at the next save, against `docs/architecture.md:125` | `NoOrphanAdopted`, `MaxLife = 2` |
| `storage.rs:455` | a password without a profile in an older `secrets.json` is copied into a journal that recovery refuses, for good (`storage.rs:506`) | `JournalFinishable`, `Orphans = {b}` |
| `storage.rs:140` | a commit that is durable but reports an error leaves the session password it replaced, which is preferred, against `profile_service.rs:23` | `SessionFollows`, `MaxFault = 1` |
| `ipv4.c:1065` | with a host route to the gateway already there, the default route the engine deletes is not restored, and cleanup reports success, against `docs/architecture.md:69` | `RoutesRestored`, `KnownGateway = {TRUE}`, `Modes = {"default"}` |
| `ipv4.c:1379` | a suffix list is written with blanks and looked for with semicolons: its line stays | `ResolvRestored`, `SuffixForms = {"list"}` |
| `ipv4.c:1371` | a second IPCP acknowledgement before STATE_UP changes the address that cleanup removes | `ResolvRestored`, `MaxAcks = 2` |
| `io.c:632` | SIGTERM while a later `--persistent` round connects is forgotten: the semaphore it was posted to is initialised anew | `EngineStops` with `sig` among what asks for a stop, the constants of `ending` |
| `event.c:49` | a worker cancelled while it writes an event keeps the event mutex; the next event blocks before routes and DNS are restored | `EngineStops` without `LockAbandoned`, the constants of `ending` |
| `install.rs:78` | an uninstall removes the targets of an interrupted replacement; every later install stops in recovery, against `docs/recovery-and-upgrades.md:54` | `Restorable(vis.pending)` with an uninstaller and a crash |
| `bundle.rs:258` | a rollback that is refused leaves its `pending.json`; the same happens | the same, uninstaller `"helper"` |
| `bundle.rs:193` | `recover` acts on a `pending.json` that was never flushed; a loss of power between two targets leaves a mixture. `NamesFlushed` keeps this, half of what a failed flush can do, out of the run `host` | `NoMixture` with a failure and a loss of power, without `NamesFlushed` |
| `install.rs:97` | a purge that is interrupted, or cannot remove all, may leave `pending.json` or `previous.json` without their payloads; later commands stop in recovery | `Kept(vis.previous) \subseteq blobs`, uninstaller `"purge"` |
| `bundle.rs:246` | an install that is undone after it saved `previous.json` leaves it naming the bundle in place, against `docs/recovery-and-upgrades.md:55` | `PriorRetained`, `Failures = 1` |

Smaller observations, stated nowhere to be otherwise: the desktop may quit
between a monitor's verdict and the removal of its record, so that a clean stop
asks for recovery; a failed stop may put back a status that is older than the
engine's; the check in `hdlc_encode` before the check sequence allows for three
bytes where five may follow, and only `estimated_encoded_size` makes it fit;
when pppd dies first in default mode, cleanup reports a failure although nothing
is left; a removal whose flush failed is not flushed by the next recovery, which
finds nothing to remove (`bundle.rs:177`), so that a target a rollback reported
gone may come back with a loss of power (`ReportedDurable` excepts it); when two
records of one attempt cannot be read (`MaxLoss = 2`), both that announce the end
of a tunnel may be among them, so that a profile is shown connected after its
plan was released (`ReadyMeansApplied`), or both that announce an engine's own
configuration, so that its reservation is given back (`NetworkOwned`).

## 6. Not modelled

- Log buffer and retention: a ring behind one mutex, sequential.
- HTTP API, remote access, web and Svelte clients, configuration, HTTP and TLS
  code: parsing, authorisation and formatting without protocol state beyond that
  of the managers. Subscriptions and the history of the API.
- The Windows engine: its steps differ in system calls more than in protocol.
  That it changes the network and ends is all `WindowsAuthority` has of it.
- The desktop's emergency handler of `RunEvent::Exit` (`lib.rs:4736`), which runs
  when the system ends the application: it takes the steps of a quit and then the
  process is gone whether they succeeded or not, which the model has as a crash
  in or after a quit. Two shutdowns at the same time are not modelled.
- The helper's instance records and stop command; the desktop's copy of the
  challenge registry; its windows, tray, diagnostics and settings.
- In modelled parts: the stdio buffer a cancelled thread leaves to be flushed at
  exit, blank lines of resolv.conf that `strtok` drops, an `fclose` that fails
  after resolv.conf was truncated; sudoers rules of two users in one bundle; an
  uninstall combined with a loss of power, and an installation that runs while a
  purge, which no longer holds the service's lock, is under way; in the
  coordinator, an epoch that was not written and is then reloaded, after which
  `EpochCurrent` compares with the epoch on the disk.

## 7. Plan

Model the helper's instance records and stop command, and compose
`ControlChannel` with `NetworkWorker` in place of its abstract worker.
