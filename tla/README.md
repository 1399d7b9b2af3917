# phenotype-teamcomm in TLA+

This directory holds a TLA+ model of the teamcomm daemon and of the programs
that talk to it, the TLC runs that check it on small instances, and proofs, checked
by TLAPS, of what the core promises for every size. The model is written from the Rust
source in `crates/`; source lines are given for every definition in
`PROJECT.json` under `map`. File names below are relative to `crates/` unless they start with
a document's name.

    tlc -workers 2 -config Coordinator.cfg MCCoordinator.tla
    tlapm CoordinatorProofs.tla

Every run finishes within five minutes and every proof module within one.

## 1. The system

Agents (coding assistants in several terminals) coordinate through one daemon per
user. The daemon listens on a Unix socket, one task per connection, and answers
one JSON line per request line. All state is in memory behind one
`tokio::sync::RwLock<AppStateInner>`.

    agent -- MCP tools --> teamcomm-mcp --\
    agent hook, human --> teamcomm-cli ----> teamcomm-client -- socket --> teamcomm-daemon
                                                                            listener -> dispatch -> handlers -> AppState

| Component | State it keeps | Operations | What is hard | What makes it correct |
|---|---|---|---|---|
| Session table (`teamcomm-daemon/src/handlers.rs`, `state.rs`) | `sessions`, `sessions_by_pid` | `session.register`, `deregister`, `heartbeat`, `list`, `get` | the clock is read before the lock is awaited; two maps to keep in step; a pid may register again | the maps are inverse; one session per pid; ids are never revived |
| Advisory reservations (same files) | `reservations` | `reservation.claim`, `release`, `list` | expiry judged by a stale clock; a session that ends while its claim waits; u64 to i64 | two holders that clash are not both unaware; reports are real; a grant needs a session |
| Inbox (same files) | `inbox`: recipient to queue | `inbox.post`, `list`, `read` | messages are marked read before the reply is delivered; limits and filters; several readers | order, nothing lost to a poller, read stays read |
| Live state and discovery (same files) | `live_state` | `state.set`, `state.get`, `discover.agents` | a second map keyed by session, never cleaned; text comparison of paths | the latest snapshot is seen; nobody who matches is missed; no inherited presence |
| Listener and connection tasks (`listener.rs`) | one task and one line buffer per connection | accept, read, dispatch, write, idle timeout, shutdown | requests under way when the daemon stops, the peer goes or the timer fires | a request runs at most once; no call hangs |
| Client (`teamcomm-client/src/lib.rs`) | the stream, taken out of the handle during a call | `connect`, `call` | a call dropped at any await; all ids are 1 | a reply belongs to its call |
| Daemon life cycle (`pid.rs`, `main.rs`, `listener.rs`) | pid file, socket file, processes | `start`, `stop`, signals | check-then-act on files; crashes anywhere; reused pids | one daemon; files that name it; leftovers never fatal |
| MCP bridge (`teamcomm-mcp/src`) | none; one line at a time, one connection per tool call | tools to requests | two vocabularies; a daemon that dies between two lines or during one | every line is answered; a reply tells what happened |
| Command line (`teamcomm-cli/src`) | none; one process and connection per command | commands to requests, exit codes | field and method names spelled in four crates | exit 0 of a session command means a result |
| SQLite store (`teamcomm-daemon/src/db.rs`) | the tables of the maps above and threads | one method each, some of several statements | errors and crashes between statements; a mutex that may be poisoned; cascades | the file changes by whole operations; references resolve |
| Threads (`teamcomm-protocol/src/thread.rs`) | rows of the store only | no handler | | |
| Wire types, hook events (`teamcomm-protocol/src`) | none | types | | |
| Hook scripts, service units, smoke test | none | | | |

The components meet in four places: the lock (session table, reservations,
inbox, live state), the connection (client, listener), the names on the wire
(library, bridge, command line, dispatcher) and the file system with
the process table (start, stop, the next start). The store meets nothing yet: no handler calls it.

The hazards found while reading, each at its line, are in `PROJECT.json`.


## 2. The modules

| Module | Models | Extends |
|---|---|---|
| `SessionTable` | the session maps and what handlers do to them under the lock | |
| `Coordinator` | sessions and reservations with connection tasks, clock and restart | `SessionTable` |
| `CoordinatorProps`, `CoordinatorProofs` | properties of the core, its inductive invariant; proofs | `Coordinator` |
| `AdvisoryLocks` | abstract: who uses which path how | |
| `CooperativeAgents` | the core with agents that respect its reports, requests and replies under way | `CoordinatorProps` |
| `CooperativeAgentsProps`, `CooperativeAgentsProofs` | its properties, the refinement of `AdvisoryLocks`; proofs | `CooperativeAgents` |
| `Inbox`, `InboxProps`, `InboxProofs` | mailboxes, replies under way, polling agents | `SessionTable` |
| `Presence`, `PresenceProofs` | live state and discovery | `SessionTable` |
| `AtMostOnceCalls` | abstract: calls that are executed once or not at all | |
| `Connection`, `ConnectionProofs` | one agent's client, its connections, the tasks, shutdown; refinement of `AtMostOnceCalls`; proofs | |
| `DaemonLifecycle`, `DaemonLifecycleProps`, `DaemonLifecycleProofs` | processes, pid file, socket file, stop command | |
| `StoreTables` | the tables of the SQLite store, its statements and queries as operators | |
| `AtomicStore` | abstract: the file changes by whole operations | `StoreTables` |
| `Store`, `StoreProps`, `StoreProofs` | the methods, statement by statement, with errors and crashes; refinement of `AtomicStore`; proofs | `StoreTables` |
| `Requests` | the requests of library, bridge and command line, and what the daemon reads of each | |
| `FrontEnds`, `FrontEndsProps`, `FrontEndsProofs` | bridge, command and agent with a daemon that dies and starts again | `Requests` |
| `MC*` | symmetry and values for TLC | the module they name |

Everywhere a `HashMap` is a total function whose value `None` stands for a
missing entry. A uuid is a member of a set that is never minted twice (`minted`).
Definitions called `X_Something` with a comment that starts with "Mutant" are
plausible mistakes in `X`; each is paired with a property in `PROJECT.json`
that catches it. They are not part of any specification.

### SessionTable and Coordinator

`register`, `heartbeat` and `claim` call `Utc::now()` and then
`state.write().await`. They are two actions each: `Begin...` parses the request and
reads `clock` into `task[c]`, `Finish...` is the body under the write lock. Any
steps of other tasks fit in between, so a task may write values that are older than
what it finds. Handlers that carry nothing across the await (`deregister`,
`release`) are one action. The read handlers change nothing; what they
read is what the invariants speak about (`Live(r)` is the filter of
`reservation.list`).

* `RegisterSession` has the two branches of `handle_session_register`: a known
  pid keeps its session and only gets a new heartbeat stamp (`ReuseSession`),
  otherwise `InsertNewSession`. The "index out of sync" branch of the code is the
  second conjunct of `HasSession`; `ReverseIndexExact` shows that it never decides.
* `GrantClaim` inserts the reservation whether or not `Conflicts(req)` is empty, as
  the code does, and keeps in the history variable `told` what the reply listed.
* `AsI64` is the cast of `ttl_sec`, `FitsDuration` the range in which
  `chrono::Duration::seconds` does not panic. The panic ends the connection task
  before it touches the lock, so such a claim has no `Begin`.
* `Restart` is the end of the process and a new one: everything is in memory,
  only `minted` survives, because a uuid is not repeated.

### CooperativeAgents and AdvisoryLocks

A reservation excludes nobody: `claim` inserts it and reports the conflicts, and
agents "are expected to respect conflict reports voluntarily" (`ARCHITECTURE.md` 3.2).
`CooperativeAgents` adds agents that do, so that the purpose of the
reservations can be stated at all. Each of its actions that touches the daemon is an
action of `Coordinator`, conjoined with what the agent does (`AnswerClaim` with
`FinishClaim`, and so on). The agents are no code of the repository; they are
taken from the documents:

* an agent uses a path only on a reply without conflicts, and until the ttl it
  asked for has passed since it *sent* the claim. It cannot know when the daemon read its clock;
* it releases reservations of its own sessions only, after it stopped using
  the path; early, late, twice, or one whose reply it never saw;
* it may give up any call (`GiveUp`): the reply is lost and the claim it belongs to runs on;
* a lease is a time a person could mean (`TtlAssumption`: no ttl that wraps), and
  the daemon does not restart. It would forget every lease (section 5).

`AdvisoryLocks` has no daemon, no messages and no clock, only the set of uses under way.
`InUse`, the uses that agents rely on now, maps one to the other.

### Inbox

`List` is the handler under the lock: it takes the oldest `limit` messages that
match, marks them read and puts them into `reply[c]`. `Deliver` is the agent
reading the line, `Lose` the failed write or the client that has gone. `Read` is
`inbox.read`, `Post` checks the sender and not the recipient. `Limit` includes 0,
which the code treats as no limit. `received`, `lost` and `polls` are history. A message is named by
its mailbox and position, which stand for its uuid; text, subject and priority influence no
handler. The module covers one life of the daemon.

### Presence

`SetState` is `state.set`; it replaces the whole snapshot. The agents of this
module speak the daemon's field names; what the bridge sends instead is in `Requests`.
`Discover` has the three filters of `discover.agents`.
Paths are sequences of tokens with `"/"` among them, so that `starts_with` on text
(`OnPath`) and lying under a directory (`Under`) are different things. `state.set`
reads the clock under the lock. Registration and heartbeat read it before, but the
race is the subject of `Coordinator`; here they are one step, and an
earlier `started_at` could only make `SnapshotWithinSession` easier.

### Connection

The client takes the stream out of the handle for the length of a call and puts it
back only when a reply line has arrived. Every other way out, an error, end of
file or the drop of the future (`CancelCall`) closes the connection. `CancelCall`
in `writing` may have put the whole line, a line short of its newline or a fragment
on the wire (`parses`). The task reads a line, executes it (`Execute` stands for
the dispatcher and any handler, also for a request that is answered with an error) and
replies, until end of file, idle timeout, failed write or abort. `CloseListener`,
`AbortTasks`, `ReturnFromRun` and `ExitProcess` are the shutdown in the order of the code;
`abort()` only asks, so a task may go on meanwhile.

`AtMostOnceCalls` is what an agent sees of all this: a call is under way or not, is executed at most once, maybe after it failed,
and returns only when it was executed, with its own reply.

### DaemonLifecycle

A member of `Proc` is one `start` and the process it becomes. Each file
operation, each `kill` and each exit is a step: reading the pid file, probing the
pid, removing a stale file, truncating, filling, then the three steps of `bind_socket`, the
signal handlers, and at the end the removal of the two files. `pid_file` remembers
which start created the file, so a start that truncated a file which was then
removed writes into a file nobody sees. `Stop` commands read, probe, signal, wait and
remove. `strangers` are processes of others that take free pids. A signal before the handlers are
installed kills, later it starts the shutdown. `SerialSpec` is the part of `Spec` with one start at a
time, no stop that begins while a daemon starts, no start while one is being stopped, and no daemon that outlives the three
seconds of a stop. Stops may overlap, also with a shutdown, and may give up on a stranger that has the daemon's pid.

### StoreTables, AtomicStore and Store

`StoreTables` has one operator per SQL statement, from the tables before to the tables
after, with the foreign keys and their cascades (`DropSession`, `DropThreads`). A
column that no statement, query or key looks at is left out. In `Store`
`file` is what is committed, `view` what the connection sees, and `call`
the method that holds the mutex with the statement it is at. A transaction's statements change `view`;
`Commit` copies it to `file`. `Fail` is a statement that returns an error or panics: the
transaction is dropped, which rolls it back, and the mutex is given up (or poisoned, which
`lock()` ignores). `Crash` may come between any two steps, the migration's
included. `mark_inbox_read` is a loop without a transaction. Every query is a `Select` that leaves its result
in `answer`. No handler calls the store, so the methods come in any order.

SCHEMA_V1 is taken for what it means to say. As written it does not run: the
column `references` (`db.rs:597`) is a reserved word of SQL, "near
"references": syntax error", and `Store::open` fails.

### Requests and FrontEnds

A request is its method and its fields with their values. `Library`, `route` and
`Commands` are the offers of the client library, of the bridge and of the command line: which operation
comes to which request, for given arguments. `dispatch` gives for each method the fields the daemon requires and reads.
Of values only the ids that the daemon looks up, and whether a word is one it knows, are kept. The sender of a message
(`from_session`) is looked up, its recipient is not.

In `FrontEnds` the three talk to one daemon. The bridge takes a line,
opens a connection of its own for it and answers before it takes the next (`AnswerLocally`,
`RefuseTool`, `CallTool`); a command is a process with an exit code (`Exits`); an agent keeps its
client until a call fails and is then left with a client without stream
(`DropClient`). `Serve` is the daemon with its tables reduced to ids: it refuses a method it does not have, then
fields and words (`Parses`), then a session, a sender or an object it does not know (`Misses`), and only then changes
a table (`Perform`). `Crash` and `Start`
are the daemon's ends and beginnings at any step, `CloseIdle` its idle timeout. `ended` is history: how the
last call ended and what the daemon had done for it.

## 3. The runs

A run ends without error ("pass") or shows that the code does not do what a
document says ("violation").

| Run | Shows | Bounds |
|---|---|---|
| `core` | types, exact reverse index, mutual awareness, real conflict reports, times in order, ids keep their meaning, grants need a session | 2 tasks, 2 pids, 2 sessions, 2 reservations, 1 path, clock 0..1, ttl ordinary, rejected and negative after the cast |
| `cooperative` | no two agents use a path in modes that exclude each other, leases are covered by the table, sessions are of one agent, `AdvisoryLocks` is implemented | as `core`, with ttl 1 |
| `inbox` | polls in order and without repetition, queues only grow, no message stays behind | 1 session and the mailbox `""`, 2 connections, 2 messages, limits 0 and 1 |
| `lifecycle_serial` | one daemon, files that name it, no fatal leftovers | 3 starts, 3 pids, 2 stops, crashes and signals anywhere |
| `lifecycle_live` | every start settles and every signalled daemon ends, however commands overlap | 2 starts, 2 pids, 1 stop |
| `connection` | a reply belongs to its call, `AtMostOnceCalls` is implemented, every call ends | 3 connections, 3 calls |
| `presence` | snapshots within their session, nobody missed | 2 pids, 2 sessions, 3 paths, 1 branch, 2 profiles, clock 0..2 |
| `store` | references resolve, no transaction is inherited, answers are committed, types come back as written, `AtomicStore` is implemented | 2 sessions of one pid, 1 reservation, 2 messages, 1 thread, 1 custom type |
| `frontends` | a reply tells what happened, the crates agree on the wire, the bridge survives restarts and answers every line | 1 id of each kind, known or unknown words, optional arguments given or not, every client alone and with a call of the agent under way |
| `left_behind` | violation: reservations outlive their session | the smallest instance |
| `lifecycle_two_starts` | violation: two overlapping starts both serve | 2 starts |
| `tools` | violation: no tool of the manifest reaches the daemon | as `frontends` |

### Why the bounds are enough

*core, cooperative.* Each property relates at most two tasks, sessions or reservations, so two of
each show every pair. The properties are about one path at a time; a second would only be
independent. One tick separates "read before" from "stored after". Two session ids
allow a registration after a deregistration of the same pid. Symmetry among tasks, pids,
session ids and reservation ids is sound: no definition tells them apart and these runs have no
liveness. `TwoTo63 = 8` and `MaxSeconds = 3` keep the order of the
real constants, so that ttl 1 is ordinary, 5 makes the duration panic and 15 becomes -1. The
proofs cover every size.

*inbox.* Two messages, two lists under way and a limit of one suffice for a list to overtake, repeat, skip
or be cut off. The other mailbox takes broadcasts and is listed too: `inbox.list` does not check whose it is.

*lifecycle.* Three starts are a daemon, its successor and a start that meets both;
three pids leave one for a stranger. With as many pids as starts pids are reused,
including by the very start that finds its own number in the file.

*connection.* Three calls are one that is cancelled, one that could take its reply
and one after; connections are opened once each, so three give every failed call a fresh one.

*presence.* `src`, `src/main` and `src2` are the three relations two
paths can have; two sessions in turn show what is left behind.

*store.* Two sessions of one pid compete for its index entry, the only row two
sessions share; two messages give `mark_inbox_read` a half; one thread has both sessions as
creator or participant. The custom type is called `codex`, like a built-in one.

*frontends.* Properties are about one call; a second one under way changes the tables between
request and answer. That second one is an agent's (`Together`): the library has a wrapper for every method, so it can do
to the tables whatever a tool or a command can, and its connection is the one that outlives a call. Ids of one kind are not related to one another by any of the properties.

`CHECK_DEADLOCK FALSE` stands in the cfgs of `Connection`, the life cycle and
`Cooperative` only: there every start may have ended, every call or id been used up and every agent be done.

### Fairness

* `DaemonStep`, `StopStep` (weak): a process that can go on goes on. Spawning, signals,
  crashes, strangers and giving up have no fairness, nothing makes them happen.
  The wait of `stop` has both ways out: it ends when it sees the exit; that it gives up is a choice.
* `TaskStep` (weak, per connection): tokio polls ready tasks. It includes the idle
  timeout, which fires when nothing else happens.
* `ClientStep` (weak): the agent's runtime polls its call. It does not include
  cancelling, `CallsEnd` holds without it.
* `ListenerStep` (weak): the shutdown goes on once it began. Nothing makes it begin.
* `PollStep` (strong, per session) and `Deliver` or `Lose` (weak) in `Inbox`: agents
  keep polling (SDD.md 2.3). It is strong because the model has fewer connections
  than there are pollers, a bound of the model and not of the code. Which of the two a reply meets is
  left open, so `NoMessageStaysBehind` speaks of messages that arrive or are lost with a reply.
* `Serve` or `Receive` (weak, of the bridge) in `FrontEnds`: the task of its connection runs when it can and the bridge
  reads what is there. Nobody has to send, nobody has to start a daemon again, and commands and agents may stay where they are.

## 4. What is proved

All proofs hold for any sets of tasks, pids, ids, paths, types and any number of calls, starts and messages. The
assumptions are those the modules declare: mostly that `None` is not
a value, that bounds are naturals, and `TtlAssumption` for the agents. TLC evaluates them in the runs.
Each proof has one inductive invariant, one lemma per action or per conjunct, and a last theorem per property.

**CoordinatorProofs.** `IInv` gives `TypeCorrect`, `ReverseIndexIsExact`, `AgentsAreAware`, `ReportsAreReal`,
`TimesAreInOrder`, and the action properties `IdsAreStable` and `GrantsAreToSessions`.
`IInv` is stronger than the properties because a claim sees all live rivals only
if the clock it read is not ahead of the clock, `TasksReadThePast`: a rival
with `expires_at > clock` then has `expires_at > now` too. The order of a
reservation's and its session's times needs the same for waiting claims, and there that a
session which registers while a claim waits cannot have the id the claim names. This and the
history `told` need `OnlyMinted`: a fresh id is mentioned nowhere. `MutualAwareness`
needs the conflict test to be symmetric, which is the lemma `ConflictsAreTheVariants`: `mode_conflicts`
is exactly what the comments on the three variants of `ReservationMode` say (`reservation.rs:15-22`). The comment on
the type itself says less, "only equal or stronger modes", and is not symmetric (section 5). `ConflictsAreReal` says
more than that a report names true clashes: what it names was live by the claim's clock, and two claims never name
each other, since a fresh id is in no earlier report; so of two clashing holders exactly the later one is told.

**CooperativeAgentsProofs.** `CoopInv` adds to `IInv` who owns which session, and that
call, waiting task, reply under way and lease agree step by step (`CallsInOrder`,
`RepliesInOrder`). Its heart is `LeaseWithinReservation`: the agent counts from when it sent, the
daemon from when it parsed, so an agent's lease ends first. `NoTwoEditors` then follows
from `MutualAwareness`: of two live clashing reservations one was told, and what was told is no lease.
`ImplementsAdvisoryLocks` is the refinement: only `ReceiveReply` begins a use, the other steps end uses or leave them.

**InboxProofs.** `PolledIsRead`, everything up to the last message polled is read, makes `PolledInOrder` inductive;
it holds because a limited poll takes the oldest messages that match (`TakesTheOldest`, by cardinality).
`MailboxesOnlyGrow` is the action property. Two results are what liveness builds on: `EveryPollAdvances`, a poll takes and marks the
oldest unread message whatever its limit, and `ReadMessagesWereSent`, a message is read exactly if it left in a reply that is
under way, arrived or was lost. So a message can only stay behind where nobody polls, and only a lost reply loses it.

**PresenceProofs.** What is published was minted, and what was announced is live;
`NobodyIsMissed` then needs that a directory's text is a prefix of everything under it (`UnderIsPrefix`).

**ConnectionProofs.** `CInv`: a connection carries at most one request or reply; a handle that has a stream has a
clean wire unless its own call is reading; a request is due on one connection or executed, not both. So ids that are all 1 do no harm.
`ImplementsAtMostOnceCalls` is the refinement: `Execute` is the one step that executes, on a request that is due and therefore was not
executed; `ReadReply` returns what `RepliesAreEarned` says was executed.
`NoCallIsLeftWaiting` is what `CallsEnd` needs of every state: a call that reads has its reply coming or finds the connection
closed. It needs that an unaccepted connection has a listener (`BacklogIsAccepted`).

**DaemonLifecycleProofs.** Under `SerialSpec`, `LInv`: a start that is past the probe owns the files, there is one
owner, and a newcomer that is about to probe has read the owner's pid, which is running. The rest is what the files
hold at each step of the owner. Under `Spec`, with any overlap: `OnlyDaemonsAreRecorded`, the pid file, a start that probes and
a stop that signals never hold a pid but of a process that was a daemon once. `SerialUseIsAUse`: what holds of `Spec`, the
liveness that `lifecycle_live` checks included, holds of `SerialSpec`.

**StoreProofs.** `SInv`: outside a method the view is the file; inside, it is the file with the statements so far
(`UpsertView`, `DeleteView`, `DeleteThreadView`). Every step therefore leaves the file or applies a whole operation
(`ImplementsAtomicStore`), and each operation keeps the references. `TypesAreKept` rests on `TypesRoundTrip`.

**FrontEndsProofs.** `FInv`: an idle client was not served and, unless it is an agent, holds no connection; an answer in
the socket is true, that is, a refusal left the tables alone, be it of a claim with an unknown word or of a post whose
sender has no session; a connection that met its end of file is no longer open. `CallersAreTold` and `RestartsCostOneLine`
follow for each way a call can end. `WireInv`: what waits for the daemon is what its client offers, and what is offered mentions
ids and words of the arguments only (`FieldsAreArguments`). It gives `FrontEndsTypeCorrect`, `FieldsAreUnderstood` (one lemma per
crate compares its requests with the fields of `dispatch`) and `CallsAreUnderstood`: the misnamed commands are always refused,
everything else only for a word the daemon does not know or an object it does not have. `WaitsAreServed` is what `LinesAnswered`
needs of every state: who waits has an open connection to a daemon that is up.

Model-checked only: liveness (`CallsEnd`, `SignalsEndDaemons`, `StartsSettle`, `NoMessageStaysBehind`, `LinesAnswered`).
Leads-to under fairness, and whether an action is enabled, are outside of what TLAPS proves; that the migration, the
daemon and the agents make progress is not claimed by the proofs. Every other property of the runs that pass is a theorem.

## 5. Where the code and its documents disagree

Three disagreements have a run and are listed under `findings`:
reservations survive deregistration, two overlapping starts both serve, and the bridge routes other tool
names than its manifest advertises.

Others are in the model, as the code has them, and the properties are stated so that they hold
beside them. No run is spent on them.

Daemon:

* `handlers.rs:654`: `reservation.rs:10-11` and `docs/SDD.md:116` order the modes read < write < exclusive and say that a
  claim conflicts *only* with claims of equal or stronger mode. `mode_conflicts` reports the weaker reservations on the
  path to an exclusive claim too, as the comment on the variant says (`reservation.rs:20-21`: "conflicts with everything on
  the same path including `Read`"). The two comments contradict each other. `MutualAwareness` and `ConflictsAreReal`
  follow the code and the variants; `ConflictsAreReal` also says that this is the one way in which a report goes beyond the
  ordering (`BeyondOrdering`). Under the ordering alone a read and a later exclusive claim would both be granted
  unaware of one another, and `MutualAwareness` would fail.
* `handlers.rs:247`: a claim with conflicts is recorded all the same, although `reservation.rs:59` and
  `ARCHITECTURE.md:169` say that it was not granted. Two agents that retry block one another.
* `handlers.rs:74` and `140`: the heartbeat stamp is from before the lock, so
  `last_heartbeat` can go back, and even behind `started_at`, although `ARCHITECTURE.md:148` says it is bumped.
  `TimesInOrder` therefore bounds it by the clock only.
* `handlers.rs:215`: a `ttl_sec` of 2^63 or more is negative after the cast; the
  reservation has expired when it is made.
* `handlers.rs:405`: messages are read when the reply is computed, not "upon
  delivery" (`ARCHITECTURE.md:186`); a lost reply loses them for every later unread poll.
* `handlers.rs:116` and `483`: live state outlives its session (`ARCHITECTURE.md:273`), and a
  state push does not stamp the session (`teamcomm-protocol/src/session.rs:43`).
* `handlers.rs:542`: the path filter compares text, so `src` also finds `src2`.
* A restart forgets reservations that agents still rely on.
* `main.rs:188`: a stop that found the old daemon gone removes the pid file by name,
  also when a new daemon has written it meanwhile. In `lifecycle_serial` starts wait for stops.
* `pid.rs:22`: any process with the recorded pid blocks a start.
* `listener.rs:79`: a signal handler that could not be installed drops its sender; `changed()` then
  returns an error at once, each time round the loop.
* `listener.rs:111`: `run` returns without waiting for aborted tasks; the comment at line 43 says they have joined.
  Finished tasks' handles stay in `inflight` until then.

Client, bridge and command line:

* `teamcomm-client/src/lib.rs:48`: after one failed call the client has no stream and every later call fails; nothing reconnects.
* `teamcomm-mcp/src/handlers.rs:252`: `read_inbox` does not send `unread_only`, so with a limit it returns the oldest
  messages again and again (`ARCHITECTURE.md:180`: unread messages).
* `teamcomm-mcp/src/handlers.rs:275`: `announce_focus` and `set_status` nest their fields in `state`; the daemon looks for them beside
  `session_id`, finds none, and stores an empty, idle snapshot over the one there was.
* `teamcomm-mcp/src/handlers.rs:233`: `""` is no broadcast marker; the daemon files such messages under the session id `""`.
* `teamcomm-mcp/src/handlers.rs:108`: every agent of one bridge registers with the bridge's pid, so they share one session.
* The bridge sends `ttl_seconds`, `path_prefix`, `kind`, `since`, `role`, `metadata` and others that the daemon ignores, and the
  manifest offers the mode `shared`, which the daemon refuses.
* The commands `reservations claim`, `inbox list` and `state show` send `session` for `session_id` and are always refused;
  `state set-focus`, `state set-status` and `daemon stop` ask for methods that do not exist. All but the session
  commands and `daemon stop` exit with 0 whatever happened. `daemon start` runs the daemon without its `start` subcommand.
* The hook scripts in `configs/` use method names, request forms and a client program that do not exist.

Store:

* `db.rs:34`: the file does not compile at this commit, and with it the daemon's crate (`lib.rs:27`): it imports
  `MessageType`, `Thread` and `ThreadStatus`, which `teamcomm-protocol` does not export, calls `as_str` and `parse` of
  `AgentStatus` and `Priority`, which have neither, and uses three fields that `InboxMessage` lacks.
  `docs/M1-partial-2026-07-17.md:67` counts 13 such errors (and says at line 88 that the file compiles). `Store` takes
  the file at its word: methods and statements as written, with those types as it uses them.
* `db.rs:597`: the schema does not run (section 2).
* `db.rs:113`: `lock()` does not panic on a poisoned mutex. `NoOpenTransaction` shows that it need not.
* `db.rs:180`: deleting a session removes the index entry of its pid, also when a newer session has it.
* `db.rs:352`: inserting a message again takes over its flag, and may make it unread.
* `db.rs:407`: `mark_inbox_read` is no transaction.
* `db.rs:609`: a thread goes with the session that created it, also an archived one that `thread.rs:18` calls still readable.

## 6. Abstractions

* The wall clock does not step back, and counts whole seconds.
* The lock is fair or not, it does not matter: any waiting task may be next.
* The SIGINT and SIGTERM handlers are installed in one step and installing them succeeds.
* Pids in the pid file have equal length, so that two overlapping writes do not mix digits.
* Oversized lines and unparsable whole lines are answered like requests, without touching state (`Execute`).
* A field that is missing or malformed is answered with an error before the lock and has no action in the daemon's modules;
  `FrontEnds` has it as an answer.
* Daemon defaults (`ttl_sec` 600, `limit` 50) are members of the sets a request may carry.
* SQLite: statements are atomic, commits durable, foreign keys on; the write-ahead log holds what was committed.
* In `FrontEnds` the daemon's clock and its expiry are left out: no answer to a request depends on them but the
  contents of lists, which are not kept.

## 7. Not modelled

* Hook events: types without a handler. Thread requests: types without a handler, their rows are in `Store`.
* The hook scripts, the service unit and the smoke test: no state of their own.
* The loop of `sessions list --watch`, which repeats a modelled command until it fails, and commands killed half way.
* Serde encoding, output formatting, logging: generated, or wording.
* A clock that steps back: nothing in the code reacts to one, and the properties about time do not hold with it.
* That tables grow: expired reservations and read messages are never removed, no bound is promised.

## 8. What is left

1. The store as a refinement of `Coordinator`, `Inbox` and `Presence`, once handlers write to it.
2. Hook events and thread requests, once the daemon handles them.
3. `DaemonLifecycle` with overlapping commands: which of the properties survive a start that locks the pid file.
