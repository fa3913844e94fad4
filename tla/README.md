# TLA+ models of Fabric Reconciliation

These modules model the reconciliation runtime of this repository: the engine
and its tables, the durable store below it, the classification and planning it
does, the documents it takes in, the service and client above it with the frames
between them, and the command line tools. TLC checks them on small instances;
TLAPS proves the safety properties of the engine, the store, planning, framing,
the service's threads, the sessions and the tools for every value of their
constants.

## 1. Inventory

The runtime compares what a scope *should* look like (intents) with what it
*does* look like (observations), plans actions, hands them out, and keeps a
durable lineage of what became of each. One process owns a store; clients reach
it over a framed TCP protocol.

| Part | Source | State | Operations | What is hard about it |
| --- | --- | --- | --- | --- |
| Engine | `engine.cpp` | the store's tables, the live epoch, plans held by callers | Boot and its restart sweep, PutPolicy, CommitIntent, RecordObservation, Plan, Dispatch, Complete, Verify, PutFence, ClearFence | handlers of several records, cut anywhere by a crash or a failing append; plans that outlive what they were built on |
| Lineage | `lineage.cpp` | attempts, outcomes, fences | legal transitions, terminal and inconclusive states | an outcome must never contradict its attempt |
| Durable store | `store.cpp` | tables, sequence | Open, replay, AppendAndApply, trimming, Compact | replay must rebuild exactly what was acknowledged |
| Journal, snapshot | `journal.cpp`, `snapshot.cpp` | two files and a staging file | create, append, cut a torn tail, reset; stage and rename | a kill between any two file operations |
| Drift | `drift.cpp` | none (pure) | ClassifyScope | merge of two sorted maps; absence is not ignorance |
| Planning | `engine.cpp` (BuildPlanLocked), `authority.cpp`, `plan.cpp` | none (pure) | decisions, authority, verdict | truncation, fences, stale evidence |
| Server threads | `server.cpp`, `net.cpp` | session registry, threads, wake channels, two mutexes | Start, accept loop, ServeSession, Stop | shutdown racing admission; blocking reads and writes |
| Sessions | `server.cpp`, `client.cpp`, `wire.cpp`, `wire_ops.hpp` | identity, sequence and epoch at both ends | Handshake, Exchange, Call, Close; ServeSession, Handle | crash after the effect and before the answer; replays; stale epochs |
| Frames | `wire.cpp`, `net.cpp` | the stream, FrameReader's buffer | EncodeFrame, SendAll, Receive, FrameReader | nothing aligns what a call moves with the frames; a peer that leaves in the middle of one |
| Documents | `document.cpp`, `value.cpp`, `canonical.cpp`, `identity.cpp` | none (pure) | validation, canonical encoding, digest, exact decoding | a document is decoded only after it is durable |
| JSON files | `json.cpp`, `document_json.cpp` | none (pure) | parser, accessors, ToJson, ParseJson | members that are present, absent or of another kind |
| Tools | `tools/` | the process that holds the store | the commands of `fabric-reconciliation`, the modes of `fabric-reconcile-worker` | every command is a process and an epoch of its own |
| Hashes, explanations, status | `hash`, `explain`, `status` | none | conversions | not modelled (section 8) |

Interactions: a session thread decodes a request and calls the engine, whose
mutex serialises handlers; a handler reads the tables and appends records one
by one; the store appends and syncs each record before the tables change, and
rebuilds them from snapshot and journal at the next open. Planning calls
classification. Plan and Dispatch are separate engine calls, so anything may
happen between them. A document comes out of a file through a command, out of
a request through a session thread, or from a caller of the library; the engine
admits it, and the store decodes it again at the next open. A command is a
process that opens the store, calls the engine a few times and ends.

The properties that make the parts correct: acknowledged mutations survive; a
restart leaves no usable authority behind; an action is issued only under live
authority and once per key; a fence revokes; outcomes are facts; convergence
and difference are claimed only on evidence that proves them; Stop ends every
thread and returns; a call's result is the truth about its request; a reader
returns the frames that were sent; what is stored is what was meant, and can be
read again; a command that reports success has changed the store for good.
`PROJECT.json` lists the hazards line by line.

## 2. Modules

| Module | Models | Extends or uses |
| --- | --- | --- |
| `Engine` | the engine over its tables | |
| `DurableStore` | store, journal and snapshot | implements `AtomicStore` |
| `AtomicStore` | the abstract promise of the store | |
| `EngineSweep` | the engine with a record of the attempts its restarts found in flight | EXTENDS `Engine` |
| `EngineStore` | the engine's tables as an `AtomicStore` | EXTENDS `Engine`, implements `AtomicStore` |
| `Drift` | `ClassifyScope` | |
| `Plan` | `BuildPlanLocked` | composes with `Drift` (EXTENDS it) |
| `Server` | threads, locks and shutdown of the service | |
| `Session` | the session protocol between client and service | |
| `Frames` | one direction of a connection: encoder, stream, frame reader | |
| `Documents` | documents and their canonical encoding | |
| `Json` | JSON values, parser and printer | |
| `DocumentJson` | intent and observation files | EXTENDS `Documents`, INSTANCE of `Json` |
| `Intake` | the way of a document into the store and out of it again | EXTENDS `DocumentJson` |
| `Tools` | commands and worker modes as processes on one store | EXTENDS `Engine` |
| `Engine_proofs`, `DurableStore_proofs`, `Plan_proofs`, `Frames_proofs`, `Server_proofs`, `Session_proofs` | theorems | EXTEND the module they are about |
| `Tools_proofs` | theorems about `Tools` | EXTENDS `ToolsSteps_proofs` (the lemmas about single steps), which EXTENDS `Tools` and `Engine_proofs` |
| `MC*` | instances for TLC | |

How the cuts fit together. `DurableStore` treats the tables as a state of an
arbitrary machine `Apply`; `Engine.ApplyPayload` is the body of that machine, and
`Engine` relies on the promise `AtomicStore` states: an append is acknowledged
and survives, or fails and is settled by the next open (`limbo`). Both
modules are proved to implement that promise: `DurableStore` for every `Apply`,
`Engine` with its own tables and `ApplyPayload` (`EngineStore`), so a handler
that was cut, a Boot that failed or an open that replayed changes the tables in
no way the store would not. The converse, that `Engine` leaves out nothing the
store may do, is not a theorem: it is read off `AppendAndApply` and `Open`, which
let every append succeed, fail without trace or fail and be replayed.
`Engine` takes "which subjects would be acted on" as the constant operator
`Actionable`; `Drift` and `Plan` are the code behind it. `Session` abstracts the
engine to whether it acted on a request, `Server` abstracts a frame to
whether a thread needs the engine for it; both take frames as wholes, which is
what `Frames` shows of the stream below them. `Engine` takes documents as values;
`Intake` is the path that makes a value of a payload or a file, and shows that
the records replayed are the values admitted. `Tools` composes the engine with
the programs that call it: every engine action is taken by a process that is
somewhere in its program.

### Engine

`policy`, `last_epoch`, `intents`, `observations`, `attempts`, `next_attempt`,
`outcomes` and `fences` are `DurableState`. `phase` is the life of the process
(down, opening, fencing, up, or reading for a read-only open). A handler that
appends several records holds the engine's mutex throughout; what it still owes
is in `op` (attempts to issue, attempts to sweep, the outcome that follows a
transition), so `Crash` and a failing append fit between any two records.
`wedged` is `write_failed_`: after a failed append every further one of that
process fails, and `limbo` is a failed record that reached the disk after all
and will be replayed.

`live_epoch` is `last_epoch`: the code assigns both together, and no reachable
state of a serving engine separates them. A digest is the document it is
computed from. The boot identity and the epoch are fresh together, so the pair
the code compares is the epoch. The table of intent generations is only
reported, never decided on, and is left out.

### DurableStore and AtomicStore

Every file operation after which a kill leaves another disk is a step: creating
the file, its header, an append that lands whole, torn or not at all, staging,
rename, truncation, the new header. `history` (the tables after each
acknowledged record) and `doubt` (a record whose append was reported failed)
are what callers were told; they are history variables, which only their own
updates read.
The refinement maps `durable` to the last state of `history` and `visible` to
the tables of a store in service.

A crash is the end of the process. Data synced by `fsync` and completed renames
survive; the loss of a directory entry at a power failure is not modelled.

### Drift and Plan

`Drift` runs the merge loop one record per step with the two iterators as sets
of subjects not passed yet, and leaves early with one class for all subjects
where the code does. `Plan` takes the finished report, decides record by record
and concludes the verdict. Reason codes, explanations and digests are left out.

### Server

One process per thread: the accept thread, a session thread per connection, the
caller of Stop, and the clients. A step is a stretch of code between two points
where a thread may block or another may look: taking `Impl::mutex`, taking the
engine's mutex, selecting on a socket and a wake channel, writing. The frames
are counted, not interpreted. A thread that cannot send a Welcome, a Pong or a
Response ends; one that cannot send a refusal (`refusing`) goes on to what its
reader still holds, as the code casts the result of that send to void.
`max_sessions` is an option of the server, chosen at the start out of `Limits`.

### Session

The library's client and other peers share the service. A frame carries type,
session, sequence, boot, epoch and, as a history field the bytes do not have, the
call it belongs to. The service compares an answer with no limit before it sends
it: an OK may be larger than the client accepts, and then arrives as a head, which
the reader rejects, and a tail, or larger than the writer takes, and then arrives
without payload (the client reports it as rejected, `unreadable` here). `Handle` is
a free choice of what the engine does: one that answers OK acted on the request,
one that answers an error may have acted on it in part or left a record behind,
and after the session layer's own refusals (`refused`, `epoch`) it never saw it.
The client's re-handshake branch (`Rehandshakes`) is translated but never taken:
the service reports a stale epoch in another frame. `acted` keeps, per connection,
the requests the engine acted on and the epoch in which it did, and `via` the
connection of each call; both are history variables.

### Frames

The stream is one sequence of cells with three cursors, `consumed`, `received` and
`written`; FrameReader's buffer is what lies between the first two. A header field
of any width, a digest or a part of the payload is one cell. SendAll writes any
part of what is left, Receive returns any part of what arrived, a cell may be
damaged on its way (`MaxDamage`), and the sender may leave at any point. A digest
is told apart from every other one: what the models say of damage rests on that.

### Documents, Json, DocumentJson and Intake

A buffer is a sequence of cells: a number of any width is one, a letter of a
text is one. `Width` is the width of a 64-bit number where its sign matters. The
writer reserves and fails as CanonicalWriter does; the reader fails once and
stays failed as CanonicalReader does; `DecodeExact` is decode, validate, compare
digests and be at the end. A file is a sequence of tokens; white space, quoting
and the spelling of integers are left out. A real is its integer part and
whether it is whole, because `%.17g` writes a whole one below `PlainReals` as an
integer. ParseJson reads members as the code does, with its defaults and its
leniencies (section 4); a cast of a real that is just out of range is undefined,
so both outcomes of the builds are taken (`saturates`).

`Intake` takes a document by a file written by hand, its own dump by ToJson, a
payload or a call (`Ask`), may alter a file or payload in one place (`Alter`),
and hands it to CommitIntent or RecordObservationAt; `Reopen` replays the
journal. `asked` is the request under way, with what its author meant, and
`answer` what it came to, until the caller leaves with it.

### Tools

`tool` is the process that holds the store's lock, with the steps its program
still has to take and what it committed so far; `acknowledged` is the history of
what processes that reported success committed. Every process opens a new epoch
(`Start`, then the engine's own boot actions through `Owes`), begins its
command, takes its steps on the engine's actions, ends at the first that fails
and may be killed anywhere (`Kill`, the worker's `--kill-at` points included). A
program on the library, the server included, may make any call in any order
(`LibraryCall`).

## 3. Runs

| Run | Checks | Instance |
| --- | --- | --- |
| `Engine` | types, `RestartRevokesInFlight`, `OneUnfinishedAttemptPerKey`, `OutcomesAreFacts`, `IdentitiesAreNeverReused`, `IssuedUnderLiveAuthority`, `FencedNeverAdvances` | one scope, subject and reporter, a strict and a lax policy, two generations, two epochs, two attempt ids with one retained, one fence, one plan |
| `Tools` | types, `ExitIsTruthful`, `InheritedIsInert` | as `Engine`, with two plans and one attempt id; every command and mode |
| `Store` | types, `NothingAcknowledgedIsLost`, `Implements`, `Reopens` (liveness) | two kinds of record, four records; the state is the sequence of records |
| `Plan` | types, `EverySubjectOnce`, `ConvergedMeansEqual`, `DifferencesAreProven`, `ActionsAreJustified`, `ConvergedIsProven` | every pair of states of one subject over two attributes and four values; every pair of maps over three subjects; every pair of candidates; fences, permissions, and room for two decisions |
| `Server` | types, `StopLeavesNoThread`, `RunningSessionsBounded`, `ReleasedThreadsEnd` (liveness) | two connections, one or two sessions allowed, three frames |
| `Session` | types, `CallsAreTruthful`, `EffectsAreOwnedAndOrdered` | the library's client with two connections and three calls, answers of any size, another peer with three frames of any of 11, one restart |
| `Frames` | types, `DeliveredAsSent`, `BufferBounded`, `RefusalHasCause`, `FramesArrive` (liveness) | two frames: empty, at the bound of two payload cells, or beyond it; four cells a read; one damaged cell |
| `Intake` | types, `OpensAgain`, `AcceptedAsMeant`, `AlteredIntentIsRefused`, `PayloadsAreWhole`, `ParserIsExact` | seven intents and four submissions, two receive times, two records, two epochs, one observation retained; the first input altered in any one place |

What they show, in a sentence each: whatever crashes or fails, a serving engine
has no authority left over from before, one action is out at most once, its
outcome is consistent, authority is live when an action is issued and a fence
stops it afterwards; nothing a command reported as committed is ever undone, and
one that only inherits evidence never touches an attempt; the store behaves as a
log of atomic commits; classification and planning claim only what the evidence
proves; no more sessions run than allowed, Stop leaves nothing running and
everything it releases ends; no request is acted on twice, a client is told the
truth about its request until a call on the connection was indeterminate, and
another peer gets only what belongs to its own session; frames arrive as sent,
in bounded memory, or not at all; documents are stored as meant and can always
be read again.

Why the bounds are enough for the cases that matter. Two epochs give a crash at
any step and the sweep after it. Two attempt ids with one retained force an
eviction, and two generations give an action a second key. Two policies and two
generations of evidence give every way the authority of a plan can lapse before
dispatch. Four records, with snapshots anywhere, give a journal whose base is
before and at the watermark; the state tells sequences of records apart, so a
record replayed twice or skipped shows. Two connections against a limit of one
bring admission to its limit, and against a limit of two let two sessions
contend for both mutexes while Stop runs; the third frame is the request after
two handshakes. A peer needs three frames to open a session and repeat a
request; the peer is followed while the client has made one call at most
(`Apart`), as the two meet only in the session numbers and the crash. Three
calls are the fewest in which one can read the answer of another. The age of
evidence plays no part in what the engine runs check and is one reading of the
clock there; `Plan` varies it. Four cells a read and nine of a header make reads
end inside the header, inside the payload and inside the next frame. The
documents of `Intake` include each kind of value, same generation with other
content, an empty identity, an invalid value, a text too long, one subject too
many and a document that does not fit the writer.

Where a definition has a bound that the program does not have (`Epochs`,
`AttemptIds`, `MaxPlans`, `MaxSequence`, `MaxFrames`, `MaxCalls`, `MaxRaw`,
`MaxEpoch`, `Apart`, `MaxRecords`, `MaxRecordsWhenAltering`, `MaxDamage`,
`MaxNumber`), the constant says so. No run uses symmetry. `CHECK_DEADLOCK FALSE`
stands where the system may stop: a finished classification or plan, a stopped
server, a client out of calls, a stream that ended.

Each property is also checked against a faulty variant of one definition (the
operators marked `Fault`), which TLC finds to violate it.

## 4. Where the code and its documentation disagree

Four runs check a statement of the repository that the code does not keep, and
TLC finds the behaviour. The quotations are in `PROJECT.json`.

| Run | Statement | What happens |
| --- | --- | --- |
| `EngineInterrupted` | attempts in flight when a process died are reported as ambiguous | a second crash between the two records of the sweep loses the outcome of an attempt it found (`EngineSweep.found`) |
| `EngineVerified` | verified means evidence was accepted | Complete may go from applied to verified |
| `StoreHeader` | a crash loses nothing acknowledged | truncation before the header leaves a store that does not open |
| `ServerStop` | Stop shuts every connection down and joins | a session admitted during Stop is not released, and Stop waits for it |

`StoreHeader` does not contradict `NothingAcknowledgedIsLost`: the acknowledged
records are all in the snapshot, but no open of this code accepts the files.

Further disagreements that the models contain and no run is spent on:

* Verify takes the first attempt with the key of the evidence
  (`FirstWithKey`, `engine.cpp:1019`), so an applied attempt is out of its reach
  when an earlier one with its key failed.
* Observations are evicted oldest first over all reporters (`Trimmed`,
  `store.cpp:459`), after which an older generation is accepted; README.md:134
  says a regressed generation is refused.
* PutFence closes dispatched attempts with `ambiguous` false (`SweepTarget`,
  `engine.cpp:1182`); lineage.hpp:51 calls Fenced inconclusive.
* A fence on one subject lets the rest of a plan be dispatched (`ToIssue`,
  `engine.cpp:831`); README.md:131 says the whole plan is refused.
* Unfinished attempts are never evicted (`TrimAttempts`, `store.cpp:470`), so the
  table can outgrow its bound and the snapshot is then refused at
  `store.cpp:804`; README.md:147 says every table is bounded.
* Append does not look at the bound on the journal that Open enforces
  (`Acceptable`, `journal.cpp:364`).
* The policy's coverage switch for convergence (policy.hpp:57) is never read
  (`Verdict`, `engine.cpp:728`): documents that agree are concluded converged
  without complete coverage. `ConvergedIsProven` leaves that case open.
* An observe-only attribute that is missing or not comparable is acted on
  (`DeltaKind`, `drift.cpp:58`); policy.hpp:70 says it is blocked.
  `ActionsAreJustified` requires it of attributes that both sides hold with values
  of one kind.
* Finished sessions stay in the registry and count against `max_sessions`
  (`Admit`, `server.cpp:692`); limits.hpp:64 speaks of concurrent sessions.
* The handshake asks the engine for its epoch under the server's mutex
  (`NameSession`, `server.cpp:550`); docs/CONCURRENCY-AUDIT.md:60 says this never
  happens. It is harmless to shutdown: `ReleasedThreadsEnd` holds.
* The client starts a new frame reader for every call and compares neither session
  nor sequence of an answer (`client.cpp:212`), so when an answer exceeds its own
  payload limit its remainder is read by the next call. Both are reported
  indeterminate, and a third call reads the answer of the second.
  `CallsAreTruthful` therefore claims nothing of what a call returns after an
  indeterminate one on the same connection (`Trusted`; without it TLC finds that
  behaviour), and claims at most one effect of all calls.
* A stale epoch is answered in a Response frame, and the client re-handshakes only
  on an Error frame (`Rehandshakes`, `client.cpp:246`).
* document.hpp:73 says that a submitter "cannot choose received_epoch or
  received_unix_ms: the runtime stamps receipt itself"; the server hands the stamp
  of the request to the engine (`Received`, `server.cpp:211`), and the command
  line tool takes `--now`. The epoch is the runtime's own.
* README.md:331 says that unknown members of a file are refused; those of a
  subject or of an attribute are not looked at (`ParseSubject`,
  `ParseAttribute`).
* An attribute that is not of the kind its member names, or does not fit, is
  taken for 0, false or the empty text (`document_json.cpp:80`); json.hpp:15 says
  that literals which do not fit the target range are refused.
* An attribute that names several of absent, bool, i64, u64, text and token is
  taken for the last of them (`Named`); the message at `document_json.cpp:101`
  says exactly one is needed.
* A real number in place of a generation is cut to its integer part, and one just
  beyond the range passes the range check, which compares with a bound rounded up
  (`AsUnsigned`, `AsInteger`).
* ToJson of an intent adds a member `digest` (`DigestJson`) that ParseJson refuses,
  so no dump of an intent can be taken in again.
* The command line tool names a fence after `--below` alone
  (`FenceStep`, `fabric_reconciliation_cli.cpp:366`), so a second fence with the
  same bound replaces the first, whatever its scope and subject; lineage.hpp:128
  calls fences durable.
* Every command opens an epoch of its own, and the epoch is part of a plan's
  identity, so `dispatch --plan-id` never matches a plan an earlier command
  printed (`fabric_reconciliation_cli.cpp:288`).

## 5. Fairness

Safety runs assume none. `DurableStore.LiveSpec` has weak fairness of the steps
of Open: somebody restarts the process and Open, which is sequential code, runs
to its end; `Reopens` is stated for behaviours in which crashes stop.
`Server.LiveSpec` has weak fairness of each thread (accept thread, every session
thread, the caller of Stop): the operating system schedules a thread that can
run. `Frames.LiveSpec` has weak fairness of SendAll's writes and of the receiving
thread: `FramesArrive` is about a connection whose other end reads, and promises
nothing once the sender left. No fairness is assumed of clients, which may stay
silent for ever. A thread
waiting for a mutex is only weakly fair, so a property that held only because a
mutex is granted in turn would fail here.

## 6. Proofs

`Engine_proofs`, for all values of the constants, with the assumption of
`Engine` on them (named, and evaluated by TLC in every engine run):

* `TypeCorrect`: `TypeOK`;
* `RestartRevokes`: an engine that serves has unfinished attempts of its own
  epoch only;
* `DispatchIsIdempotent`: one unfinished attempt per idempotency key;
* `OutcomesStayFacts`: at most one outcome per attempt, and it names the
  attempt's state;
* `FencesRevoke`, `LineageIsAppendOnly`, `AuthorityIsLive`: the three action
  properties;
* `EngineKeepsStore`: the refinement of `AtomicStore` (`OnAtomicStore` of
  `EngineStore`), with the tables for `durable`, `limbo` for `doubt`, and the
  tables of an engine that is not down for `visible`. The further assumption is
  that `None` is no state of the tables.

The inductive invariant is `IInv == TypeInv /\ TablesInv /\ ProcessInv`. None of
the properties is inductive alone. A handler has obligations between two
records: the sweep must hold every unfinished attempt of the old epoch
(`phase = "fencing"`), every attempt still to be issued must still be authorised
and have a key of its own, and the outcome owed must agree with the transition
already made. A failed append leaves a record that may be applied much
later, at the next open, so `ProcessInv` says of `limbo` that applying it to
the tables as they are keeps them consistent (`Sound`), and that the tables do
not change meanwhile because the journal is wedged. One lemma shows that
applying a sound record keeps `TablesInv`; the rest is that each action only
appends sound records.

The refinement needs three things of the invariant: a handler in progress is
that of an open engine, every record appended is well-formed, and a record in
limbo means a wedged journal, so nothing is committed while one is in doubt. An
append that fails while booting is the case where a caller gives the store up
with the failure, which `AtomicStore` allows (`Fail`). TLC is not asked for
`OnAtomicStore`: it would try every record of the instance at every step.

`DurableStore_proofs`, for every `Apply`, `Records`, `States` and bound:

* `StoreTypeCorrect`: `TypeOK`;
* `NothingIsLost`: `NothingAcknowledgedIsLost`;
* `StoreIsAtomic`: `Implements`, the refinement of `AtomicStore`.

The invariant (`DiskInv`, `ProcessInv`) says that each acknowledged record in
the journal leads from one state of `history` to the next, that a record beyond
`history` is the doubtful one and the last, and how far replay has brought the
tables (`Reached`, which is the watermark while records are being skipped).

`Plan_proofs`, for every set of inputs, subjects, attributes and values and every
bound on the decisions. The assumption on inputs is that they are made of
well-formed documents, that a non-empty set of candidates has a newest one
(which finite sets have), and, for a request of the engine, that its one intent
is the committed one:

* `TypeCorrect`: `TypeOK`;
* `MergeIsComplete`: `EverySubjectOnce`;
* `ConvergenceIsExact`, `DifferencesAreSound`: `ConvergedMeansEqual` and
  `DifferencesAreProven`;
* `PlansAreJustified`, `VerdictIsSound`: `ActionsAreJustified` and
  `ConvergedIsProven`.

The inductive invariant says that every record is what ClassifyScope makes of its
subject (`Judged`), that what the iterators have before them is what is not
reported yet and comes after all that is (`ProgressInv`), and that decisions and
verdict are those of the records so far (`DecisionsInv`). The properties compare
with any sound pair of documents; `SoundIsSelected` shows that there is at most
one, the pair that the code selects, and `WalkIsExact` that the walk over the
attributes finds no difference exactly when there is none.

`Frames_proofs`, for all messages, sizes of reads and writes, bounds and damage:

* `TypeCorrect`: `TypeOK`; `BufferIsBounded`: `BufferBounded`;
* `FramingIsFaithful`: `DeliveredAsSent`;
* `RefusalsAreDeserved`: `RefusalHasCause`.

The invariant says that the stream is the encoding of what was sent, one frame
after another, except in damaged cells, and that the reader's cursor stands at
the first cell of the first frame it has not returned.

`Server_proofs`, for any finite set of connections, any limit and any number of
frames:

* `ThreadsAreTyped`: `TypeOK`;
* `SessionsAreBounded`: `RunningSessionsBounded`;
* `StopIsFinal`: `StopLeavesNoThread`.

The invariant says that every running thread is registered, that the registry
never outgrows the limit, counting the session whose admission was decided, that
a session is registered before its thread starts, and what is over by the time
Stop has come to each of its joins.

`Session_proofs`, for any sets of connections, any frames the other peers write,
any number of calls and of restarts:

* `TypeCorrect`: `TypeOK`;
* `EffectsOwned`: `EffectsAreOwnedAndOrdered`;
* `Truthful`: `CallsAreTruthful`.

The inductive invariant has three parts beside the types. `EffectsInv` is what a
session thread knows of its past: all the engine acted on for it has its identity
and a smaller number than the next. `ResultInv` is about the calls that returned: of
a trusted one, what was returned is the truth, and a refused one is `Over`, so its
request waits nowhere either. `FlowInv` is about the streams. Its first half holds
whatever the sizes of the answers are: the requests acted on and the ones waiting on
a connection are those of calls made on it, in order, each of another call
(`Lined`), which gives at most one effect. Its second half holds while no call on
the client's connection was indeterminate (`Sound`), and is what makes the client's
reading of an answer sound although it compares neither session nor sequence: there
is at most one frame on its way in either direction, and it is the request of the
call under way or a truthful answer to it (`ClientInv`, `Answers`).

`Tools_proofs`, for all values of the constants, with the assumptions of `Engine`
and those of `Tools` (policies are numbered, the fence a command names after an
epoch exists, a process is not `None`):

* `ToolsImplementEngine`: every run of processes is a behaviour of `Engine`, so
  the theorems of `Engine_proofs` hold of the programs;
* `ExitsAreTruthful`: `ExitIsTruthful`;
* `InheritedInert`: `InheritedIsInert`;
* `ToolsTyped`: `ToolsTypeOK`.

The inductive invariant adds four parts to the engine's `IInv`. `ProgramInv`:
the process that holds the store is somewhere in its program, and the attempt it
is about to report on was issued, or is the first its dispatch still has to
issue. `EpochInv`: nothing is dated later than the last epoch, and a record in
limbo comes after the tables it may yet be applied to (`Follows`); without the
latter a replayed record could undo what a command reported. `InheritInv`: a
process that was not given the means to act has no attempt of its own epoch, and
one that did not observe no observation, so a plan it makes has no authority.
`ExitInv`: all that was ever acknowledged is in force, and so is what the
present process committed, which it is about to report. The refinement is proved
step by step: `CallRefines` for the calls of a program, `ToolsRefines` for
opening, ending and being killed.

Only model-checked: all liveness (`Reopens`, `ReleasedThreadsEnd`, `FramesArrive`:
the prover has no fairness or ENABLED), and everything about `Intake`. Its
properties rest on what the recursive codecs compute for every document and
every file, which takes induction over data, and `Json` declares recursive
operators, which keeps the prover out of the modules above it.

## 7. Plan

Done: the modules above, their runs, and the proofs of the safety properties of
all of them but `Intake`. Next, in this order:

1. The composition of `Server` and `Session`: a stop during calls, and what the
   client is told.
2. The codecs and files of policies, fences and verification evidence.

## 8. Not modelled

* The bytes of a number, a checksum or a hash: a number is one cell, a digest
  stands for what it was computed of, a record of the journal is whole, torn or
  missing.
* White space, escapes and the spelling of integers in JSON; the codecs and files
  of policies, fences and verification evidence; the reports the tools print.
* Rendering, statistics and explanations.
* Power failure that undoes completed file system operations, signals, reuse of
  socket descriptors, and two threads in Stop at once.
* The freshness of evidence at dispatch: Dispatch compares the identity of the
  evidence and not its age, and so does the model.
* The age of a session: the code has no timeouts on sockets.

## 9. Running

    tlc -workers 2 -config Engine.cfg MCEngine
    tlapm Engine_proofs.tla

`ToolsSteps_proofs` takes the prover about ten minutes, the other modules less.

Each row of section 3 is a `.cfg` of that name, for the `MC` module of its part.
