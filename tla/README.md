# A TLA+ model of go-sqlite-rsync

The library ports the two protocol roles of SQLite's `sqlite3_rsync`: `Origin`
owns an up-to-date database, `Replica` brings a copy up to date, over one
`io.ReadWriter`, sending only the pages that differ. This directory holds TLA+
modules for the roles, the stream, the hash functions and the algorithm, TLC
configurations that check them on small instances, and TLAPS proofs for every
instance.

Contents: [inventory](#inventory) · [plan](#plan) · [modules](#modules) ·
[abstractions](#abstractions) · [runs](#runs) · [findings](#findings) ·
[fairness](#fairness) · [proofs](#proofs) · [not modelled](#not-modelled)

## Inventory

| Part (src/) | State it keeps | Operations | What makes it correct |
|---|---|---|---|
| Origin role, `sqlitersync/origin.go` | read transaction, running counter `iHash`/`nHash`, `mxHash`, `badHash` table, statistics | announce; check a hash; ask detail of groups; send pages, `ORIGIN_TXN`, `ORIGIN_END`; fail | hashes are compared with the range the replica meant; everything comes from one snapshot; all and only the differing or missing pages are sent |
| Replica role, `sqlitersync/replica.go` | attached file, one write transaction, `sendHash` table, `jMode`, `pIns` | open and first round; subdivide; send a round; write a page; commit; fail | the file is the old one or the full copy, in any failure; WAL stays WAL; a file it may not write is refused |
| Hash exchange, `sqlitersync/subdivide.go` | the ranges of the two tables | cut a range (1000 → 30 → 1), send a round of hashes | the pieces of a range tile it; the rounds come to single pages |
| Wire, `wire/wire.go` | buffers, byte counters | read and write typed fields; flush; `WriteError` | both ends of a message agree on its bytes; a cut message is an error; nobody waits for what the peer keeps in its buffer |
| API, `sqlitersync/sync.go` | options, statistics, context | `Origin`, `Replica`, again and again; clamp options; cancel | results and statistics tell the truth; a cancelled side stops in time; the run ends, and the next one starts afresh |
| SQL helpers, `sqlitersync/sql.go` | run struct, connection | run a statement, report its failure | a failure reaches the peer and ends the run |
| Hash functions, `hash/sql.go` | aggregate state; the registration, one for the process | `hash`, `agghash`; `Register` | NULL exactly when no page exists; a value asked for twice is the same; nobody runs on another library's function |
| Hash engine, `hash/hash.go` | sponge | absorb, pad, squeeze | different inputs never meet in the same blocks; equals the C engine (golden vectors) |

The roles share nothing but the stream; each runs in its own goroutine or
process, blocks in reads and writes, and reports only by its return value. The
two files are shared with other programs: SQLite's locks decide when those may
commit. What is hard is therefore: the interleaving of two blocking loops with
buffered writes (who waits for whom), the agreement of two counters that are
never sent, what other programs commit in between, the boundaries of the
subdivision, of the fill and of the buffers, what a cancelled side still does,
and what is left, for the peer and for the next run, when a statement, a side or
the link fails at any point. `PROJECT.json` lists these hazards line by line.

## Plan

The order is that of importance: the replica's content first, then the
conversation that produces it, then the conditions around it.

1. *Done.* `Pages`, `HashRanges`: files, hashes, ranges. `SnapshotCopy`: the
   promise. `HashExchange`: the algorithm, shown to implement the promise, with
   its inductive invariant and proofs.
2. *Done.* `Wire`, `Rsync`, `Origin`, `Replica`, composed in `Sync`: all
   message handlers, failures, a broken link, killed sides, other programs;
   checked to implement `HashExchange`.
3. *Done.* `Framing`: the stream byte by byte, with cancellation.
   `HashFunctions`: sponge, aggregate, registration. `Resync`: run after run.
   In `Sync`: cancelled contexts, failed registrations, counters of fixed width.
4. *Done.* Proofs for `Framing` (a cancelled side stops; both ends are in the
   same message) and `HashFunctions` (registration).
5. *Done.* Proofs for `Sync` and `Resync`: the inductive invariant of the run
   (`SyncInvariant`), the properties that follow from it, and the refinement of
   `HashExchange`, and through it of `SnapshotCopy`, step by step; the cost of a
   run over a replica that is up to date.
6. *Left.* A peer that is not this library: the default branches of both loops
   and the rejections of `wire.go`.

## Modules

```
SnapshotCopy  <--implements--  HashExchange  <--implements--  Sync  <--extends--  Resync
   |                             |      |                    /    \
 Pages                        Pages  HashRanges         Origin   Replica
                                                             \    /
                                                             Rsync -- Wire, Pages, HashRanges

Framing (what Wire abstracts, in bytes)      HashFunctions (what Pages!HashOf abstracts)

Subdivision (one range cut down: HashRanges by itself)

DataProof  <--  HashExchangeProof  <----.
   ^  ^                                 | INSTANCE
   |  '-------  SyncProof  <--  SyncRefinement
   |               v
   |            Induction  <--  FramingProof, HashFunctionsProof
   |               ^
   '-------  SubdivisionProof
```

| Module | Models |
|---|---|
| `Pages` | a file as SQLite's `sqlite_dbpage` shows it: page images, what a hash tells, inserting a page, truncating, what a commit leaves |
| `HashRanges` | `subdivideHashRange` and the first rows of `sendHash` |
| `Subdivision` | one range cut round after round, and the recursive query that makes the pieces |
| `SnapshotCopy` | the promise: in one step the replica becomes a copy of the origin as announced, or it is left alone |
| `HashExchange` | the algorithm without the wire: ranges to compare (`todo`), ranges that differ (`bad`), pages to send (`toSend`), the replica's open transaction (`work`) |
| `HashExchangeProps` | its properties, the inductive invariant, `ImplementsCopy` |
| `Wire` | buffered writes and flushes, a stream of given capacity, its end, its failure |
| `Rsync` | the `rsync` struct of either side, options, `WriteError`, SQL failures |
| `Origin`, `Replica` | one action per message handler, and one for each handler's failure |
| `Sync`, `SyncProps` | the run: both roles, the stream, callers, other programs, faults; its properties, `ImplementsExchange` |
| `SyncInvariant` | the inductive invariants of the run: `SyncInductive`, and on top of it `ExchangeInductive` for the refinement and `CheapInductive` for `UpToDateIsCheap` |
| `Resync` | one run after another over the same files, while the origin moves on; `Converges`, `UpToDateIsCheap` |
| `Framing` | one direction of the stream in bytes: both `bufio` buffers, the fields of each message as one role writes and the other reads them, byte counters, `ctxStream` |
| `HashFunctions` | the sponge, the aggregate object, the scalar function, `Register` by several roles of a process |
| `MC...` | instances for TLC |
| `DataProof` | lemmas about ranges and files |
| `SubdivisionProof` | the drill-down from a range of any length |
| `HashExchangeProof` | the exchange: its inductive invariant, its properties, `ImplementsCopy` |
| `Induction` | induction and definition by recursion over a range of numbers, as facts about sets |
| `SyncProof` | lemmas about messages, counters and rounds; `SyncInductive`, one lemma per action of `Sync` and `Resync`; what follows from it, for a run and a sequence of runs |
| `SyncRefinement` | `ExchangeInductive`; every step against `HashExchange`; the promise, for runs over the wire; what a run costs that has nothing to copy |
| `FramingProof`, `HashFunctionsProof` | theorems of these two |

State and code in `Origin`: `snap` is what the run's `BEGIN` pinned,
`iHash`/`nHash`/`mxHash` are the locals, `badHash` the TEMP table, `hashed` says
that the table exists (`pCkHash # nil`). In `Replica`: `work` is the file inside
the open transaction (`<<>>` when none is open), `sendHash` the table, `nRPage`
the page count read before `BEGIN IMMEDIATE`, `jMode` and `pIns` the locals.
`rs[s]` is the `rsync` struct of side `s`; `pc[s]` says whether the side is
blocked in a read, in a write, between two halves of the `ORIGIN_BEGIN` handler
(`"sql"`), or has returned; `ret[s]` is the result it has decided on.

A handler is one action as long as nothing outside the side can tell: its SQL
runs inside one transaction on a private connection. Two places are not like
that and are split. The `ORIGIN_BEGIN` handler reads the page count before it
takes the write lock, so other programs may act between `OnOriginBegin` and
`OpenTransaction`. And a handler that writes leaves its messages in `out[s]`
with `pc[s] = "write"`: the stream takes them piece by piece, whatever the peer
does meanwhile, until `Flushed`.

In `Framing`, `put`, `sent`, `got` and `taken` count bytes: `sent + 1 .. put` is
what `bufio.Writer` holds, `taken + 1 .. got` what `bufio.Reader` holds. `goal` is
the end of the `Write` in progress and `ask` the length of the `Read` in
progress. `WriteFields` is written from the writing role, `ReadLengths` from the
reading one. In `HashFunctions`, `once` and `verdict` are `registerOnce` and
`registerErr`, `registered` is the driver's table, `conn[r]` what the connection
of role `r` got of it, and `cx`, `started`, `done`, `result` are the fields of
`agghashAggregate`.

## Abstractions

- A page image has the header fields that matter (journal mode, size in pages,
  change counter, all on page 1) and one number for its other bytes.
- A hash is the list of images it covers: two contents with one hash are
  excluded, as the protocol itself assumes. In `HashFunctions` a digest is the
  list of blocks the permutation was applied to: the permutation is symbolic,
  what meets in a block and how it is padded are not.
- A string argument of the SQL functions is its bytes, like a blob; a number is
  any argument they refuse.
- 1, 30, 1000 pages and the limit of 100 are constants. `MCHashRanges` uses the
  real ones (the limit of 100 occurs in no action there); the other instances
  use `Fine = 2`, `Coarse = 3`, `FlatMax = 2`, so that eight pages reach every
  level and, as with 30 and 1000, a large group is not a multiple of a middle
  one. The proofs are for any values.
- In `Wire` a message is written and read whole. A broken link, or a writer that
  is killed or cancelled, can cut one, and then the reader's result says so
  (`StreamEnds`). `ctxStream` looks at the context only when a buffer is filled
  or written out, so a cancelled side of `Wire` may stop at any of its reads and
  writes or go on: `Framing` has the exact rule and shows that a cut message is
  an error (`NothingTorn`) and that a cancelled side stops (`CancelledStops`,
  `CancelledReturns`).
- In `Framing` a byte is its position. What the reader finds where it looks for a
  type byte is the message that starts there, and garbage if none does.
- Page counters wrap at `Modulus`, which the instances set just above their
  largest file, as 2^32 is above the 2^32 - 2 pages SQLite allows.
- Opening a file, the ATTACH with its retries for other text encodings and each
  statement may fail (`Fault`); which of several consecutive statements failed
  makes no difference to the peer and is left open.
- `Resync` keeps the default options, WAL files and origins with pages, so that
  every run could succeed; what its variables still hold of the last run is what
  the code keeps, nothing, except `snap`, which is set before it is read.
- Other programs' commits to the replica's file are counted with the faults to
  keep the instances finite; in `HashExchange` they are not bounded.
- A rolled-back transaction leaves the file as it was, and a rollback-mode
  origin cannot be committed to during the read transaction: SQLite's own
  guarantees, external to this code.

## Runs

Runs that pass:

| Run | Instance | Shows |
|---|---|---|
| `ranges` | real sizes; ranges of 1 to 2001 pages around every boundary, cut down along every path | the pieces of a range tile it (`PiecesTile`), three rounds suffice (`ThreeRounds`), the rows are those of the recursive query (`SubdivideIsTheQuery`) |
| `exchange` | origins of 0, 1, 5, 7, 8 pages, replicas shorter, equal, longer with any of pages 1, 3, 7 different, both journal modes, lock-byte page 6, any commits of other programs, run after run | no page escapes (`NoPageForgotten`), ranges never overlap (`RangesApart`), what is left is sent (`RestIsOnItsWay`) and nothing else (`OnlyDifferencesSent`), well-formed files, commits are copies, the promise is kept |
| `sync` | rendezvous stream, no faults; three origins (empty, rollback, WAL) and nine replicas, every pair of options, both page sizes | both sides end (`Terminates`); each hash is compared with the range it was made of (`HashesNameTheirRange`); a ready finds a table (`ReadyAfterHash`); negotiation (`OlderProtocolWins`), refusals (`PageSizeKept`, `WalOnlyEnforced`), `SuccessIsCommit`, `StatsAgree`; all of the inductive invariant the proofs use (`SyncInductive`); the run is a hash exchange (`ImplementsExchange`) |
| `faults` | stream of one message, an origin in WAL and one in rollback mode, each of which other programs may replace by the other where SQLite lets them, replicas of none, 7 and 8 pages; any two faults: SQL failure, failed registration, lost link, kill, cancellation, foreign commit | untouched or a full copy; failures reach both sides (`NoOneSidedFailure`); both sides end |
| `resync` | stream of two messages, versions of the origin of 2, 5 and 3 pages, a new replica and one of 5 pages, lock-byte page 4, two faults, any number of runs | every run is an exchange of its own; the replica ends as the last version (`Converges`); an up-to-date replica costs one round and at most page 1 (`UpToDateIsCheap`) |
| `stream` | buffers of 3 bytes, fields of 1, 2 and 4, six conversations, rendezvous and a pipe of 2 bytes; cancel, kill or hang either side anywhere | both codes of a message agree (`InStep`); no cut message passes for the end (`NothingTorn`); byte counters meet (`CountersMeet`); `CancelledStops`, `CancelledReturns`; no byte is waited for in vain (`EverythingArrives`) |
| `hashing` | blocks of 3 bytes, up to two rows of 0 to 2 bytes (among them the padding's own), values asked for twice, two roles, other libraries taking either name at any time | values are hashes of the rows (`ValueIsHash`) and tell contents apart (`HashesTellBytes`); `OnlyOwnFunctions`, `SameVerdict`, `RegisterEnds` |

Why the bounds are enough. Two pages per middle group and three per large one
give a subdivision of every shape: a single page, a full chunk, a short last
chunk, a group cut twice. The lock-byte page lies inside the files, so files
end before, at the page after and beyond it. The stream's capacity matters only
through who can be blocked writing: 0 and 1 are the worst cases, 2 lets both
sides write at once. A second fault after the first one ended a run still meets
the other side; a third one meets nothing new. Three bytes of buffer let a field
fit, cross the end and be larger than the buffer, and hold more than one message
or less. A block of three bytes lets an input end on each of its bytes, one short
of the end and on the end being the cases the code distinguishes; two roles are
enough for one to come while the other registers.

`ranges`, `hashing` and the two liveness counterexamples run without TLC's
deadlock check: there the behaviour stops when there is nothing left to call. In
`Sync` and `Framing` ending is an explicit stuttering step, so a state in which
somebody waits for ever without having returned would be reported as a deadlock.

Proved and not run by themselves: `TypeOK` of the exchange, which is part of
`Inductive`, `TypeOK` of `Sync`, which follows from `SyncInductive`, and
`IdenticalUntouched`. The inductive invariants of the proofs (`Inductive`,
`SyncInductive`, `ExchangeInductive`, `Stopping`, `Framed`) were checked on the
instances of the runs before they were proved. `WalOnlyEnforced` appears twice: it
holds when nobody else creates the replica's file (`sync`) and fails when
somebody does (`wal_only_race`).

Every property of a passing run has a mutant: a version of one definition with
a plausible bug (named next to it, marked *Mutant*) under which the same run
fails. Mutants are used by nothing else.

## Findings

Five statements of the documentation are not kept; each has a run that shows it.

| Run | Statement | What happens |
|---|---|---|
| `failure_returns` | a failing side sends its error and returns it | over `net.Pipe`, when both sides are in a write (one its error, the other a round larger than the buffers), both block for ever |
| `comm_check_ends` | a communication check tells whether a pipe carries the protocol | both sides write first and never read: over a rendezvous stream neither returns (and over a buffering one both succeed, having read nothing) |
| `nil_means_synced` | the role returns when the replica matches the origin | the stream ends between two messages, because the origin died, was cancelled or could not register its functions: `Replica` returns nil with nothing committed |
| `announced_page_count` | the replica ends with exactly the announced page count | an origin of no pages leaves the replica as long as it was |
| `wal_only_race` | both databases must be in WAL mode | the replica's file, created in rollback mode after its page count was read, is synced |

## Fairness

Only weak fairness, and only of what runs by itself.

- `sync`, `faults` and the two liveness counterexamples: each role's goroutine
  (`OriginRuns`, `ReplicaRuns`) and, per direction, the stream (`StreamRuns`:
  deliver what there is room for, return from a flush, report the end, and the
  caller closing the stream of a role that has returned, which `sync.go` demands
  of it). `resync` adds the caller that calls again (`NextRun`).
- `stream`: the writing role, the reading role, the stream, the closing caller.
- `hashing`: the role in `registerFunctions` and each role's own steps.

Faults, cancellations, killed or hung processes and other programs are never
forced to happen. No strong fairness is used: a step of a role stays enabled
until it is taken. That a cancelled side returns is claimed only outside an I/O:
one blocked in a read or write of a peer that hangs stays there, as `sync.go` says.

## Proofs

TLAPS checks every theorem for all values of the constants that satisfy the
assumptions of the modules:

| Assumption | Says |
|---|---|
| `PagesAssumption` | the two sets of files are well-formed databases; the lock-byte page is not page 1 |
| `RangeAssumption` | `1 < Fine < Coarse`, `1 <= FlatMax` |
| `SubdivisionAssumption` | the first ranges have a first page and a length |
| `RsyncAssumption` | a page size; counters wide enough for the files, as a uint32 is for SQLite's; a number of faults |
| `CapacityAssumption`, `OptionAssumption` | the stream holds some number of messages, 0 for a rendezvous; options are options |
| `FramingAssumption` | positive lengths, numbers and hashes that fit into a buffer, messages of the protocol |
| `HashFunctionsAssumption` | a block of at least two bytes; arguments are NULL, a number or bytes; numbers of rows and calls |

### Data (`DataProof`, `SubdivisionProof`)

`SubdivideTiles`, `FirstRangesCover`: the pieces of a range are ranges, cover it, do
not overlap, and are smaller; the first ranges cover the replica without overlap.
The argument is arithmetic: two multiples of the chunk are at least a chunk apart.

From it, for a range of any length and groups of any two sizes: its pieces tile it
however often it has been cut (`PiecesAlwaysTile`), three rounds come to single
pages (`RoundsAreThree`, by the invariant `Down`: the first cut leaves at most a
large group, the second a middle one, the third a page), and the recursive query
makes the rows that `Subdivide` writes down as a set (`QueriesAreSubdivide`, by
induction from the last row back to the first).

### The exchange (`HashExchangeProof`)

`InductiveInvariant`: `Spec => []Inductive`. The properties alone are not
inductive. That no page is forgotten needs the ranges to lie inside the file and
every page below `mxHash` to have been compared; that the rest is on its way
needs both once the last group is gone; that the commit is a copy needs, besides,
that the transaction shows the old file until the first page is written
(`WorkIsFile`) and that it keeps journal mode and lock-byte page (`WorkKeeps`).
`RangesApart` needs the disjointness of `SubdivideTiles`. There is one lemma per
action; a next run (`Again`) starts from the file the last one left, which is a
database. From it: `TypeCorrect`, `NoPageIsForgotten`, `RangesStayApart`,
`TheRestIsOnItsWay`, `OnlyDifferencesAreSent`, `FileStaysDatabase`, and the action
properties `CommitsMirror`, `WalIsKept`, `IdenticalIsUntouched`.
`ExchangeImplementsCopy`: every step of the exchange is a step of `SnapshotCopy` or
a stutter; the commit by `CommitCopies`.

### The run (`SyncInvariant`, `SyncProof`)

`RunIsInductive`: `Spec => []SyncInductive`, and `ResyncIsInductive` the same for a
sequence of runs. The properties speak of results and counters; what makes them
inductive is what may be in flight, in each direction, at each point:

| Conjunct | Says | Needed because |
|---|---|---|
| `Typed`, `RolesInStep` | types; what `pc`, `ret` and `out` say of one another | a side that has decided says nothing but what is in `out` |
| `Conversation` | which message may follow which; a message from the origin tells the truth about its snapshot | a handler's reply is behind what is already in flight |
| `Turns` | both directions are busy only while a failure is reported | otherwise a counter could move while its peer still speaks |
| `Stages` | before the first round the counters are as at the start; after it both know the protocol, page size and page count | `OlderProtocolWins`, `PageSizeKept` |
| `OneByOne` | version 1: single pages, no table of ranges, no message of version 2 | `OlderProtocolWins` |
| `Exchanging`, `Committing` | what is said while the transaction is open; `badHash` exists by the time it is asked for; nothing is under way to the origin once the replica has committed | `ReadyAfterHash`, `SuccessIsCommit` |
| `CountersNameRanges` | from `iHash`/`nHash` on, the hashes in flight are hashes of the ranges the counters will come to | `HashesNameTheirRange`; a `REPLICA_CONFIG` must be in the stream exactly where the replica jumps |
| `FailuresTold` | a failure is known to the other side or in flight to it, and nobody has succeeded before the commit | `NoOneSidedFailure` |
| `Tallies` | the statistics of the two sides differ by what is in flight | `StatsAgree` |
| `WalChecked` | the file the transaction is open on is the one `walOnly` was checked on, unless another program wrote it | the walOnly check is not atomic with `BEGIN IMMEDIATE` |

One lemma per action says that it keeps all of them; `RunTyped`, `RunCountersName`,
`RunHashesFirst`, `RunProtocolsAgree`, `RunTalliesMeet`, `RunFailuresMeet`,
`RunCommitsFirst` and `RunKeepsPageSize` follow, and `ResyncIsSafe` for run after
run. `WalOnlyEnforced` is not a theorem of `Spec`: the run `wal_only_race` refutes it.
`UndisturbedKeepsWal` proves it for the behaviours in which no other program writes
the replica's file, whatever else fails.

`Decoded`, `Positions` and the rounds of hashes are recursive functions. The
library's induction theorems take an operator and cannot be used, but
`NatLessThanWellFounded` and `WFMin` speak of sets: `LeastElement`, `InductionTo` and
`PrimitiveRecursion` in `Induction` get induction and definition by recursion from
them, and with these what a recursive function computes is proved.

### The refinement (`SyncRefinement`)

`RunImplementsExchange`, `ResyncImplementsExchange`: every step of a run is, under
the mapping in `SyncProps`, a step of `HashExchange` or a stutter. Besides
`SyncInductive` this needs `ExchangeInductive` (`RunRangesOnce`), which holds while a
commit may still come of the run:

- `RangesOnce`: no range is at two places at once (in `sendHash`, in a request, in
  a hash, in `badHash`). `Pending` is a set; a message read takes its range out of
  it only if no other message carries the same one.
- `PagesOnce`: pages are in ascending order, with `ORIGIN_TXN` behind them, so a page
  is never announced again after it was written.
- `Kept`: `pIns` is false until the first page, and `jMode` is the journal mode of
  the file, which is what `InsertPage` of the exchange goes by.

The proof corrected the exchange: `OriginWrite` was not allowed while pages are sent
over a rollback-mode snapshot. But an origin that was killed after its last write
holds no lock any more, while the replica still reads what is in the stream. The
guard now says so, and `faults` has a rollback-mode origin, with which it fails
under the old guard.

Composed with `HashExchangeProof`, whose theorems `SyncRefinement` instantiates
under the mapping, this gives the end-to-end results, for one run and for any
sequence, over any stream and with any faults: `RunsImplementCopy` (from outside,
the replica's file becomes a copy of the announced origin in one step or is left
alone), `RunsKeepDatabase` (it is a well-formed database at every moment) and
`RunsCommitSnapshot` (a commit leaves the pages of the announced snapshot).

`RunIsCheap`, `ResyncIsCheap`: a run over a replica that is up to date has one round,
and no page but page 1 is sent (`UpToDateIsCheap`), for files of any size. The
property speaks of counters; `CheapInductive` adds what makes them so: `badHash` holds
page 1 at most, no group in flight contains page 1, what the replica hashes is its
file until a page is written, and the round in flight reaches the end of the file
(`OnlyPageOneDiffers`). It needs `SyncInductive` (the counters name the ranges that
were hashed, so a hash that differs would be of two pages that differ) and
`RunsKeepDatabase` (the hash of a range of a database is not the null hash, which
matches nothing). Whether the replica is up to date is settled when the transaction
opens: the file does not change until it ends. TLC finds `CheapInductive` to hold in
the instances of `sync`, `resync` and `faults`.

### The stream and the hash functions (`FramingProof`, `HashFunctionsProof`)

`StreamStops`, `CancellationStops`: after its cancellation a side reads or puts at
most one buffer, or one larger field, more. The invariant (`Stopping`) is about the
I/O in progress, which the property does not mention: a `Write` empties the buffer,
a `Read` starts on an empty one, and a cancelled side starts neither, so the ends
of both are fixed when the context is cancelled.

`EndsAgree`: `Spec => [](Stopping /\ Framed)`, for any scripts in which an
`ORIGIN_BEGIN` comes before a page. `WriterAt` and `ReaderAt` say in which field of
which message each end is; the fields the reader has still to read are the rest
of those written, which holds because the two codes of every message agree
(`CodesAgree`, the one place where each message is looked at) and because the
reader knows the page size from the first `ORIGIN_BEGIN` on. `Ended` says how a run
ended, `Tally` what was counted: the writer's counter is what it has put before the
present field, less the type bytes of texts. A writer that fails may have counted
less than it has put; that the reader has still not counted more needs that no
field begins inside of another (`NoneInside`), since what can be read in full ends
where a field does. From it: `FramingTypes`, `ReaderInStep`, `StreamIsWhole`,
`StatsMeet`.

`RegistrationIsSafe`, `NoForeignFunction`, `OneVerdict`: for any number of roles,
nobody runs on a foreign function and all get one verdict. The invariant ties the
verdict to the driver's table: it is settled before the first role is let in, and
a function once registered stays.

`EvaluationIsSafe`, `ValuesAreHashes`, `HashesTell`: whatever the block length and
however many bytes the rows hold, every value of `hash` and `agghash` is the digest
of the rows' bytes with the padding of SHA-3, and two digests are equal exactly when
the bytes are (with the permutation symbolic). `Holds(c, bytes)` relates a context
to what it has absorbed: full blocks and a rest; one byte, a whole `HashUpdate`, the
skip to the last byte of a block and `HashFinal` keep it (`AbsorbHolds`,
`UpdateHolds`, `LoadedHolds`, `FinalHolds`). `PaddedTells` and `BlocksTell` say that
neither the padding nor the cut into blocks loses the input. The invariant of the
aggregate has two halves, before and after `done`: the context holds the rows, or
the cached result is their digest and no row comes any more.

### Only model-checked

All liveness (`Terminates`, `EverythingArrives`, `CancelledReturns`, `RegisterEnds`,
`Converges`): fairness and ENABLED are outside the prover.

## Not modelled

- The permutation of the hash engine (`hash/hash.go`): 64-bit words in 24 rounds,
  out of TLC's reach and covered by golden vectors.
- A peer that is not this library: the default branches for unknown bytes, and
  the rejections of `wire.go` (an exponent above 16, a text above 1 MiB, a
  negative length) that no writer of this library provokes.
- The text encodings the ATTACH of the replica is retried with (one step that
  succeeds or fails), the quoting of names, and the text of messages.
- Errors of closing rows, statements and connections, and the pool of one
  connection: rows are closed before the next statement on every path.
- The C program and the tools under `testdata/`.
