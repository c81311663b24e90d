# TLA+ models of the AZD Bitcoin miner

This directory specifies the concurrent and the numerically delicate parts of
the miner in `src/`, model-checks them with TLC on small instances, and proves
theorems about the core with TLAPS. Paths below are relative to `src/` of the
repository (`stratum/client.cpp` is `src/src/stratum/client.cpp` of the checkout);
`PROJECT.json` names, for every definition, the lines it stands for.

1. [The system](#1-the-system)
2. [Plan](#2-plan)
3. [The modules](#3-the-modules)
4. [What the runs show](#4-what-the-runs-show)
5. [Fairness](#5-fairness)
6. [What is proved](#6-what-is-proved)
7. [Where the code and its documents disagree](#7-where-the-code-and-its-documents-disagree)
8. [Not modelled](#8-not-modelled)

## 1. The system

The program is one process. `main()` builds a `MinerController`, which owns
the statistics, the backends, the pool client and the worker threads, and an
`ApiServer`, which calls the controller for the dashboard.

| Component | State | Operations | Talks to |
|---|---|---|---|
| **Stratum client** `stratum/client.*` | `running_`, `stopRequested_`, `state_`, `socket_` (atomics); `outbound_`, `pendingSubmits_`, `nextId_` (mutex); extranonce, difficulty, `delay`, line buffer (connection thread) | `start`, `stop`, `submitShare`; the thread's connect / handshake / receive / flush / back-off; one handler per message | pool over TCP; controller through `onJob`, `onDifficulty`, `onStateChange`, `onShareResult` |
| **Line buffer** `stratum/message.*` | `buffer_`, `overflowed_` | `append`, `nextLine`, `clear` | connection thread |
| **Message codec** `stratum/message.*` | none | `Message::parse`, `buildSubscribe`, `buildAuthorize`, `buildSubmit`, decoding of `mining.notify` | JSON |
| **Miner controller** `mining/miner.*` | `config_`, `pool_`, `workers_`, `running_`, `stopFlag_`, `useCuda_`, `currentJob_`, `jobGeneration_` | `start`, `stop`, `updateConfig`, `workerLoop`, pool callbacks, `handleFoundNonce`, self-test, JSON views | client, backends, statistics |
| **CPU backend** `mining/miner.cpp` | none | `mine` | stop flag, `hashWorkAtNonce` |
| **CUDA backend** `cuda/cuda_backend.cu` (and its stub) | device buffers, `deviceReady` | `ensureDevice`, `mine`, `mineKernel`, telemetry | the GPU |
| **Work generation** `mining/work.*` | none (counter in the worker) | `encodeExtranonce2`, `buildCoinbase`, `buildWork` | Bitcoin arithmetic |
| **Statistics** `mining/stats.*` | counters (atomics), sample window, session, best share (mutex) | `addHashes`, `hashrateOverWindow`, `record*Share`, `beginSession`, `endSession` | workers, client callbacks, API |
| **API server** `api/server.*` | `running_`, `listenSocket_`, accept thread | `start`, `stop`, accept loop, request reading, routing | controller |
| **Bitcoin arithmetic** `bitcoin/*` | none | SHA-256, 256-bit integers, compact targets, Merkle root, header layout | - |
| **Configuration, JSON, hex, logging** `core/*`, `util/*` | - | parse, validate, save | main, API |
| **Main** `main.cpp` | shutdown flag | argument parsing, signal handling, start-up and shut-down order | controller, server |
| **Dashboard, scripts, tests** | - | - | HTTP API |

How they interact, and what is hard about it:

- *Worker -> client.* A worker that finds a share calls `submitShare()`. That
  reads `state_` without the lock, then takes the mutex and queues. The
  connection thread may reconnect in between.
- *Connection thread -> controller.* Callbacks run on the connection thread and
  change the job under the controller's mutex while workers hash. Workers compare
  a generation number before every chunk.
- *Controller -> client.* `stop()` runs on another thread: it closes the socket
  the connection thread may be using, notifies a condition variable without
  holding its mutex, and joins. `start()` destroys and replaces `pool_`, which
  workers use without a lock.
- *Pool.* Answers come late, twice, out of order or never; notifications come
  at any point of the handshake; connections drop between any two steps.
- *Two callers of the controller.* `main()` and the accept thread of the API
  server call `start()`, `stop()` and `updateConfig()`, which take no lock that
  would keep them apart. `main()` stops the miner before it stops the server, so
  that a request read in between may start it again.
- *Clients of the API.* One connection is served at a time, without a time limit.
  Clients hang up, reset, send half a request, or do not read their answer.
- *GPU threads.* Several threads of a launch find shares together and race with
  two atomics and a plain store for one result slot.
- *Arithmetic at the edges.* 32-bit nonces wrap, 64-bit counters must not;
  extranonce2 is cut to what the pool asked for, a hash block fills up before its
  length is in it, a depth limit must be undone on every way out.
- *Clocks.* Workers read the clock before they take the statistics' mutex.

What makes each component correct:

- **Client**: a share has one fate, is counted once, and counts as accepted only
  if the pool credited it; jobs, extranonce and difficulty are those of the
  session being served; every descriptor is closed once; `stop()` returns; a lost
  connection is followed by another, after a wait that grows with the attempts since
  the last healthy session.
- **Line buffer**: the lines delivered are the lines sent, however the stream is cut.
- **Controller**: no chunk begins on old work; the client outlives its users;
  a stopped miner has nothing left running; a current job is worked.
- **Scan and backends**: no nonce submitted twice, hashes counted as hashed,
  the range really covered, the scan ends; a launch reports a real winner.
- **Work**: extranonce2 values do not repeat before their space is used up.
- **Statistics**: windows and counters hold what was recorded, whatever the order.
- **API server and main**: complete requests are answered; the process ends when
  told to and leaves nothing at work; calls that do not overlap are safe.
- **Messages**: the pool rebuilds the very header that was hashed.
- **JSON, configuration**: texts are read as the grammar says, written values come
  back, and an edit changes what it names and nothing else.
- **Bitcoin arithmetic**: exact with respect to the mathematical definitions.

The hazards in detail, with the line where each bites and the property that
would catch it, are in `PROJECT.json`.

## 2. Plan

The order follows importance: what can lose or miscount a share comes first.

| | Module | State |
|---|---|---|
| 1 | `ShareLedger`, the abstract promise about a share | done |
| 2 | `StratumClient`, implementing it, and `ClientHistory`, which keeps a record of what it is told | done; all their invariants and the refinement are proved (`StratumClientProofs`) |
| 3 | `LineBuffer` | done; its types and both properties are proved (`LineBufferProofs`) |
| 4 | `MinerController`, for any number of calling threads | done; its types and all its safety properties are proved (`MinerControllerProofs`) |
| 5 | `MineKernel` and `MineKernelProofs` | done |
| 6 | `NonceScan`, CPU and GPU | done; its types and all its safety properties are proved (`NonceScanProofs`) |
| 7 | `ApiServer`: `main()`, the accept loop and its clients over the `MinerController` | done; its types, `ExitIsClean` and `SerialCallsAreSafe` are proved (`ApiServerProofs`) |
| 8 | `UInt256`, `Difficulty`, `MerkleTree`: integers, targets and trees against their definitions, on short words | done; all their properties are proved for every width (`ArithmeticProofs`, `AlgorithmProofs`) |
| 9 | `Work`, `Wire`: extranonce2 and its wrap, targets of work; the bytes of a share from the pool and back | done; proved (`AlgorithmProofs`) |
| 10 | `Sha256`, `Statistics`, `JsonStrings`, `Configuration` | done; proved (`AlgorithmProofs`) |
| 11 | `Json` | done; model-checked only |

Composition: `StratumClient` carries the controller's callbacks as its
environment (`job`, `verdicts`), and `MinerController` carries the client as a
source of callbacks; `ApiServer` is `MinerController` with both of its callers
and the threads they run on. `Work` builds on `Difficulty` and `MerkleTree`, and
`Wire` on `Work`. `NonceScan` uses what
`MineKernel` establishes of one launch (`LaunchCorrect`).

The bounds stay those of section 4: two of whatever can be confused with another
(shares, sessions, workers), and word sizes of a few bits.

## 3. The modules

In every module an action is one step that other threads can see whole:
a critical section, an atomic access, a blocking call, or a handler with all it
calls. Constants named as bounds in a module's header exist for TLC only; theorems
hold for every value of them. Operators commented *Wrong form* are not part of
any specification. Each is a definition with a plausible bug (a forgotten guard,
a swapped order); put in the place of the right one, it makes the property
it is paired with in `PROJECT.json` fail, which is how the properties
are shown to depend on the code.

### ShareLedger

The abstract specification: a share is found, refused as stale or queued, sent,
and ends accepted, rejected, stale or lost. Once ended it stays so, and accepted
requires that the pool credited it. `Lose` takes any set of queued and sent
shares at once, for a connection takes all it carries down with it.

### StratumClient (and MCStratumClient)

| Model | Code |
|---|---|
| `pc` from `top` to `blocked` | the connection thread: `threadMain()`, `runConnection()` |
| `stopPc` | the thread in `start()` / `stop()` |
| `submit[s]` | a worker between finding `s` and the return of `submitShare(s)`; `checked` is the gap between reading `state_` and taking the mutex |
| `flushing` | the local batch swapped out of `outbound_` |
| `pending` | `pendingSubmits_`, request id with the share |
| `sock`, `opened`, `closes` | `socket_` and the life of each descriptor |
| `link`, `toPool`, `fromPool`, `credited` | the connection, both directions, and the pool's books |
| `lines` | complete lines waiting in the line buffer |
| `job`, `verdicts` | what the callbacks leave in the controller: the current job, one entry per count of a share |

`stop()` is four steps (`StopRequest`, `StopNotify`, `StopClose`,
`StopJoin`), because each is visible to the connection thread. The back-off wait
is three (`WaitTests`, `WaitBlocks`, `WaitTimesOut`), so that `stop()`'s
notification, made without the mutex, can fall between the predicate and the
wait and be lost. `FlushShare` draws the id, records the entry, sends the line
and takes the entry back if that fails; these are one step because the answers
and the entries are handled by the same thread. All received-message handlers are actions of their own, including the
answers to requests the client does not know any more. `SendSucceeds` is possible
on a connection that is already down, as with TCP.

A session number also names the descriptor and the extranonce of the session.
Reuse of a descriptor *number* by another socket is not modelled. `Start` leaves out
the refusal of a client without a host or user name (client.cpp:142-145): the
controller tests its configuration before it makes a client (miner.cpp:138).

### ClientHistory

`ClientHistory` EXTENDS `StratumClient` and adds four history variables. They are taken
from the messages as they are read and from the attempts to connect, never from what
the handlers do with them: the difficulty last `announced` in the session, the one in
force when the job at hand was `received`, those announced `since`, and the `attempts`
to connect, of which the last authorized one is the first. So `JobAtAnnouncedDifficulty`
compares the controller's job with what the pool has said in this session, and
`BackOffFollowsAttempts` compares `delay`, which the code doubles and resets in several
places, with a closed form over the attempts: `reachedAuthorized`, on which the code
decides, does not appear in it.

### LineBuffer

Bytes are a newline, a carriage return, or another. `Receive` is one `recv()`
with `append()` and the client's overflow test, `NextLine` and `NoLine` the
draining loop, `Reconnect` is `clear()`. `LinesOfTheStream` says what the lines
should be from the stream alone: there are places in it, each the first newline
behind the one before (`CutAt`), between which the delivered lines lie, and what
is behind the last one is in the buffer.

### MinerController (and MCMinerController)

`ctl[c]` is where the calling thread `c` is in `start()`, `stop()` or
`updateConfig()`, with a step for each point that workers, the connection thread or
another caller can observe; `wpc[t]` is a worker in `workerLoop()`. `StartSpawns` starts
all workers in one step (what the first ones can see of the loop, the size of
`workers_`, is a hazard of its own in `PROJECT.json`), and `WorkerHashes` is the tests before
a chunk and its beginning (miner.cpp:396-408): the job may change right behind the
test of the generation, and the properties speak of the moment of that test. A job is its
version number: every `onJob()` and effective `onDifficulty()` makes a new one.
The generation is modelled apart from it, with `start()`'s reset to zero, since
that the two agree is what must be shown. `useCuda` is chosen by every `start()`,
so a run has CPU sessions after failed CUDA ones. `workers` holds unjoined
handles, among them the one a failed CUDA worker leaves behind.

The controller has no lock of its own, and the model has none either: with two
callers, `start()` may find the client another one has connected
(`StartFails`) or torn down (`StartFindsNone`, a null pointer), and two threads
may destroy the client or touch the vector of workers at once. That is
undefined behaviour: the ordinary step is one outcome, `Collides` - the end of the
process - the other. With one caller these steps cannot happen, and the runs
`Miner` and `MinerConfig` look at that case.

### ApiServer (and MCApiServer)

`ApiServer` EXTENDS `MinerController` with its two callers, `"main"` and
`"api"`.

| Model | Code |
|---|---|
| `mpc` | `main()` from the server's start: `--start`, waiting for the signal, `miner.stop()`, the steps of `ApiServer::stop()`, and the destructors |
| `apc`, `conn`, `raw` | `acceptLoop()` and `serveConnection()`, the connection it serves, what it has read |
| `serving`, `listener` | `ApiServer::running_`, `listenSocket_` |
| `backlog`, `req`, `sent`, `end` | the kernel's queue of connections, and each client's side |
| `overlap` | a history variable: did two calls of the controller ever overlap? |

A request is what it calls and how long its body is; it comes in units, the first
being the head. Reading endpoints, static files and refused paths change nothing
and are one kind, "file". A client may send its request in any portions, hang up
at any point of it, reset the connection, or not read. An answer to a connection
that was reset raises SIGPIPE (`send()` without `MSG_NOSIGNAL`): `AnswerFails` where the
write returns an error, `AnswerKills` where the signal ends the process. The pool's
callbacks are steps of the module too. They change the job only, which neither `main()`
nor the server looks at.

### MineKernel

One launch: `Begin` (range check and early return), `Hash`, `Claim` (the
`atomicCAS`), then `Store` (the plain write) or `TakeMin` (the `atomicMin`).
Hashing is membership in `Winners`. The early return reads `found` without
synchronisation; a thread that reads it after a peer set it may see either value.
`Synchronized` is the host reading the result.

### NonceScan

The inner loop of `workerLoop()`, with `mine()` of either backend: `remaining`,
`hashes` and offsets are `uint64_t` (`CountSpace`), nonces `uint32_t`
(`NonceSpace`). On the CPU each nonce is a step and the stop flag is polled every
`PollEvery` of them. On the GPU a launch is a step whose result is any winner of
the launch, and threads that gave up are not hashed, as `MineKernel` shows.
`tried` and `hashed` are history variables: how many hashes were made, and of
which nonces.

### Powers, UInt256, Difficulty, MerkleTree

The exact arithmetic behind jobs and shares, as functions. A `UInt256` is four
limbs of `LimbBits` bits, 64 in the code, and the operators do what the code does
limb by limb: carries, borrows, bits passed between limbs, restoring division.
`Value` is the integer the limbs stand for; the properties compare the two. In
`Difficulty` the sizes 8 (a byte), 32 (the scaling of difficulties) and the limb
of the difficulty-1 target are constants too, so that the same formulas run on
words of 24 bits. A difficulty, a `double` in the code, is a multiple of half the
scaling's resolution, since only its scaled value's integer part is used; the
rounding of doubles near 2^53 is left out. In `MerkleTree` a hash of two nodes is the pair of
them, and `Node` is the tree by its definition, independent of the loops.
`Powers` has the powers of two as a recursive function, which the proofs can
reason about.

### Work, Wire

`Work` is `buildWork()`: extranonce2 from the counter, coinbase, root and
targets. The hash of a coinbase is the coinbase itself, so roots are equal
exactly if coinbases and branches are. `Wire` follows the bytes: the fields of
`mining.notify` are hexadecimal digits, whose decoding, word swaps and byte orders
give the header that is hashed, and `mining.submit` goes back. The pool's side
(`PoolNotify`, `PoolHeader`) is written from the Stratum protocol, not from the
miner's code. A `mining.notify` has its nine parameters and a branch of hashes; what
`parseNotify()` does with fewer, or with a branch that is not one (message.cpp:220-223,
247-259), is left out: it refuses them, as it does the malformed fields that `Decodes` has.

### Sha256, Statistics

`Sha256` has the buffer, its fill and the blocks that the compression function
gets, with bytes told apart by their places, so that a stale or a missing
byte shows. `Statistics` is a fold over recordings: since every recording and
reading holds the mutex, a run of the program is a sequence of them; but their
times come in any order, the clock being read before the mutex is taken.

### Json, JsonStrings, Configuration

`Json` has the recursive descent over tokens, with its depth counter, `set()`,
and `dump()`. `Meaning` gives the
value of a tree from the tree alone. `JsonStrings` has the strings character by
character: `JsonEscape` writes them, and `ParseString` reads them, one `Turn` of its
loop after the other. `Configuration` has
`applyPartialJson()` with the conversions of each kind of field.

### Algorithms (and MCAlgorithms)

`Algorithms` chooses one input per behaviour for all of these but `Json`, and
states the properties as invariants of that choice. The inputs are the constant
`Subjects`. `Allowed` is all that is assumed of them: limbs below their base, a
difficulty of a share below 2^64 (beyond it the cast in difficulty.cpp:109 is
undefined), a tree with a leaf at least, jobs and blocks of bytes, a patch whose
number of threads fits an `int`. `MCAlgorithms` gives `Subjects` a value for TLC, all
of which are `Allowed` as TLC evaluates the assumption, and adds the texts of `Json`.

## 4. What the runs show

With two TLC workers the runs take between a few seconds and about two and a half minutes.

| Run | Instance | Shows |
|---|---|---|
| `ClientShares` | two interchangeable shares, two sessions, one unread message, which may be a job, a new extranonce, or a difficulty that is to be ignored | no share in two places or counted twice; accepted only if credited; the client implements `ShareLedger`. `stop()` is left out by the constraint `NeverStopped` - it only ever removes behaviour from a share's path, and `ClientSession` has it |
| `ClientSession` | no shares, all pushed messages, two difficulties, three connections that fail, are refused, authorized or dropped, delays 2, 4 and 5, `stop()` and `start()` anywhere | the invariants of the session: job and extranonce of this session; a job is worked at the difficulty in force when it came or at one announced since, never at an older one or another session's; descriptors; quiet after `stop()`; each wait follows from the number of attempts since the last authorized one |
| `ClientLive` | one share, two sessions, jobs and requests to reconnect, `stop()` and `start()` anywhere | `stop()` returns in spite of the lost wake-up, a session is followed by the next, a queued share leaves the queue |
| `LineBuffer` | lines of three bytes, reads of up to three, streams of seven | the lines of the stream, whatever the cuts; overflow only for an unfinished line |
| `Miner` | one caller, two CPU workers or one CUDA worker, three handles, three generations, three versions, one of them unworkable, two configurations, one of them incomplete | all of the controller's safety and liveness properties for calls one after the other |
| `Dashboard` | `main()` and the accept thread, one CPU worker per session, a client that asks for everything, again and again, in up to three units, hangs up, resets and does not read, and one that asks for a file; the signal and overlapping calls anywhere | whatever the requests, the process ends after the signal and leaves nothing at work; complete requests are answered; as long as no two calls of the controller overlap, nothing crashes and the configuration does not change under a live connection |
| `Kernel` | four threads, all sets of winners over a nonce space of five that wraps in the launch | reported nonce wins, and one is reported if there is one; the claim protocol |
| `Scan` | eight nonces, all sets of winners, chunks of five and launches of two that do not divide the range or each other, start in the middle, CPU and GPU | no nonce submitted twice; counts equal what is hashed (GPU: at least); at most one nonce (GPU: one launch) left out per share; the scan ends |
| `Algorithms` | 24-bit numbers: limbs of 6 bits from {0, 1, 32, 63} in every combination, every shift, every nBits up to exponent 20 with bytes of 2 bits, difficulties from the least up, around the change of the numerator and at the top; trees of up to 17 leaves; messages in three parts over blocks of 6 bytes with a length of 2; four recordings with clocks 0..6, windows of 1 and 3, samples kept for 4; counters of two bytes for extranonces of up to three; every word, nonce and extranonce2 of two bytes; all JSON trees of two levels and a third around one part, all texts of up to five tokens, strings of three characters; every pair of edits of a configuration | the exact functions against their definitions: integers, targets, blocks, trees, windows, distinct work, the pool's header, JSON, edits |
| `ClientStaleWork`, `ClientBuffer`, `MinerConfig` | as small as shows it | a statement of the code's own documents that the code does not keep, section 7 |

Why the bounds are enough. A share can be confused with one other share, a
session with one other session: ids, extranonces and descriptors are compared
for equality only, and two of each, with a third state "none", reach every
outcome of those comparisons. One unread message suffices for arrival before,
between and after any two steps of the client, since a message is consumed before
the next is put there; two arrivals in a row are two steps. Three generations
cover a worker that holds the one before, a reset by `start()`, and a collision
with the number it holds. In `LineBuffer` the limit, the read size and the stream
are chosen so that reads end inside lines, on their newline and after it, and hold
several lines. In `ClientSession` a job can come before, between and after two
difficulties, and three connections reach the longest delay, which is not a power of two
times the initial one, and let an authorized one come before, between and after others.
In `Scan` the nonce space wraps, chunks and launches leave
remainders, and the count space is more than twice the nonce space, as 2^64 is.
In `Algorithms` the limbs {0, 1, 32, 63} are those at which a carry, a borrow or a
highest bit appears or passes on, also through two limbs in a row; the difficulties
cross the point where the scaled value stops fitting into a limb; trees of up
to 17 leaves have levels of odd size at every height; the parts of a message meet
every filling of the buffer, with and without a whole block behind it; four
recordings have two samples that pruning or a session may part from the
others; extranonces are shorter than, as long as and longer than the counter; and
with a depth limit of 2 the JSON trees stand below it, at it and above it, with
containers side by side.
In `Dashboard` one client does all the harm: a second one that does it too would only
meet a thread that serves one connection at a time. `Hasty` names it, and
the plain client is the one that must be answered all the same. The pool gives one job,
and is heard once in a session, with a job or with its loss. Overlapping calls multiply the states; the constraint `FewOverlaps` follows
them only for the busy client and as long as the pool is silent. For the temporal
properties this loses nothing, as each of them holds of a behaviour from its first
overlap on; `ExitIsClean` is proved without the constraint (`ExitCorrect`). A body of
two units is longer than `MaxRequest`, one of one unit is not.

Deadlock is checked in every run: the client and the controller can always be
called again, and the end of a launch or of a scan is a stuttering action of its
own.

Some limits deserve notice. `StoppedIsClean` excepts a miner with a failed CUDA
worker's handle: after such a failure `stop()` takes its early return and joins nothing, and a `start()` refused for
want of a configuration shows `Stopped` over a live connection. `CountedIsHashed` asks
of the GPU only that it counts no less than it hashed: launches are counted
whole. `ScanIsComplete` asks of the GPU that no more is left out than a launch for each
share found, since a launch reports one winner and the threads that see it hash no more;
that every winner tried is submitted holds of the CPU only. `StoppedIsQuiet` says nothing
of `outbound_` and `pendingSubmits_`, which `stop()` leaves as they are until the next
session clears them. `ShutdownEnds` and `RequestsAnswered` except calls that overlap and a
client that holds the accept thread for ever, and `SerialCallsAreSafe` says by its
name what it excepts; section 7 tells what happens then. `StatisticsAreExact` speaks of
readers whose clock is not behind a worker's by more than the ten seconds that
samples are kept beyond the longest window. `EditsAreLocal` takes numbers that fit
an `int`. `TypeOK` of `LineBuffer`, `NonceScan`, `MineKernel` and
`MinerController`, and `ServerTypeOK`, are left to the proofs; they hold on the same instances, but
no run of `PROJECT.json` repeats that: all five are theorems.

## 5. Fairness

- `StratumClient`: weak fairness of the connection thread as a whole, whose
  blocking calls return in the end (`connect()` and `select()` by the system's
  and the code's time-outs, `wait_for()` by its delay), and of the steps of a
  `stop()` once begun. None for the pool, the workers, the network, or for
  anyone to call `start()` or `stop()`. A worker inside `submitShare()` is not
  waited for either, except by what the properties say of a share already queued.
- `MinerController`: weak fairness of a call once begun, and of
  each worker: hashing a chunk and sleeping end. None for the callbacks, nor for
  anyone to call.
- `ApiServer`: weak fairness of the main thread, of the accept thread and of each
  worker, where they are not blocked. None for the clients, the callbacks or the signal:
  what is promised begins when it has come.
- `NonceScan`: weak fairness of the loop.

That a thread runs on is the scheduler's guarantee; nothing here relies on strong
fairness or on a peer.

Because attempts are bounded in the model, `Reconnects` and
`QueuedShareLeaves` except the state in which the next attempt would
exceed `MaxSession`.

## 6. What is proved

Every theorem is for all values of the module's constants, under the named
`ASSUME`s of the module: types of the bounds, and what the code fixes
(`0 < InitialDelay <= MaxDelay`; a read is no longer than a longest line; the
counter's words are at least twice as large as the nonces'). The bounds that
keep the runs finite are constants too, so nothing depends on their size.
With one exception, `TextsAreRead`, every safety property that a passing run checks
is a theorem as well, and so is the type invariant of every module that states one.

### The client (`StratumClientProofs`)

- `TypeCorrect`: `Spec => []TypeOK`.
- `CustodyCorrect`, `CountedCorrect`, `AcceptedCorrect`: `SharesInCustody`,
  `CountedAtMostOnce` and `AcceptedOnlyByThePool` always hold.

`CountedAtMostOnce` is not inductive: nothing in it forbids a share that has a
verdict from being in the queue as well. The inductive invariant is `CustodyInv`,
the conjunction of the three, and `SharesInCustody` is the part that carries
the argument. A share not yet returned by `submitShare()` is nowhere; a queued
one has no verdict and no entry; entries are unique by id and by share;
ids in use were handed out, so the next is fresh; and what the pool and
the wire hold under an id agrees with the entry under it. A verdict is appended
only on removing the entry (`HandleSubmitReply`) or on refusal before any entry
exists (`SubmitTests`), hence once; and with the accepted answer goes
a credited share. The steps that leave the share variables alone are dispatched
together (`QuietSteps`), those that drop things by `DroppingKeepsCustody`.

- `JobCorrect`, `DifficultyCorrect`, `DescriptorsCorrect`, `StoppedCorrect`,
  `BackOffCorrect`: the five invariants of the session; the second and the last are of
  `ClientHistory`'s specification `HSpec`, and its steps are the client's own with a
  record beside them (`RecordsOnly`), so that what holds of `Spec` holds of it. The
  inductive invariant is `SessionInv`. To the properties it adds where the
  extranonce can come from (the session or nothing), that `sock` is the current
  session's descriptor and held only where the thread is connected, that every
  other descriptor was closed exactly once, and that a link that is up
  belongs to the descriptor held. `DescriptorsClosedOnce` follows by counting:
  whoever exchanges `socket_` closes it, and it is held once.
  `DifficultyCorrect` needs that the client's `difficulty` is the one announced
  (`RatesInv`), also before there is a job and after a reconnect; a job exists only with
  an extranonce, so that one cannot be left from before the handshake (`JobInv`).
  `BackOffCorrect` rests on `BackOffInv`, which says at each place of the thread which
  attempt the delay belongs to: at the top of the loop the next one, after it this one, except
  in a session that was authorized, which counts as the first and whose delay is still to be
  reset. `WaitsDouble` is the step of the closed form, from the lemmas about powers of two.
- `LedgerKept`: `Spec => KeepsLedger`, the refinement of `ShareLedger`, step
  by step. The status of a share is a CASE whose arms exclude each other only
  because of `SharesInCustody`, so `CustodyInv` is needed before and after each
  step, and `SessionInv` for the steps that close a connection. `WireInv` is the
  one thing that must be added: a submission the pool still holds is of a
  share that is out or judged, since a connection's end takes the pool's view with it;
  without it `PoolReplies` could credit a share that the ledger has as lost.

### The controller (`MinerControllerProofs`)

- `TypeCorrect`: the types hold also when calls overlap.
- `NoHashingCorrect`, `StoppedCorrect`, `ChunksCorrect`, `PoolCorrect`:
  `NoHashingAtRest`, `StoppedIsClean`, `ChunksOnCurrentJob` and
  `PoolOutlivesSubmit` under `Spec /\ []OneCallAtATime`.
- `SingleCallerCorrect`: with one calling thread they hold of `Spec` as it is.
- `ConfigFrozenCorrect`: the configuration does not change under a live client,
  under `Spec /\ []OneCallAtATime /\ []NoFailure`; `ConfigFrozenOnCpu` derives
  `NoFailure` for a build without CUDA.

`OneCallAtATime` says that no call of `start()`, `stop()` or `updateConfig()`
begins during another one. It is a hypothesis because the code has no lock that
would ensure it, and without it the properties are false (section 7). Every behaviour
with a single caller satisfies it (`SingleCallerCorrect`). `NoFailure`
says that no worker fails; only the CUDA worker can, and when it does, the
run `MinerConfig` shows the configuration change under a live connection.

The inductive invariant is `ControllerInv`: `PlaceInv` says what a caller relies on
at each place of its call (all workers gone from the join to the next spawn,
which client there is), `RestInv` what holds between two calls, `WorkerInv` that
the handles are the threads', and `SnapshotInv` that a worker's snapshot with the
current generation is of the current version. The last is what makes the reset
of the generation by `start()` harmless: it happens where `PlaceInv` has no worker
left that could hold the number.

### The process (`ApiServerProofs`)

- `ControllerTypes`, `ServerTypes`: all types, whatever the clients do.
- `ExitCorrect`: `ExitIsClean`, with no hypothesis: also if calls overlap and
  workers fail. `StepKinds` shows that a step of the process is one of the
  controller's, an `AnswerKills`, or the end of `main()`; the inductive
  invariant `ProcessInv` says how far `main()` has got with the server
  (`ListenInv`), where its threads can be inside the controller (`CallerInv`) and
  what its last `stop()` has left (`EndInv`). By the time of the destructor the
  accept thread is gone, so that a `start()` of the dashboard cannot come behind it.
- `SerialCorrect`: `SerialCallsAreSafe` under `SpecAll /\ []NoFailure`.
  Here "one call at a time" is no hypothesis: the property excepts
  what comes after an overlap, and `StaysSerial` shows that without one
  `OneCallAtATime` holds, from where the invariants of `MinerController` hold.
- `SerialCorrectOnCpu`: the same of `SpecAll` alone, for a build without CUDA, which
  is the one that the run `Dashboard` has.

### The scan (`NonceScanProofs`) and the kernel (`MineKernelProofs`)

- `TypeCorrect`, `SubmittedOnceCorrect`, `CountedCorrect`, `ScanCompleteCorrect`:
  the 64-bit counters never wrap, and `SubmittedOnce`, `CountedIsHashed`
  and `ScanIsComplete` hold, on both backends. The inductive
  invariant `ScanInv` lays the nonces out as a ring from `StartNonce`. The scan is
  at a place `p` with `p + remaining <= NonceSpace`, nothing beyond `p` was
  submitted (`Walk`), and on the CPU nothing beyond `p` and the hashes under way
  was hashed, and what is missing before it is one nonce for each find
  (`CpuWalk`). On the GPU the places left out (`Skipped`) and the steps by which
  `p + remaining` fell short of the range make at most a launch for each find
  (`GpuWalk`): `FewPlaces` counts what a find adds, from the nonces after the reported
  one that `remaining` loses and those before it that were not hashed. That the subtraction
  does not wrap (`NoBorrow`) is part of it: were `remaining` to wrap, the scan
  would go around the ring again.
- `TypeCorrect`, `ClaimCorrect` of the kernel: the claim protocol `ClaimInv` is
  inductive. It says which threads may be past the claim, that exactly one of them
  has the plain store to make, and whose nonce the result slot can hold when.
- `ReportCorrect`: a finished launch reports a winner of its own range. It needs
  `ClaimInv` because the slot starts at 0, and `atomicMin()` before the
  plain store leaves 0 there: only the store of the claiming thread, which comes
  before the launch ends, makes it a winner.
- `SearchCorrect`: a finished launch reports a share exactly if its range has one.
- `LaunchCorrect`: a finished launch hashed all of its range and found nothing, or
  reports a winner among the nonces it hashed. These are the two disjuncts of
  `GpuLaunches` in `NonceScan`.

### The line buffer (`LineBufferProofs`)

- `TypeCorrect`: the buffer is bounded by a longest line and one read, although
  `append()` refuses only what has no newline in it.
- `LinesCorrect`, `OverflowCorrect`: `LinesOfTheStream` and `OverflowIsDeserved`,
  for every stream and every way of cutting it. The inductive invariant
  `BufferInv` adds to `LinesOfTheStream` that what is behind a newline came with
  the last `recv()` and is shorter than it (`LengthInv`): without it the rest that
  is left when the last line has been taken might already be too long.
  The lemmas `PartOfRest`, `RestExtends` and `PartKept` say how parts of a stream
  and of its rest correspond.

### The arithmetic (`ArithmeticProofs`)

Theorems about `UInt256` and `Difficulty` for every size of limbs, bytes and
words. The algorithms are loops, and the library's induction theorems cannot be
instantiated with an operator. So induction is done on sets of numbers:
`LeastOf` takes the least number from the well-foundedness of the naturals (`WFMin`),
`Induction` says that a set with 0 that is closed under successor is all
of `Nat`, and `Recursion` and `RecursionUpTo`, that a recursion has a solution. From
these come the powers of two (`Pow2Def`, `Pow2Sum`), division by digits (`DivModIs`,
`DigitsOrder`), and one lemma per loop: what the loop maintains, by induction on
its turns. `DivideExact` is the one of the long division: after n turns the
remainder is below the divisor, and the quotient so far and the remainder make
the n highest bits of the dividend (`DividedStep`). Above them are `SumsExact`, `ShiftsExact`, `QuotientsExact`;
`DecodesExact`, `EncodesTight` and `RoundTripsExact` of compact targets; and
`HarderSmaller` and `RankingExact` of share difficulties.

### The algorithms (`AlgorithmProofs`)

Each theorem is `Spec => []P` for a property `P` of the run `Algorithms`, for every
set of allowed inputs.

- `NumbersCorrect`, `TargetsCorrect`: from the lemmas of `ArithmeticProofs`.
- `EditsCorrect`: a field that is written out is read back as it was (`ReadsBack`), for every
  configuration that can come about (`PatchedIs`).
- `WorkCorrect`: two counters give the same root exactly if they agree in the bytes
  that extranonce2 has (`ExtranoncesDecide`); `BytesDecide` is the induction over the
  bytes, and `RootsDiffer` carries a difference of coinbases up the branch.
- `PoolCorrect`: hexadecimal digits, word swaps and byte orders each undo what they
  are paired with, so that the pool's header is the miner's.
- `HashesCorrect`: padding and trees. The context `Holds` a text if its blocks and
  the filled part of its buffer are that text's bytes in order; `update()`
  keeps that (`BufferGrows`, `BufferMoves`, `UpdateKeeps`), whatever the buffer
  has left over from earlier blocks, and `finalize()` adds the standard padding
  in both of its branches (`FinalizeKeeps`). A text whose length is a multiple
  of the block is determined by its blocks (`BlocksAre`), hence `PaddingSound`.
  `TreeSound`: each level that the loop makes (`LevelsIs`) is that of the tree by its
  definition, up to the root, which further turns leave alone; and folding the branch
  into the first leaf gives the leftmost node of every level.
- `StatisticsCorrect`: `Keeping` is what holds after each recording. The samples are in
  one-to-one correspondence with recordings since the session changed
  (`SamplesAre`), and a counted recording without a sample is older, by more
  than is kept, than some other one. That is why pruning only up to the first
  sample to keep, with clocks in any order, loses nothing a reader in time is due.
  Sums over finite sets come from `SumTakes` and `SumAdds`: a sum takes its elements
  in any order.
- `StringsSound`: every string that `jsonEscape()` writes, `parseString()` reads as it
  was and to its closing quote, whatever it holds. An escape is read in one
  turn (`TurnReads`), and the pieces of the text stand one behind the other
  (`PiecesAre`).

### Only model-checked

- All liveness: out of the prover's reach, as is ENABLED.
- `TextsAreRead`: `Json` declares RECURSIVE operators, as a recursive descent over
  nested values does, and neither it nor `MCAlgorithms`, which extends it, may hold
  theorems. What is proved of it is the part about strings (`StringsSound`).
- Nothing is claimed of `ConfigFrozenWhileConnected` and `SerialCallsAreSafe` in a
  build with CUDA whose worker fails: both are false then (section 7), the first as
  the run `MinerConfig` shows.

## 7. Where the code and its documents disagree

Shown by a run:

- `ClientStaleWork`: "Nothing survives a reconnect: stale jobs are worthless and
  stale extranonces are dangerous" (client.cpp:210-211). A worker past the test of
  `state_` queues a share of the old session after the reset; it goes out with
  the old job id on the new connection.
- `ClientBuffer`: `clear()` does not reset `overflowed_`. After one oversized
  message every later connection is dropped at its first bytes.
- `MinerConfig`: `updateConfig()` is "refused while mining is running so the
  pool credentials cannot change under a live connection" (miner.hpp:69-70), but a CUDA
  error clears `running_` and leaves the connection up.

Followed by the models without a run of their own:

- `MiningJob::difficulty` is the "share difficulty in force when this job was received"
  (work.hpp:44), but `onDifficulty()` (miner.cpp:289-295) writes a later
  `mining.set_difficulty` into the job at hand, and the workers go on with it at the new
  difficulty. `JobAtAnnouncedDifficulty` says what does hold: the job's difficulty is
  the one in force when it was received or one announced since. That it is always the first of
  the two is false, as soon as a `mining.set_difficulty` follows a `mining.notify`.
- The kernel's "Keep the lowest winning nonce so results are deterministic"
  (cuda_backend.cu:207): the plain store of line 209 can overwrite a lower nonce,
  or `atomicMin()` runs against the initial 0. What is reported is a winner
  (`ReportsWinner`), not the lowest.
- Two overlapping calls of the controller can destroy the client twice, join a
  worker twice, or find a null `pool_`. A `start()` during the join of a `stop()`
  clears `stopFlag_` and sets `running_` again, so that the workers go on and the
  `stop()` does not return before another one comes (`miner.cpp:209-210`, `:249`).
- After a CUDA worker has failed, `running_` is false though the client is up and the
  worker's thread is still to be joined. `updateConfig()` accepts a new configuration
  under the live client, and `stop()` takes its early return (miner.cpp:236-244) and
  joins nothing, so that the destructor of the controller finds a joinable thread in
  `workers_` and ends the process by `std::terminate()`.
- `server.hpp:43` speaks of a "thread-per-connection loop"; connections are served
  one after the other on the accept thread (server.cpp:255-275), without a time limit, so
  that one silent client holds up all others, and `ApiServer::stop()` with them.
- The answer to a client that has reset its connection may end the process by SIGPIPE
  (server.cpp:352), while the miner runs.
- The hash rate divides the hashes in a window by the time since its oldest sample
  (stats.cpp:73-75), but the hashes of that sample were made before it was
  recorded: the first rates are too high, by one sample.
- A `cpuThreads` of 2^31 or more passes the test for negative numbers and is cast to
  `int` afterwards (config.cpp:51), where it may become negative: no workers.
- Surrogate pairs "are passed through as replacement characters" (json.cpp:143-144);
  each half is encoded by itself, in three bytes.
- A pool that refuses subscribe or authorize is kept connected in state Error,
  though "any failure drops back to a reconnect" (client.hpp:54-55).
- A share that was queued or sent when the connection ends is in no counter,
  while `submitShare()` returned true; client.hpp:91-93 speaks of shares counted
  as stale. The ledger calls it *lost*.
- Workers still hash, and may begin a chunk, in state Stopping; "no worker thread
  hashes anything unless state is Running" (miner.hpp:46).
- A launch counts its whole size, though hashes are said to be "measured, never
  estimated" (backend.hpp:31-32).
- `targetFromShareDifficulty()` is described with `round(difficulty * 2^32)`
  (difficulty.cpp:94) and truncates; the model follows the code.

## 8. Not modelled

- SHA-256's rounds, logging, and the layout of JSON: fixed data flow or formatting.
  Hashing appears as an arbitrary set of winning nonces, or as the sequence of
  blocks that are compressed.
- JSON numbers and literals, which `strtod()` and comparisons read: they
  are one token. White space between tokens.
- The dashboard, build scripts, tests and mock pool: read as statements of
  intent.
- Device set-up, memory and telemetry of the GPU, and the stub's constants: calls of
  the CUDA runtime without a state of the program's own besides "ready".
- The command line, `--devices` and the self-test, which end before any thread starts;
  the JSON views of the controller and the statistics; counters that are only
  counted up; the contents of HTTP answers and of files.
- A failure of `accept()` that lasts, and socket calls interrupted by the signal
  handler.
- Doubles made for display, and the cast of a difficulty of 2^64 or more to
  `uint64_t`, whose result the language leaves undefined.
- The memory order of the program's atomics is taken as sequentially consistent,
  which is what `std::atomic` gives by default; the kernel's unsynchronised read
  and its plain store are modelled as such.
