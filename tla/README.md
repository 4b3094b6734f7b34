# A verification project for the VATGER EuroScope plugin

The plugin is a DLL that EuroScope loads. It has little code and many threads:
EuroScope's main thread runs the command and runway handlers, a
`BackgroundExecutor` owns a worker thread, each logger owns one, and every
authentication flow starts one that polls a service. What is hard here is
not arithmetic but order: state read outside a lock, wake-ups, flags set while
somebody is about to act on them, objects destroyed under their threads,
services that fail, stay silent or answer garbage.

This directory holds TLA+ models of that code, the TLC runs that check them
on small instances, and TLAPS proofs of every safety property the runs check, for
all values of the parameters. `PROJECT.json` is the index: components, runs,
mutants, the map from definitions to source lines, findings, hazards, theorems.

## Inventory

| Component | State | Operations | Interacts with | Correct means |
|---|---|---|---|---|
| `BackgroundExecutor` (`core/BackGroundExecuter.h`) | priority queue by due time, registry of cancel flags, id counter, stop flag, worker | `post`, `postAfter`, `postEvery`, `cancel`, worker loop, destructor | any thread calls it, tasks call it back; logger for exceptions | no lost wake-up, every due task runs, fixed rate, `cancel` true and final, registry exact, destructor returns |
| Loggers (`log/`) | queue, running flag, two condition variables, worker | `log`, `processLogs`, destructor; `emitLog` of the derived class | any thread logs | in order, once, none lost, destructor returns and leaves nothing behind |
| `AuthService` (`auth/`) | token, start DTO, polling thread | commands `status` and `start`, `pollToken` | main thread, polling threads, `CurlRestClient`, registry through `ISystem` | one poller, only tokens the service stands for, handlers that return |
| `SilentRequestModule` (`module/sr/`) | airports, map of requests, one mutex each | `OnActiveAirportsChange`, `update` every 5 s, `init`, destructor | main thread, executor's worker, `CurlRestClient` | what is published belongs to the active airports; main thread gets its turn between rounds |
| `VatgerPlugin` (`Plugin.cpp`, `main.cpp`) | modules, command table, tag item table | construction, registration (first one wins), dispatch, runway activity, exit, destruction | EuroScope, all modules | each command reaches its module; members outlive the threads that use them; unloading ends |
| `CurlRestClient` (`api/`) | one curl handle and one mutex per verb | `get`, `post`, `put`, `patch`, `del`, constructor, destructor | all callers share it | requests of one verb do not mix, nor a request with what an earlier one left in the handle; calls end (only GET and DELETE have a timeout) |
| `ConfigLoader` (`config/`) | error line and message | `parse`, `parseColor` | nothing yet | names the first bad line of the file; last entry of a key wins |
| `utils/`, `system/`, `types/` | none | string and date functions, registry access, file access | the above | results as documented |

The behaviours that are hard to test, with the line where each bites, are
listed under `hazards` in `PROJECT.json`.

## Modules

| Module | Models | Checked by | Proofs |
|---|---|---|---|
| `TaskLifecycle` | what `core/IBackGroundExecuter.h` promises | refined by `BackgroundExecutor`, a part of `Plugin` | the refinement |
| `BackgroundExecutor` | `core/BackGroundExecuter.h` | `MCBackgroundExecutor` (4 runs) | `BackgroundExecutorProofs`, `BackgroundExecutorRefinement` |
| `LogChannel` | what a logger owes those who log | refined by `AsyncLogger`, a part of `Plugin` | the refinement |
| `AsyncLogger` | `log/LoggerAsyncBase.h` and the two loggers | `MCAsyncLogger` (2 runs) | `AsyncLoggerProofs` |
| `AuthService` | `auth/AuthService.cpp`, device token, POST lock | `MCAuthService` (2 runs) | `AuthServiceProofs` |
| `SilentRequests` | `module/sr/`, `OnAirportRunwayActivityChanged`, `FindIcao` | with `UpdateRounds` | `SilentRequestsProofs` |
| `UpdateRounds` | `SilentRequests` on the executor's clock | `MCSilentRequests` (1 run) | |
| `RestClient` | `api/CurlRestClient.cpp` | `MCRestClient` (1 run) | `RestClientProofs` |
| `Plugin` | `Plugin.cpp`, `main.cpp`; composes `AuthService`, `SilentRequests`, `TaskLifecycle`, `LogChannel` | `MCPlugin` (1 run) | `PluginProofs` |
| `ConfigLoader`, `StringUtils` | `config/`, `SplitString` and `Trim` of `utils/String.h` | `MCConfigLoader` (1 run) | `ConfigLoaderProofs` |

### BackgroundExecutor

A critical section under `m_mutex` is one action, and everything done outside
of it is a step of its own: reading the clock and computing the due time
(`ScheduleAt`), taking the id (`AllocateId`), `notify_all` (`Notify`), loading
the cancelled flag (`CheckCancelled`, `CheckReschedule`), reading the stop flag
(`CheckPeriodic`), calling `fn` (`StartTask`). `wpc` is the worker's place in
`run()`, `cpc[c]` the place of thread `c` in a call, `dpc` that of the
destructor. The worker is itself a caller while a task runs, so tasks that post
and cancel are included. The queue is a set: `top()` is any of the earliest
elements. An exception in `fn` is `FinishTask` like a return, since both catch
clauses only log. `Tick` advances the clock. Spurious wake-ups are modelled
where the code has no predicate (`wait_until`, line 119).

`m_canceledTasks` is split into its keys (`registry`) and the flags that are
set (`cancelled`). `posted`, `runs` and `lateRuns` are history.

`TaskLifecycle` is what users of the executor may rely on: a task is unknown,
pending, chosen, running, ended or over; only a cancelled task or a stopping
executor gives one up; a cancelled one is not chosen; one runs at a time; none
when the destructor has returned. `Lifecycle` is the refinement mapping: where
a task is (queue, worker's hands, which step) determines its stage. "Chosen" is
the gap between loading the flag and calling `fn`, in which `cancel()` comes
too late.

### AsyncLogger

`life` follows the object from before the initialisation of `m_running_`
(the worker thread is declared, and so starts, before that member) through the
derived destructor and `~LoggerAsyncBase` to the join. `wpc` is the worker's
place in `processLogs`. The two unlocked reads of the loop condition are two
steps. A message is its place in the order of the pushes. `EmitCrashes` is the
pure virtual call once the base destructor has begun, or a use of the SQLite
handle after `sqlite3_close_v2`.

`LogChannel` is the logger as its users see it: messages accepted, handed on in
order, a channel that is sealed, then closed empty or broken. The mapping
forgets queue, flags, condition variables and the stages of destruction.

### AuthService

`mpc` is the main thread's place in a command, `ppc[f]` the place of the
polling thread of flow `f` in `pollToken`. Between any two accesses to the
shared members the other threads may act. `Spawn`, `AssignThread` and
`JoinThread` are the three parts of line 48: the temporary `jthread` runs,
the move assignment asks the old thread to stop, and joins it. `PostFree` is the mutex
that `CurlRestClient::post` holds until the service answers; whoever is in a
POST holds it. Replies are free: refused, malformed, pending, ready, active,
rejected. A malformed poll reply ends the process, because the exception
leaves a `jthread`; one in a command handler reaches EuroScope, which
survives or not. `DataRace` is the other outcome of two unsynchronised
accesses: the process is corrupted and nothing more is claimed. `init` and the
destructor are in `Plugin`.

### SilentRequests

`RunwayActivityChanged` computes the list of active airports from the sector
file (`FindIcao` over words, duplicates dropped), `OnActiveAirportsChange`
takes the lock and stores it. A round of `update()` is `LockAirports`, one reply
per airport (requests, failure, or a malformed body that ends the round
by an exception), and `Publish`; the airports' lock is held while `wpc = "ask"`.
A request is a callsign and the airport whose reply held it. `init` and the
destructor are in `Plugin`.

`UpdateRounds` adds the time left until the next round (`left`), because whether the
main thread ever gets `airports_mutex_` depends on it. The executor is fixed-rate:
a round that takes longer than its period is followed by the next at once, and
a `std::mutex` owes a waiter nothing when its owner takes it again. Only a round that
ends before the next is due leaves a pause (`Pause`). A GET takes up to 2 s. While the
main thread waits for the mutex it makes no GET of its own, so `update()` does not
wait for the handle; at other times it may, for any time.

### RestClient

One action per step of a call: `Begin`, `Lock`, `Uninitialized` (a null handle),
`Configure` (every `curl_easy_setopt`), `Answered` or `Failed`, the unlock included. The
five methods differ in three ways, and share the rest: which handle
and lock they use, whether they set a body, whether their handle has a timeout. A handle
remembers pointers; a pointer is the number of the call whose argument or local
it is, so that a pointer left over from an earlier call can be told from one's own.

### Plugin

The main thread's life in steps (`mainPc`): construction in the constructor's order, from
the logger, callbacks, `EuroScopePlugInExit`, then the destructors member by member in the reverse of
declaration order, bodies first, to `m_logger`, whose destructor waits until every line is
written. The threads go on in between. The
parts are instances of their own modules, their actions conjoined with what
the plugin adds: a step of `update()` or of a polling thread that uses a
member already destroyed is a `fault`: the process ends, or carries on
touched. The executor is `TaskLifecycle` for one task, which the
refinement entitles it to be, and the logger `LogChannel`, for the same reason. `OnCompileCommand`
takes a line that starts with one of the prefixes and looks the module up in the
table that construction filled; a line that reaches no module changes nothing.

### ConfigLoader, StringUtils

Sequential code, on strings as sequences of characters. `ConfigLoader` has one
action per outcome of a turn of `parse`'s loop, built from `StringUtils`' split
and trim, and may be called again with the same or a new `PluginConfig`. Its
properties define the format by the positions of signs and spaces instead,
so they also check the helpers. `parseColor` has no caller and is left out.

## Runs

| Run | Question | Bounds and why they are enough |
|---|---|---|
| `executor` | safety of the executor | two callers besides the worker (so that two calls and the worker overlap), two tasks (one in the queue while one is in hand), clock to 3, delay 2, period 1 (due now, later, and overdue by more than a period); callers are symmetric |
| `executor_live` | due tasks run, destructor returns | one caller and the worker, two tasks, clock to 2 |
| `executor_cancel` | does `cancel` keep a task from starting? **No** | as `executor` |
| `executor_zero_period` | does a posted task run beside a period of 0? **No** | one instant is enough; ties broken fairly, so only the zero period is to blame |
| `logger` | safety and liveness of a logger, construction and destruction included | three producers, five messages: more than the worker can hold, with pushes at each of its steps; the SQLite variant, which has every behaviour of the console one |
| `logger_exit` | does the notified worker exit? **No** | one message |
| `auth` | safety of the flows, and handlers that return | three flows: one polled, one replacing it, one after that |
| `auth_parse_error` | does `ParseError` mean that parsing failed? **No** | two flows |
| `silent_requests` | what a round publishes, and that airports arrive | a sector of five entries: a duplicate, one without ICAO code, one with the name first, and three airports, so that a round may take more than its period; one callsign, which several airports may name; rounds up to three seconds behind, so that one that is late must catch up. (Without the condition `RoundsFit`, TLC finds rounds about three silent airports that keep the main thread waiting for ever.) |
| `config` | which line is blamed, what configuration is left | twelve kinds of line, files of up to two (an entry before or after anything), two parses (an error or an entry of the first seen in the second) |
| `rest` | whose request, whose answer, what leaks, who returns | two threads and three calls: two of one method at once, and one after another on the same handle; every set of null handles |
| `plugin` | who meets a destroyed member, what outlives what, does unloading end | two flows (one polled, one replacing it, either pending at the unload), a sector file of one airport, and no requests, since what is published does not matter here; two log lines (one written, one not, at the unload); unloading at every point of an update and of a poll |

The runs that are expected to fail each check one sentence of the code, its
tests or its comments, quoted under `findings`. Three deserve a fix most:
a message pending at the destruction of a logger ends the process; a malformed
poll reply ends EuroScope (a hazard, as nothing in the repository
promises otherwise); a silent service freezes EuroScope (a hazard too: a POST has
no timeout, the main thread takes part in POSTs, and `MainReturns` needs the service to
answer them).

`FaultIsKnown` of the `plugin` run holds, but read what it says: two ways of
unloading do touch members of the modules that are already destroyed. An `update()` under way when the module's
destructor cancels it goes on using the module's maps and mutexes until the executor joins, later;
and a thread that polls at that time waits on a condition
variable that is destroyed before the thread is stopped. The property is that there is
no third way, and the mutants show that it would be seen. It is not about the logger's own
worker, which may meet a destroyed logger (`logger_exit`); in `Plugin` that is the end of
the process (`logger = "broken"`).

`UnloadReturns` covers the way from `~SilentRequestModule` to the end of `~LoggerAsyncBase`, and has
two conditions. The service answers POSTs. And the logger's worker has written a line
before: one that was misled by the uninitialised `m_running_` (`OnlyStillbornStrands`) has
left, and the destructor waits for it for ever, with the line that the constructor logs.

Deadlock is checked in the executor's, the silent request and the rest runs. In the
config run it is not, since the calls are bounded; in the logger, auth and plugin
runs neither, because the process really may stop there: it crashes, the object
or the plugin is destroyed, or the destructor hangs on a stillborn worker.

Every property of a passing run has a mutant: a plausible slip in one
mapped definition, kept beside it as a "variant" in the module, under which TLC finds
the property violated.

## Fairness

- Executor: the clock advances, threads inside the code proceed, and `fn`
  returns. Nobody has to call or destroy it; spurious wake-ups are not
  counted on. The model's clock stops at its bound, which only removes
  behaviours after it.
- Logger: the worker, a producer inside `log()` and the owner inside the destructor
  proceed, and `emitLog` returns.
- Auth: threads proceed; a GET has a timeout of 2 s, so an introspection has a reply
  once it has the handle, for which the rounds of `update()` are taken to leave pauses. The POST lock is taken under strong
  fairness: between two POSTs of a polling thread lies the polling interval, so
  a waiter finds the lock free again and again. `MainReturns` adds that the service
  answers POSTs, which nothing in the code guarantees.
- Silent requests: the executor's worker proceeds, and a GET ends within 2 s. Strong
  fairness is asked for the main thread's lock in pauses only: a pause is a second long at
  least, in which the mutex is free and the worker asleep. `AirportsArrive` therefore
  speaks of rounds that fit into their period, that is, of at most two airports being
  replaced; what a run of silent airports beyond that does is listed as a hazard.
- Rest: threads inside a call proceed, and only the transfers with a timeout, GET and
  DELETE, are sure to end. A lock needs weak fairness only, since the calls of the run are
  finitely many: in the end nobody takes it from a waiter.
- Plugin: weak fairness throughout. The threads that unloading waits for proceed, a GET ends,
  the service answers POSTs, and a logger's worker that has written a line proceeds. The POST
  lock needs no more: by then the last polling thread has it to itself. Nobody has to unload.

## Proofs

`tlapm` checks all of them; there is no unproved step and no assumption besides
the modules' named `ASSUME`s: bounds are naturals, delays and periods are
naturals, the worker is no caller (`BackgroundExecutor`); an airport's name is a list of
words and an ICAO code a word (`SectorAssumption`); a line is a list of characters
(`FilesAssumption`); and `Plugin`'s constants meet the assumptions of the parts it
instantiates (`PartsAssumption`). `UpdateRounds`, about which nothing is proved, assumes that its bound
is a natural. Nothing is assumed about what a
service replies or when a thread runs.

*Induction over data.* The library's induction rules take an operator, which the
provers cannot instantiate. Where a proof is by induction over a list or a
string, it goes by the least counterexample instead: a set of naturals that is not empty
has a least element (`Least`, from the library's well-founded order on the naturals), so
it is enough to refute the least position at which a claim fails. That a recursive
function satisfies its equation at all is proved in the same way, by extending it one
argument at a time (`LoopIsDefined`, `CutsAreDefined`).

*Executor.* `TypeCorrect`, then each property from an inductive invariant that
strengthens it. Ids: everything queued, in hand or about to be inserted is below
`nextId` (`IdsFresh`), or a new id could meet an old one. Registry: the
property itself, together with the ids' invariant. Wake-ups: a call that has
changed the queue is in its notify step (`CallsAwake`). Late runs: a task
that has started late had its flag set, and is dropped when it is looked at
again. Rate: a queued periodic task is due at its first time plus its runs
times its period (`OnSchedule`), which also bounds the task in hand.
The refinement (`ExecutorKeepsPromise`) needs all but two of these and two more: what
is queued, in hand or registered was posted, and an id not taken yet was not
(`KnownInv`); the executor is gone only after its worker, and a periodic task
is erased only by an executor that stops (`EndInv`). Each step of the worker
then moves the task in its hands, and no other, from one stage to the next.

*Logger.* One invariant: what was handled, the message in hand and the queue are
consecutive numbers up to `logged` (`OrderInv`), and what each state of the
object's life implies for worker and queue (`LifeInv`). `InOrderOnce` follows
by the library's facts about concatenation. `LoggerIsChannel` follows step by
step; it also needs that nothing is logged before the constructor has returned,
so that a worker that starts early cannot crash.

*Auth.* `FlowInv` (the flow in hand is the last one opened, newer than
the thread held, and not told to stop), `ThreadInv` (which threads run, and
whose flow the start DTO is), `TokenInv` (a thread stores what the service
handed it; `m_token` is in doubt only while the main thread is finding out).

*Rest client.* A lock is held by the one thread that is past it in a call of its
method (`LockInv`), no two threads are in the same call (`CallInv`), and so the handle
of a transfer keeps the pointers of its own call until it ends
(`RequestInv`); the allocated header lists are counted one by one (`ListInv`).

*Silent requests.* The loop over the sector file yields a list of different
airports whatever the file holds (`ActiveAirportsType`), and every list the threads
hand on is one (`Lists`). The round's invariant says what `update()`'s local map is in mid-round:
to each callsign in the replies so far, the airport at the place of the first
reply that names it. `emplace` keeps it so, because adding a reply moves no first
place (`MinIsKept`); when the last airport has replied it is what is published.

*Configuration file.* `parse` cuts a line piece by piece; the properties speak of the
positions of its signs and spaces. `LinesAreRead` is the bridge, for lines of
any length: what is left between the first and the last character that is no space
is `Trim`'s result, also for a part of a line (`BareOfPart`); splitting yields one
piece without a sign, the two parts around a single one, and more than two otherwise
(`SplitOf`, over the pieces from each position on). With it the invariants are short: a file
being read has had no bad line (`ErrorInv`); a new entry overlays the ones before it
(`OverlaidMore`), for which `LastEntryWins` has to be strengthened: the url's key, which has
a member of its own, is never among `extra`'s keys (`EntryInv`).

*Plugin.* The two safety properties of the composition, from three parts. The worker is
inside `update()` exactly while the executor runs the task, and once `cancel()` was
called only an update that was under way then still is (`ExecutorInv`). Besides the
polling thread held only one about to be held runs; after the callbacks have ended no new
one comes, and after the last join none is left (`PollInv`). A fault happens only
during the unload, to one of these two (`FaultInv`). The logger comes in with its types
only: no line is written that was not logged (`LogStep`). The order of the
main thread's steps, a sequence in `Plugin`, enters the proofs as sets (`PastSteps`).

The parts' own theorems carry over to the composition through instances of their
proof modules. Every behaviour of the plugin is one of `SilentRequests`
(`SrImplements`), so `RoundsPublishAnswers` and `AirportsAskedOnce` hold inside it at once. It is not one of
`AuthService`, since the destructor joins a thread that `AuthService` alone never gives up;
so `AuthService`'s step lemmas are cited action by action: `OnlyOnePoller` holds from load to
unload, and what is promised of the start DTO and the token until the destructor
stops the polling thread (`AuthKeepsItsWord`). With the ranges of the host's own
variables (`HostTypes`) this gives `TypeCorrect`.

Every invariant and every safety property of a run has its theorem. Only
model-checked are the liveness properties (`DueTasksRun`, `LoggedIsHandled`, both
`DestructorReturns`, `MainReturns`, `AirportsArrive`, `TimedCallsReturn`, `UnloadReturns`),
because liveness under fairness is outside the prover's reach, and the runs that show
a violation.

## Not modelled

- Text: log formatting, SQL, URLs, JSON syntax, the characters of names.
- EuroScope, curl, SQLite, the Windows registry and loader: external; what they
  may answer is free where the code uses them. That a DLL's static destruction may be
  unable to join threads is the loader's doing.
- Tag items: no module registers one, and drawing one changes no state.
- A second `EuroScopePlugInInit`, which constructs the new plugin before it
  destroys the old one; EuroScope loads a plugin once per library.
- `Date`, `File`, `Agreement`, `parseColor`, `StringReplace`: library
  conversions, pure I/O or without callers. (`StringReplace` resumes its search by
  the length of the marker, so a shorter replacement skips markers, a longer
  one may be replaced again, and an empty marker never ends.)
- The order of equal due times. The executor model takes any of the earliest tasks.
  (With the usual `push_heap` and `pop_heap`, three tasks due at once leave the heap in the order
  of posting, which is what a test expects; four need not.)
- Time, but in the executor and in `UpdateRounds`: elsewhere a timeout is a reply that may
  fail, and what lasts long is what may wait.
- In `Plugin`, a logger beyond what `LogChannel` promises: `AsyncLogger` shows that its worker
  may be stillborn, and `UnloadReturns` excludes it by its condition.
- Outside `RestClient`, the lock that `update()` and an introspection share on the GET handle.
  Nobody holds it for more than 2 s; but a main thread that waits for it may meet rounds that
  follow each other at once, as above, so `MainReturns` takes for granted that rounds
  leave pauses. `UnloadReturns` does not: the main thread makes no GET any more.

Data races are explored as interleavings of their accesses, plus corruption in
`AuthService`; torn values that go unnoticed are not modelled. Other undefined
behaviour (a destroyed mutex or condition variable, a closed SQLite handle, a
pure virtual call) either ends the process or, where a build may get away with it,
goes on. `relaxed` atomics of the executor are treated as sequentially
consistent; each of them is a single flag or counter whose other uses are
under the mutex.

## Plan

1. **Core** (done): executor, logger, auth, silent requests; proofs of the first
   three; the configuration file.
2. **Abstract specifications** (done, checked and proved): `TaskLifecycle`, `LogChannel`.
3. **Rest client** (done, with proofs) and **Plugin** (done): construction, dispatch and
   destruction over the composed parts.
4. **Proofs** (done for all safety properties): executor, logger, auth, rest client,
   `Plugin` with its type invariant, `SilentRequests`, `ConfigLoader`. Left: that the
   real executor and logger, rather than `TaskLifecycle` and `LogChannel`, could stand in
   `Plugin`. This follows from the refinements but is not stated as a theorem of its own.
