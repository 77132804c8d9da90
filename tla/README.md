# A TLA+ development of nv-bmc-shmem

nv-bmc-shmem lets BMC services share telemetry through shared memory: a
*producer* (nsmd, pldmd, ...) publishes readings in one segment per metric
report it serves, and a *client* (bmcweb) reads the segments of all producers of
a report. This directory holds the TLA+ modules that model the library, the TLC
configurations that check them, and proofs that TLAPS checks. All paths below
are relative to the repository; line numbers are those of the modelled commit.

    tlc -workers 2 -config MCShmemMap.cfg MCShmemMap     # one run
    tlapm ShmemMapProofs.tla                             # one module of proofs

## 1. The system

| Component | Source | State | Operations |
|---|---|---|---|
| Shared map and its lock | `lib/managed_shmem.cpp`, `lib/shmem_map.cpp`, `lib/impl/shmem_map.hpp` | the segment's name, the name of its mutex, the mutex's two words, the map in the segment, each process's handles | construct and destroy (creator), open (reader), insert, update value / timestamp / both, erase, clear, read one, all values, all pairs |
| nv_shmem_tool | `tools/nv_shmem_tool.cpp` | none of its own | read, stat, perf, create, erase |
| ErrorLogger | `lib/error_logger.cpp` | a table of messages and when each was last logged | logError |
| Sensor aggregator | `lib/shm_sensor_aggregator.cpp`, `lib/impl/shm_sensormap_intf.hpp` | nameSpaceMap, notApplicableKeys, the open maps | updateSHMObject, updateNanValue, createShmemNamespace, parseDevicePath |
| AggregationService | `lib/telemetry_mrd_producer.cpp` | the static aggregator | namespaceInit, updateTelemetry |
| MRD client | `lib/telemetry_mrd_client.cpp` | two static lookups, a static cache of open maps | getAllMRDValues, getMrdNamespacesValues, getAllKeyValuePair |
| Configuration reader | `lib/config_json_reader.cpp` | two static JSON documents | load, producers, sizes, lookup |
| Metric report translation | `lib/utils/metric_report_utils.hpp`, `port_utils.hpp` | constant tables | values to strings, property names, URIs |
| Time formatting | `lib/utils/time_utils.hpp` | none | dates and durations, to and from text |

How they interact. `updateTelemetry` calls the aggregator, which asks the
translation for strings and calls `ShmSensorMapIntf`, which calls the map. The
map is shared with clients through the kernel's names only: a client opens the
segment and then the mutex, each by name, and never talks to the producer. The
aggregator's tables are shared by the threads of one producer under two mutexes,
each held for one access. The error table is shared by all threads of a process
without a lock. The static lookups, caches and documents live as long as their
process.

What is hard, and what each component must keep:

* **Shared map.** Names are unlinked and re-created while others have the objects
  mapped; the constructor takes seven steps visible to readers; the mutex lies in
  shared memory and outlives whoever holds it; a read gives up after one second,
  a write never does; an allocation may throw between the value and the timestamp.
  Mutual exclusion, a copy that is one moment of the map, nothing held by nobody,
  and calls that end.
* **Sensor aggregator.** Each call is a chain of critical sections and acts on
  copies it made in earlier ones; a list is several keys; the segment may be full
  at any of them. What a client sees can be updated later, a call that was
  answered true is visible, and a list leaves nothing behind.
* **AggregationService, configuration, client.** One namespace of several fails;
  files are bad and then good; producers restart, end or die while a client walks
  them. The answers of `namespaceInit` mean what they say, and a client loses no
  object that was there all along.
* **ErrorLogger.** Lookup and store race. The bound of the table, the interval.
* **Metric report.** Fifty branches make a URI of names and tables; the namespaces
  are walked in the order of a hash table; an update makes a text again knowing
  less than the insertion did. A sensor has one home in every order, two properties
  never share a URI, and a text does not tell which of the two functions made it.
* **Time.** Leap years, the epoch, the year 9999, zero parts, digits of two widths.

## 2. The modules

| Module | What it is |
|---|---|
| `ShmemMap` | one namespace: creators, their writer threads, readers, deaths |
| `MCShmemMap`, `MCShmemTool` | one producer; a producer and the tool, both creators |
| `AtomicMap` | what clients are promised of the maps: operations and reads at one moment |
| `ShmemMapProofs`, `ShmemMapRefinement` | theorems about `ShmemMap`; that it implements `AtomicMap` |
| `ErrorLogger`, `MCErrorLogger`, `ErrorLoggerProofs` | the error table |
| `SensorAggregator`, `MCSensorAggregator`, `SensorAggregatorProofs` | threads in `updateTelemetry` |
| `DevicePath` | `parseDevicePath`: the namespace, device and part that an object path stands for |
| `MetricTables`, `MetricReport`, `MCMetricReport` | URIs and texts of readings; the shipped configuration |
| `MetricReportProofs` | theorems about `DevicePath` and `MetricReport` |
| `MrdService`, `MCMrdService`, `MrdServiceProofs` | `namespaceInit`, the configuration, `getAllMRDValues` |
| `MrdDirectory` | what clients are promised of an answer: whole regions of one MRD, each as it was during the call |
| `Calendar`, `Duration`, `TimeUtils`, `MCTimeUtils` | dates, durations, both together |
| `CalendarProofs`, `TimeUtilsProofs` | theorems about dates; about durations |

The models are stacked by abstraction rather than instantiated in each other. In
`ShmemMap` a map entry is a value and a timestamp, and a step is one call into
Boost.Interprocess. `SensorAggregator` takes one locked operation of the map as
one step, which is what `ShmemMap` shows of it. `MrdService` takes one segment as
a set of objects, read or created in one step: a reader that meets a segment half
way through its constructor finds no map or an empty one, which contributes as
much to an answer as a segment that is absent. The definitions that begin with
"Slip" are plausible mistakes in the definition that follows them; nothing but
the mutation of that definition uses them.

### ShmemMap

A name is a number: the generation of the segment or mutex it denotes, 0 for
none. Unlinking sets the name to 0 and leaves `memory` and `memLock` of whoever
has the object mapped. The constructor with O_CREAT is `RemoveShm`,
`OpenOrCreateShm`, `RemoveLock`, `CreateLock` (with the `unlock()` that follows
it, and the exception of `create_only`), `FindOrConstructMap`, `ClearMap`; the
destructor is `DestroyMap`; a reader's is `OpenShm`, `OpenLock`, `FindMap`.
Boost's upgradable mutex has two gates: `EnterGate` sets its exclusive word,
`DrainSharers` waits until the sharers have left; `LockSharable` needs the first
gate open, `LockTimeout` gives up. A write is `BeginWrite`, the two gates,
`Apply`, for updateValueAndTimeStamp a second `ApplyTimestamp`, and
`UnlockExclusive`; `OutOfMemory` is a throw inside the lock. `VisitKey` copies
one entry; in a map that another thread is changing or that was destroyed the
copy may also be `Garbage`, since the behaviour is undefined. `CrashCreator` and
`CrashReader` are deaths anywhere: what was held stays held.

`committed` and `locksOf` are auxiliary: the map as the last finished operation
left it, and the mutexes made for each segment.

`AtomicMap` knows neither mutex nor handle: `Write` changes an entry of a map,
`Read` gives a client what one map holds, `Reset` begins a map again. It is
instantiated in `ShmemMap` (`Atomic`): its map is `committed` of the segments that
have one mutex (`AbsMap`), its view what a client has copied once its traversal is
at an end (`AbsView`). A segment that a second creator took over, with a mutex of
its own, is not a map any more: nothing is promised of it. The one thing `After`
allows that a reader of the header would not expect is a value without its
timestamp, which is what a full segment leaves of updateValueAndTimeStamp.

### SensorAggregator

`Lookup` is the critical section in `updateSHMObject` that copies the key's
fields; everything the call then does to a registered key is the sequence of map
operations `todo` computed from that copy (`ArrayOps`, `NanOps`), done one at a
time by `MapOp`, with the size of a list written back by `Return`. A new key goes
through `CheckApplicable`, `HandleObjectInsertion`, `Emplace` and `Resize`. The
candidates that `parseDevicePath` finds are the constant `Matches`: whether each
lists the property, needs the parent path, is a namespace of this producer. What
they are for a path is `DevicePath`. `Reporters`, `Shapes` and `Parents` are who
reports a key, with lists or values, with or without the path of the parent.
`MapOp` succeeds or fails as `ShmSensorMapIntf` does: unknown namespace, key not
there, segment full. The number of the call stands for value and timestamp.

### DevicePath, MetricTables, MetricReport

A name is a sequence of words, cut so that whatever the code searches for in it is
a word of its own; a path is a sequence of names, a URI a sequence of words.
`GetMatchCount` searches the keyword's words one behind the other, each from where
the one before was found (`Places`). `ParseDevicePath` walks the namespaces in a
given order (`VisitAll`), and each namespace's entries (`Visit`), and carries the
best count and the names of device and part from match to match, as the code's
variables do. Each loop is a function on an interval, the state after n turns. `FieldsOf` is the choice
`handleObjectInsertion` makes among the candidates. `Homes` is the reference it is
compared with: no order, no search, a keyword matches if its words occur in their
order.

`MetricTables` has every table of `metric_report_utils.hpp` and `port_utils.hpp`.
`Located` has a case per namespace, with the branches of each in an operator of its
own, and says where a property is found: a resource, which is a sequence of steps (a
name in a collection: `Chassis(device)`, `Sensor(...)`, `Port(n)`), and a leaf of it.
`GenerateURI` is the text of that place. `ValueText` is what a reading is shown as: a text says what it was made
from (`<<"duration of ns", "7">>`), not its digits. `Publish` is the first reading of
a sensor: the code's `getMetricValues`, which makes URI and text. `Refresh` is a
later one: `getMetricValue`, which is not told the namespace. The order of the table
is chosen at each `Publish`; a process has one order for its life, so this only
adds behaviours. `OneHome`, `LongKeywords`, `SameFacts`, `ListsHaveURI`, `PlainNames`,
`LeavesFit`, `InTheirNamespaces` and `PerLeaf` say what the code takes for granted of a
configuration and of the sensors; the theorems name the ones they need, and
`MCMetricReport` has TLC evaluate all eight for its configuration and sensors.
`InTheirNamespaces` names, for each namespace, the interfaces of which properties belong
in it (`Reported`): `generateURI` itself never compares the two.

`MCMetricReport` holds `configurations/shm_namespace_config.json`, with property
lists shortened to what the branches tell apart, and entries for the five
namespaces that `generateURI` knows and the shipped file does not have
(`Others`). The object paths are of the
shapes that the shipped keywords, the prefixes in `parseDevicePath` and the
repository's tests name; only the shipped part is data of the repository.

### MrdService

`NamespaceInit`, `LoadMapping`, `LoadNamespaces`, `CreateNamespace` (once per
namespace, in the order of a hash table) and `EndInit` are the call and its
returns; `Exit` is the static destruction of the aggregator, `Die` leaves the
segments. A loaded document is kept, a failed load leaves it null. "Loaded" is less than
usable: a mapping file that parses may lack "Namespaces" (`"nokey"`) or a size
(`Unsized`), a namespace file that parses may have an entry whose values are of the
wrong types (`"illtyped"`). `LoadNamespaces` is both tries of `namespaceInit`, one in
the other: `loadNamespaceConfig` keeps what it parsed (`NamespacesOf`), then
`getNameSpaceConfiguration` throws on an ill-typed entry, the call answers false, the
aggregator stays, and the next call finds the same document. `nsFile` is `"unreadable"`
when it is missing or does not parse, which leaves nothing behind.
`GetAllMRDValues` makes the static lookup on its first call; `ReadProducer` is one
turn of the loop, and it may always miss the lock. `due`, `missed` and `clean` are
auxiliary.

`MrdDirectory` knows no files, calls of `namespaceInit` or segments: producers `Offer`
objects in a region for each MRD and `Withdraw` regions; a reader `Ask`s, `Collect`s
from each producer of the MRD all that its region holds or nothing, and has its
`Answer`. It is instantiated in `MrdService` (`Directory`): a region is what the map in
a segment holds, and empty if there is no segment or no map in it (`Offered`), so that
creating, destroying and leaving behind a segment are withdrawals or nothing.
The directory says what an answer may hold, `NothingLost` what it must.

### ErrorLogger, Calendar, Duration

`logError` is cut into the clock and the call (`Call`), the lookup with its early
returns (`Find`) and the store (`Store`). `Calendar` walks day by day with a
calendar written from the rules for leap years, from one of two days whose date is
known (`KnownDates`: the epoch and the last day of 9999), and compares it with the
arithmetic of `civilFromDays` (which is how the code computes every date, by the
era of 400 years, the year of the era, the day of the year and the month), and
the strings of `toISO8061ExtendedStr` as the numbers in them. `Duration` prints
and parses sequences of letters and numbers.

## 3. The runs

| Run | Question | States, time |
|---|---|---|
| `map_core` | Two threads of one producer and a client that keeps its mapping, over two incarnations: `TypeOK`, `LockExclusion`, `SnapshotConsistent`, `NoPhantomHolder`; an overlap of reader and writer comes from the restart window only (`OverlapOnlyInRestartWindow`); the whole is an atomic map (`ImplementsAtomicMap`) | 1.65M, 65 s |
| `map_live` | `ReadTerminates`, `WriteTerminates` with two clients that come back for ever | 50 s |
| `tool_core` | Two creators in any interleaving: the inductive invariant `IInv` of the proofs, `LockExclusion` | 16 s |
| `log` | Three threads, four messages, room for one: `IInv`, `TableBounded` | 140K, 8 s |
| `agg_core` | Seven kinds of keys, two threads with keys of their own and one that both report, a segment for two elements, of each key that one thread reports: `TypeOK`, `VisibleIsReachable`, `AckedIsVisible`, `VisibleWithinSize`, `NanHidesValues` | 4.2M, 70 s |
| `report` | 101 sensors of two GPUs, their ports, a memory, a switch, a network adapter, a retimer and a CPU, two at a time in every order of the namespaces: `TypeOK`, `AtHome`, `SensorsHaveParents`, `DistinctURIs`, `OneFragment`, `SameText` | 29K, 55 s |
| `time` | 147000 days (more than a 400 year cycle) around 1970 and around the end of 9999: `CivilAgrees`, `LaterIsLater`, `TooLargeIsMaximum`, `MillisRoundTrip`, `NanosTruncate` | 588K, 105 s |
| `mrd` | Two producers, four MRDs (shared, single, with a bad size, unmapped), files bad at first in every way (missing, malformed, without the key, ill-typed), three starts, one failed creation: the inductive invariant `IInv`, `UpHasAll`, `RetrySucceeds`, `NothingLost`; the whole is a directory (`ImplementsDirectory`) | 2.3M, 145 s |

Four runs expect a violation, each of one promise of a document or comment:

| Run | The promise | What the code does |
|---|---|---|
| `map_restart` | `NoOverlap`: README "data integrity and protection in a multi process environment" | The new segment is named before the old mutex is unlinked. A client that opens both names in between reads the new map under a mutex its writers do not take. |
| `log_race` | `Spacing`: error_logger.hpp "only if the same error message hasn't been logged within the last ..." | Two threads look up before either stores, and both log. |
| `agg_grow` | `ListPublished`: shm_sensor_aggregator.hpp "New elements insertion, Removal of elements and updates" | A shorter list takes no branch; a longer one takes the one for equal lengths, and its new elements are updated, not inserted. |
| `agg_absent` | `AbsentIsInserted`: shm_sensor_aggregator.hpp "inserts shared memory object if entry is not present" | One call without the parent path bars the key for ever. |

Bounds. Two generations (`MaxGen`) are one restart, which is where names of
different incarnations can be mixed; with two clients or two threads every pair
of conflicting roles is there, and two values tell half an update from a whole
one. One key suffices for the mutex; that the keys of one copy belong to one
moment is proved for any number. In `SensorAggregator` four calls are enough to
publish, change and fail a key and to meet a second thread, lists reach length
two, and two elements of room make every insertion the one that may fail. Three
starts of two producers let one restart while the other lives. In `report` every
property is about one sensor or a pair, so two registered sensors at a time are
every case; each branch of `Located` has a sensor that takes it, and each table
of texts is shown all its members and one it does not have (`Novel`).

Symmetry is declared for sets whose members nothing orders or chooses: writer
threads (of one producer), keys, values; threads and messages of the error
table. The liveness run has none. Deadlock is not checked in the bounded models,
which stop when their generations, calls or starts are used up.

Fairness (`LiveSpec`, `map_live` only): weak fairness of each writer's step and of
each reader's step inside a call. The operating system schedules a thread that
can run, and what a thread waits for is the mutex's own condition, which stays
true until somebody else enters. No call has to begin, no producer has to
restart, no death has to happen or not to. `WriteTerminates` begins when a thread
has shut the first gate: weak fairness promises nothing to one of several threads
that compete for it, and Boost promises nothing either. It excludes a sharer that
died, for which the code waits for ever, and the run would show it.

## 4. The proofs

`ShmemMapProofs`, for any number of creators, threads, clients, keys, values and
generations, from `ShmemMapAssumption` (the special values differ from the
ordinary ones; creators are no readers; each thread has a home process):

* `TypeCorrect`: `Spec => []TypeOK`.
* `MutualExclusion`: `Spec => []LockExclusion`.
* `LocksAccountedFor`: `Spec => []NoPhantomHolder`.
* `Snapshots`: `Spec => []SnapshotConsistent`.
* `RestartWindow`: `Spec => []OverlapOnlyInRestartWindow` if there is one creator.
* `Inductive`: `Spec => []IInv`, the invariant behind them.

The argument. None of the properties is inductive. `HandleInv` says which handles
a process has at each point, that a mutex belongs to one creator and was made for
one segment: a `create_only` never returns an old one, so `memLock` of two
creators never agree. On top of it, `LockInv` ties the words of the mutex to the
threads: who is inside holds the exclusive word, who scans is counted, and a
writer past the second gate saw no sharers; a new sharer needs the first gate
open. That gives exclusion per mutex. `ContentInv` ties maps to mutexes: a segment
with one mutex differs from what the last finished operation left only while that
mutex is held (`DirtyInv`), a client that scans under it therefore sees
`committed`, and construction and clearing without the mutex happen before any
client can be attached (`UnusedInv`, `BuildInv`). Hence `SnapshotConsistent`,
whose hypothesis, that the client's mutex is the only one made for its segment,
is exactly what the restart window breaks: `map_restart` is the counterexample
without it. TLC checks `IInv` in `tool_core`. `RestartWindow` adds that the newest
mutex is the one behind the name (`NewestInv`): with one creator a client can only
have missed the thread's mutex by opening the name before it was made anew.

`ShmemMapRefinement`, from the same assumption: `Implements`, `Spec =>
ImplementsAtomicMap`. `ProgressInv` says, of a segment with one mutex, that its
content differs from `committed` by what the operation inside has stored so far,
which is what `AtomicMap!After` allows at each stage. An operation takes effect in
the abstract map when it leaves the mutex (or dies inside it, where it never
does); a read when its last key is copied, and `SnapshotConsistent` makes that copy
the abstract map's. `CreatorAtomic`, `WriterAtomic` and `ReaderAtomic` map the
steps of each process.

`ErrorLoggerProofs`, for any number of threads, messages, entries and ticks:
`Inductive`, `Spec => []IInv`; `Bounded`, `Spec => []TableBounded`; and
`SingleThreadSpacing`, `Spec => Spacing` if there is one thread. `RoomInv` counts entries and threads about to add one
together: each saw room for its own. `Spacing` needs that the table is the
history of the journal (`HistoryInv`) and that a decision is still good when it
is acted on (`DecisionInv`), which only one thread can keep; `log_race` is the
counterexample with two.

`MrdServiceProofs`, for any number of producers, clients, MRDs and objects, every
mapping, and any number of starts and failures, from `MrdServiceAssumption`:

* `InitMeansOpen`: `Spec => []UpHasAll`.
* `Retries`: `Spec => []RetrySucceeds`: a call that begins with both files good, and to
  which nothing fails, answers true, unless an earlier call of the process has kept a
  mapping without "Namespaces" or namespaces of the wrong types. Those two are all that
  a call can leave behind to the harm of the next; section 5 says what they do.
* `NothingIsLost`: `Spec => []NothingLost`.
* `ServesDirectory`: `Spec => ImplementsDirectory`.
* `TypeCorrect`, and `Inductive`, `Spec => []IInv`, the invariant behind them.

What is mapped to a producer is open or still to be created and never both
(`InitInv`), so that a creation that fails and leaves no segment never takes one
away that counts as open (`OpenInv`). A clean call has the files it needs at each
of its steps, and has not kept a bad one (`CleanInv`), because a good file stays good and a bad load is not
kept. Each object a client may count on is read, missed, or in the segment of a
producer that is still on its list (`ReadInv`); a producer's step can only shorten
what it may count on. `ProducerFrame` and `ClientFrame` say what a step leaves
alone, so that each part is shown for the process that moves and carried over for
the others. For `ServesDirectory`, `ProducerDirectory` shows that a producer's step
adds one object to a region (which is a region, since what is open has a map,
`OpenInv`) or empties whole ones (`Withdrawal`), and `ClientDirectory` that a client
which is not in a call has nobody left to ask (`ReadInv`) and that the tail of its list
is the list with the first producer struck off, or not, if it is listed twice
(`RangeOfTail`).

`SensorAggregatorProofs`, for any number of threads, keys, namespaces and calls, any
`Matches`, any length of lists and any room in the segment, from
`SensorAggregatorAssumption`, whichever threads report a key: `TypeCorrect`, `Spec =>
[]TypeOK`, and of each key that one thread reports (`Owned`), whatever others do with
the other keys,

* `Reachable`: `Spec => []VisibleIsReachable`.
* `WithinSize`: `Spec => []VisibleWithinSize`.
* `AnsweredIsVisible`: `Spec => []AckedIsVisible`.
* `NanHides`: `Spec => []NanHidesValues`.

`Owned` is part of the properties and no assumption on the keys: the keys of a producer
may be owned or shared in any mixture, and of a shared key the properties are false
(section 5). The repository's producers have each sensor polled by one loop.
The argument. `IInv` says what a thread knows of its key at each place of a call
(`Known`: what it copied of the fields under the lock is still so), that the
operations it has left are within the size that is registered (`Planned`), that
every element a client sees is (`Seen`), all three of owned keys, and of any
key that the operations a thread has left are on the key it reports (`Caller`).
A step of one thread therefore touches neither the fields nor the elements of a key
that another owns (`OtherThreads`, `OtherKeys`, `KeyStays`), so `IInv` needs showing
for the moving thread and its key only. `AnswerInv` adds, for a
call whose operations have all succeeded so far, what it has made of its key: a
plain value that is written (`PlainPlan`), or the elements of a failed list that
are erased or are nan, up to where the call has come (`NanPlan`, `NanDone`).

`CalendarProofs`, for walks of any length and every number of ticks in a second that
the code uses, from `CalendarAssumption` (the walk starts on known dates):

* `NextDay`: `CivilFromDays(n + 1)` is the date after `CivilFromDays(n)`,
  `CivilFromDays(n - 1)` the date before, and every one is a date, for every integer n.
* `ArithmeticIsCalendar`: `Spec => []CivilAgrees`.
* `BeyondIsMaximum`: `Spec => []TooLargeIsMaximum`, and `LaterPrintsLater`: `Spec =>
  []LaterIsLater`, both if the years of the walk fit in an int (`YearsFit`).

The argument. A day is taken apart as the code does it: an era of 400 years, the year
of the era (`YearOfCycle`: the quotients find the year whose days hold the day), the
month (`Months`). The next day is then the next of its year or the first of the next
year, from one era to the next too (`YearStep`), and within a year the next of its
month or the first of the next (`MonthStep`); the lengths that result are those of
the calendar (`YearLengths`, `MonthLengths`). `Walk`, the inductive invariant, says that
the date the calendar has come to is the one that is computed. For the
order of strings, a time is its hours, minutes, seconds and ticks (`ClockHands`), and
two times differ within a day (`SameDay`) or from a day to the next (`DayAfter`), where
the limit of 9999 may come between them. `YearsFit` is exactly what the narrowing of the year (time_utils.hpp:372) needs: with an `IntMax` of
16 bits TLC finds `TooLargeIsMaximum` broken, with 32 bits it takes times of 2^31 years.

`TimeUtilsProofs`, for any set of days, seconds and fractions, from
`AmountsAssumption` and `CalendarAssumption`: `ReadsBack`, and from it
`MillisReadBack`, `Spec => []MillisRoundTrip`, and `NanosReadBack`, `Spec =>
[]NanosTruncate`. Parsing takes items off the front, and an item that was left out
because it was zero must not be found further behind. `FormatWrites` shows that the
text is the items joined from the right, `PartReads` that the reader of an item
takes off its own or nothing, since no letter of an item occurs behind it, and
`ParseReads` that the counts add up.

`MetricReportProofs`, for every configuration, every producer's sensors and
readings, every path, from `ConfigAssumption` and `SensorsAssumption` (types):

* `OrderDoesNotMatter`: a sensor gets the same fields in any two orders of the
  namespaces, if it has one home (`OneHome`).
* `HomeTheOnlyOne`: `Spec => []AtHome` under `OneHome`; without it the order of the hash
  table decides.
* `ParentsNamed`: `Spec => []SensorsHaveParents`, if a path that does not name its
  device matches a keyword of two words (`LongKeywords`).
* `Typed`: `Spec => []TypeOK`, if the lists have URIs (`ListsHaveURI`): the code looks
  for an empty URI in front of plain values only.
* `TextsAgree`: `Spec => []SameText` under `SameFacts`, which excludes the two cases of
  section 5 and nothing else.
* `UrisTell`: two places of properties that have the same text are the same leaf of
  the same resource, if no name has a word that a collection or a leaf begins with
  (`PlainNames`; the names are D-Bus names, which have no "/" and no "#") and a leaf, if
  there is one, begins with a word that no resource has (`LeavesFit`).
* `NoClash`: `Spec => []DistinctURIs`, from these two, `ListsHaveURI`, and that no two
  sensors report the same leaf of the same resource (`PerLeaf`).
* `OneMark`: `Spec => []OneFragment`, from `PlainNames`, `ListsHaveURI` and
  `InTheirNamespaces`. That a leaf has one mark is not assumed: it is shown for every
  branch of `generateURI` with every property of every table that belongs there.
* `AlwaysRegistered`: `Spec => []Registered`, the invariant behind them.

`LeavesFit` and `PerLeaf` are about the tables of the code and the entries of a
configuration, sensor by sensor, whatever order the namespaces are met in; TLC
evaluates them for the shipped configuration. They are false for some
entries that it does not have: section 5 lists those. `InTheirNamespaces` is about pairs
of an interface and a namespace only; what it leaves out is what section 5 says gets two
marks or none, and what no branch was written for.

The argument. The loops are recursive functions on an interval, and the library's
induction takes an operator, which the provers cannot instantiate. `Recursion` takes
a set for each turn instead, and shows that a loop whose turns keep these sets has
results and that they are in them; `Ascent` does the same for what is already known
to be one. For `getMatchCount` the set is the places in the path: those that are taken
ascend (`PlacesAscend`), and no other places for the same words are in front of them,
hence `CountIsMatch`: a search that never goes back finds every keyword that occurs.
For the walk it is `Seen`: the best count of the entries seen so far, the candidates
that are those with this count and no others, and names that depend on this count
only (`NamesBest`), whatever was met before. After the last namespace nothing in it
depends on the order (`Parsed`). `Registered` and the shape of the elements
(`Elements`) are inductive; TLC agrees on both for the shipped configuration.

A URI is read from its ends. The first word in it that no resource has begins the leaf
(`FirstCut`), the last word of what is in front of it that no name has is the
collection of the last step (`LastCut`), and so on to the front (`TextTells`), so that
names of any length in any branch cannot run into one another. `LocatedPlace` shows
that every branch makes a resource of names and collections, also where the code cuts
a name out of another (`AdapterChassis`, `CpuPort`, `RetimerId`). `Made`, the
inductive invariant, says that an element has the URI of its sensor's fields and its
own index.

The mark is counted from the tables up. A text has one (`Single`) or none (`Bare`), and
one text after another keeps count (`MarkAlone`). A table takes the marks of its
directories (`TableMarks`; `PortTables`, `PlainTables`, `OwnTables`, `MixedTables` go
through all of them), and `LocatedMarks` goes through the namespaces: where the suffix
has none, the branch has put one in front of it, and nowhere else. Names have none
(`BareNames`), also the one that a reconfiguration setting takes into its leaf.

Only model-checked: the two liveness properties of `map_live` (liveness under
fairness is out of the prover's reach). Every other property of the passing runs is
the statement of a theorem.

## 5. Departures seen and not run

These were met while modelling, and the models contain them:

* `~Map` destroys the map without taking the mutex (shmem_map.cpp:96): a traversal
  that is under way walks freed memory. `SnapshotConsistent` asks for the map to
  exist.
* `getAllKeyValuePair` keeps the mapping of its first call for ever
  (telemetry_mrd_client.cpp:45), though its header promises an exception for a
  namespace that is absent.
* The tool's `erase` is a creator (nv_shmem_tool.cpp:78): it unlinks the segment
  of a live producer, which goes on writing where no client looks.
* `Map::insert` keeps an entry that is there; its header says the object would be
  updated (shmem_map.hpp:89-90).
* The values of a list are numbered anew at each update in the order of a hash
  table (shm_sensor_aggregator.cpp:449), although metric_report_utils.hpp:1509-1513
  numbers them by their place in the list.
* A failed reading of a list of one element takes the path of plain values
  (shm_sensor_aggregator.cpp:345) and leaves the old value at `/0`.
* The first call without the parent path is answered false, every later one true
  (line 594).
* Two threads that report one key: the sizes and the elements of a list are
  written in different orders (line 232), and a nan may register the key under
  the empty namespace between another's check and its `emplace` (line 318), after
  which the published object is never updated. The properties are therefore of keys that
  one thread reports, as the producers of the repository do, and `agg_core` has a
  key of two threads beside them.
* `getAllMRDValues` leaves out a producer whose lock it does not get within a
  second, or that it cannot open, with no more than a log line
  (telemetry_mrd_client.cpp:93), though README.md:94-97 reads and aggregates each of
  the regions. `NothingLost` says of the objects left out that this is all that can
  have happened to them.
* An update is not told the namespace (metric_report_utils.hpp:1648): a `LinkStatus`
  of `CpuProcessorMetrics`, published as "OK" or "Critical" (lines 800-802), would be
  updated to "LinkUp" or "LinkDown". And a BOOLEAN of `OperationalStatus` is
  translated at insertion for paths of `inventory_software` only (line 1615), at
  updates for every path (line 1695). The shipped property lists have neither.
* URIs that no shipped property list reaches: `IBG2RXPkts` and `IBG2TXPkts` lack the
  slash in front of "Metrics" (lines 271-272); the `PCIeDevice` metrics and the
  `Value` of `ProcessorPerformance` bring a "#" of their own, and in
  `ProcessorMetrics` get two; `ThrottleReason` in `CpuProcessorMetrics` gets none;
  `ceCount` and `PCIeECC.ceCount` share one (lines 401-402). The condition at the end
  of `generateURI` is always false (line 1400), as the comment there says.
* The year is narrowed to an int before it is compared with 9999
  (time_utils.hpp:372), and the last day before the epoch prints as 1970 with
  negative digits (line 376).
* `namespaceInit` throws, instead of answering false, on a mapping without
  "Namespaces" (config_json_reader.cpp:109 is not caught on that path), and keeps
  that mapping until the process ends.
* A namespace file that parses is kept before its entries are looked at
  (config_json_reader.cpp:54). If an entry has values of the wrong types,
  `getNameSpaceConfiguration` throws (lines 132-148), `namespaceInit` answers false
  (telemetry_mrd_producer.cpp:54-60), and so does every later call of the process, also
  after a good file is installed, since the file is never read again (lines 31-34).
* A client whose first `getAllMRDValues` finds no mapping keeps the empty lookup
  for ever (telemetry_mrd_client.cpp:64), also when `getMrdNamespacesValues`,
  which has a lookup of its own, lists the namespace.

## 6. Not modelled

* Of `metric_report_utils.hpp`: `getProcessorAndCpuNum`, which nothing calls; the
  digits of numbers; a duration above what a signed 64 bit count holds, which is
  shown as "".
* That values are text in `MetricReport` and numbers of calls in `SensorAggregator`:
  a list of strings or doubles is updated element by element there, and its texts
  are the ones of an insertion.
* `stat`, `perf`, `create` of the tool and `aggregation_service_tester`: they print
  and measure.
* The property lists of `MCMetricReport` are shorter than the shipped ones: `report` is
  about the properties that the branches tell apart. `OneMark` is about all of them.
* `MrdService` and `MrdDirectory` publish objects and lose whole regions; the erasing of
  a single object, which lists that shrink and failed readings do, is in `ShmemMap` and
  `SensorAggregator` and left out of both.
* Tests and build. The mapping of producers: `MCMrdService` has a small one of its
  own in the place of the shipped file. `SizeInBytes` that is absent, as opposed to
  not a number, is undefined behaviour of the JSON library and is left out.
* The allocator inside a segment: it may fail whenever it allocates. Its own
  mutex, which a client takes in `getValue` (to build a key), is left out.
* Threads in `updateTelemetry` while `namespaceInit` runs: the header asks for one
  call of it before anything else.

## 7. Plan

Done, in this order: `ShmemMap` with its proofs, `ErrorLogger` with its proofs,
`SensorAggregator`, time, `MrdService` with its proofs, `AtomicMap` and the
refinement, `DevicePath` and `MetricReport`, the proofs about `SensorAggregator`,
about dates and durations, and about `DevicePath` and `MetricReport`, last that
URIs can be read in one way and have one fragment.
Then the properties of `SensorAggregator` were stated key by key, so that its
theorems need no hypothesis on who reports the other keys, and `MrdService` was shown
to implement `MrdDirectory`. Every safety and action property of the passing runs is now
a theorem or the consequence of one; what is left to TLC alone is liveness
(`ReadTerminates`, `WriteTerminates`). To be done: a promise for keys that two threads
report, and parsed durations that overflow.
