# Formal models of k.h

k.h is a C library of reference counted objects, collections and threading
primitives for Linux, macOS and Windows. This directory holds TLA+ models of
its components, configurations that check them with TLC on small instances,
and proofs, checked by TLAPS, of the properties that matter most for every
number of threads, tasks, keys or bytes.

1. [The system](#the-system)
2. [The modules](#the-modules)
3. [The runs](#the-runs)
4. [Fairness](#fairness)
5. [The proofs](#the-proofs)
6. [Where code and documentation disagree](#where-code-and-documentation-disagree)
7. [What is not modelled](#what-is-not-modelled)
8. [Plan](#plan)

To parse, check or prove something:

    tlasany KWorkerPool.tla
    tlc -workers 2 -config MCPoolSafety.cfg MCKWorkerPool
    tlapm KWorkerPoolProofs.tla

## The system

Every object has a reference count (`kobject.c`). A constructor returns one
reference, `Retain` adds one, and the thread that releases the last one runs
the deinitializer and frees the memory. Counts are atomic; nothing else about
an object is, unless the object is a threading primitive. Components therefore
interact in three ways: by calls that take and give back references, by
deinitializers that run wherever the last reference happens to be dropped, and,
for the threading part, through the condition variable.

| Component | State it keeps | Operations | What is hard about it | What makes it correct |
|---|---|---|---|---|
| KObject | reference count, class | alloc, retain, release | who is last, and on which thread the deinitializer runs | freed once, and used by nobody afterwards |
| KConditionVariable | mutex, condition | enter, exit, wait with a predicate, notify one, notify all | notifications without the mutex, spurious wakeups | a waiter returns with the lock and a predicate that asks for no more waiting |
| KWorkerPool | list of tasks, array of threads, `shutdown` | new, post, shutdown, release | workers, clients and tasks interleave; a task may post, or own the pool | tasks run once and in order, no lost wakeup, balanced user data, no thread after shutdown |
| KThread | `is_joined`, `is_valid`, handle | new, join, release, main | the new thread owns a reference and may be the last; joining oneself | the procedure is called, the object outlives its users, joins return after the thread |
| KCountdownLatch | count | count down, wait | the announcement comes after the critical section; too many calls | exact count, no early return, everybody returns at zero |
| KSemaphore, KMutex | the platform's semaphore | wait, signal; lock, unlock | three platforms, EINTR, a maximum on Windows | permits are neither lost nor invented |
| KMap | buckets, entries, `object_count` | set, get, remove, rehash, deinit | collisions, growth that fails or repeats, references of entries | it is a dictionary, and its entries are the references it holds |
| KList | `root`, `count`, doubly linked entries | add, remove at, remove all, iterate | three pointers to move for each operation | it is a sequence, no entry leaks or dangles |
| KArray, KAllocation | length, buffer and its size | add, remove at, remove all; truncate | growth to powers of two in 32 bits, failing `realloc` | it is a sequence inside of its buffer |
| KFilePath, KString | components, `is_absolute`; bytes | parse, add, render; new, copy, append | separators at the ends and in a row, NUL | text and path determine each other |
| KFileHandle | descriptor, `closed` | open, close, release | close fails or is interrupted; descriptors are reused by others | every descriptor is closed once, by its owner |
| KMapping | buffer, `user_data` that owns it | new, retain, release, get user data | two objects, released in either order by anyone; making one fails half way | a file is mapped exactly as long as somebody has a reference |
| KAutorelease | a KArray for each thread | add, move, pop | popping runs deinitializers, which add to the pool or pop it; no memory | an object lives exactly as long as it is referenced, and is given back once |
| KHash, KLogging, KTime, KAssert | none | | | see [What is not modelled](#what-is-not-modelled) |

Who uses whom: KWorkerPool is made of a KConditionVariable, a KList of tasks
and a KArray of KThreads; KCountdownLatch of a KConditionVariable; KMutex of a
KSemaphore; KMap of a KArray of KLists; KArray of a KAllocation; KFilePath of a
KList of KStrings; KFileHandle hands a KFilePath as a string to `open`, and makes
KMappings of which the file mapping is the `user_data`; an autorelease pool is a
KArray. Programs put components together by what they pass as `user_data`: the
unit test of the pool passes a KCountdownLatch to its tasks.

## The modules

| Module | Code | What its state and actions are |
|---|---|---|
| `KConditionVariable` | `kcondition_variable.c` | `holder` of the mutex and the threads `asleep`. Operators that its users conjoin to their actions: the loop of `KConditionVariableWait` is `WaitBlock`, `WaitReturn` and the user's own predicate. A wakeup, asked for or spurious, makes a thread compete for the mutex again. |
| `KWorkerPool` | `kworker_pool.c`, the parts of `klist.c`, `kthread.c` and `kobject.c` it calls | `pc` says where each client and worker is. One action is one critical section, one blocking call or one stretch of code that touches nothing shared: `Post*`, `Worker*` and `ExecuteTask`, `Shut*`, `Free`. `poolRefs` is the set of those who hold a reference. |
| `TaskService` | abstract | What the pool is to its clients: a first come, first served queue with a limit on how many run, that is stopped and then collected. |
| `KCountdownLatch` | `kcountdown_latch.c` | the same style: `Enter`, `CountDown`, `CountDownNotify`; `WaitSleep`, `WaitWake`, `WaitExit`. |
| `KThread` | `kthread.c` | the references on one thread object, the steps of `KThreadNew`, `KThreadMain` and `KThreadJoin`. |
| `KSemaphore` | `ksemaphore.c`, `kmutex.c` | a count, threads that wait or work, strangers that signal without having waited, and the three platforms. |
| `KFileHandle` | `kfile_handle.c` | handles over the table of descriptors that they share with the rest of the process. |
| `PoolAndLatch` | the test of the pool in `unittests.cc`, with `kworker_pool.c` and `kcountdown_latch.c` | the composition: `KWorkerPool` is extended, `KCountdownLatch` is an instance whose counters are the tasks and whose waiter is the owner of the pool. `Posts`, `Waits`, `ReleasesPool` and `ReleasesLatch` are the program of the owner, `CountsDown` and `Returns` that of a task; the pool's reference on a task's `user_data` is what keeps the latch. |
| `KObject` | `kobject.c` | objects with a count and one field that owns another; each thread has a stack of the deinitializers that it is inside of. |
| `KAutorelease` | `kautorelease.c`, `KArrayAddObject` and `KArrayRemoveAllObjects` of `karray.c` | extends `KObject` with the pool of each thread: a pop is a frame of the stack, with the position of its loop, between whose steps deinitializers run. |
| `KMapping` | `kmapping.c`, the file mappings of `kfile_handle.c` | regions of memory that mappings share with the rest of the process; the two reference counts; the section object of Windows. |
| `KMap`, `Dictionary` | `kmap.c`; abstract | `buckets` is a sequence of sequences of entries; `refs` counts the references that entries hold. |
| `KList`, `ObjectList` | `klist.c`; abstract | entries are memory locations, with `next`, `prev` and `item` each. |
| `KArray`, `KAllocation` | `karray.c`, `kallocation.c` | `slots` in a buffer of `items.bytes` bytes; arithmetic of `Width` bits. `ObjectList` is its abstract specification too. |
| `KFilePathParser`, `KFilePath`, `KString` | `kfile_path.c`, `kstring.c` | the parser is a state machine, one iteration a step; the rest are functions on values. |
| `*Proofs`, `KWorkerPoolQuiesce` | | theorems and their proofs. |
| `MC*` | | instances for TLC. |

Some conventions. `None` stands for NULL or nobody. Definitions have the names
of the code where they have one there. Operators such as `PeekOnly` or
`WakeNobody`, next to a definition that is used in their place, are mistakes
that could be made at that point: `PROJECT.json` says which property finds each.

What is atomic in the models is a critical section, an atomic operation on a
reference count, a system call, or local work; everything else interleaves. In
the pool and in the latch a notification, which the code sends after it has left
the critical section, is a step of its own, as are the test of `is_joined`, the
wait and the assignment in `KThreadJoin`.

The abstract specifications are linked by refinement: `ImplementsTaskService`,
`ImplementsDictionary`, `ImplementsObjectList`. The mapping is computed from the
concrete state: the queue of the service is `pool->tasks`, the contents of the
dictionary are what `KMapGetValue` finds through the buckets, the list is what
the chain of pointers leads to.

Three MC modules put components that have no state in common side by side and let
one of them run in each behaviour, so that one TLC run explores the sum of their
state spaces and not the product: `MCPrimitives` (latch, thread, semaphore),
`MCCollections` (map, list, array) and `MCResources` (paths, file handles,
mappings, autorelease pools).

## The runs

| Run | Instance | States | Checks |
|---|---|---|---|
| `pool_safety` | 2 clients (one of them shuts the pool down), 2 workers, 3 tasks, posted by clients or by tasks | 52 374 | no use after free, no lost wakeup, one place per task, balanced user data, backlog, no thread after shutdown, not all threads wait for each other, `TaskService` |
| `pool_liveness` | the same with 2 tasks, both clients may shut the pool down, fair | 167 856 | posted tasks are executed unless the pool is shut down; shutdown returns, also when two call it at once |
| `pool_latch` | 1 owner, 2 workers, 3 tasks and a latch of 3, fair | 17 723 | the latch outlives its users, no task is dropped, pool and latch are collected |
| `primitives` | latch: a count of 2, 3 calls, 2 waiters; thread: creator, two other holders and the new thread itself, POSIX; semaphore of 2, 3 users, 1 stranger, 3 platforms; all fair | 8 871 | latch: exact count, no early return, announcement, waiters return; thread: no use after free, joins wait for the thread and return, the procedure is called; semaphore: conservation of permits, somebody is served |
| `collections` | map: 4 keys with 3 names, 2 values, from 1 bucket; list: 2 objects in 4 memory locations; array: up to 6 objects of 8 bytes in 7 bit sizes | 17 474 | the three are what they should be, and hold the references they should |
| `resources` | paths: all strings of up to 5 characters, 2 of 4 being separators, suffixes of up to 3; 2 handles, 3 descriptors, 1 other owner, close that fails in any way; 2 mappings, 3 regions, 1 other owner, 2 platforms; autorelease: 2 objects, 2 threads, pools of 2 | 267 179 | parser against a reference, round trip, `KFilePathAddComponent`; descriptors are closed once, by their owner; a file is mapped exactly while it is referenced; objects live exactly while they are referenced |
| `pool_self_join`, `map_removal`, `path_c_string`, `thread_windows`, `file_handle_close`, `autorelease` | smallest ones that show it | | find the counterexamples [below](#where-code-and-documentation-disagree) |

Why these sizes are enough to be interesting:

* Two workers and three tasks are the smallest pool in which one worker can be
  asleep while another takes a task, in which more tasks wait at shutdown than
  there are workers to drain them, and in which some but not all threads can fail
  to start. Symmetry of tasks and workers is used in `pool_safety` only: its
  properties, and the abstract service, do not tell tasks apart. The liveness run
  uses no symmetry.
* Three tasks for two workers, with a latch: one task is posted, or waits in the
  list, while another is about to notify the owner, and a third still runs when
  the first returns. The owner may give up the latch before the pool, after it, or
  without ever having had a pool.
* One call more than the count, and two waiters, let a latch be counted down
  after it reached zero and a waiter arrive at each point of the last call.
* Keys `k3` and `k4` are different objects with equal names; the hashes 0, 2 and 5
  put all names in one bucket of a small map and in three of a larger one. From
  one bucket on, three insertions make the map grow twice, or, after failures,
  several times at once. `MaxRefs` bounds the references on an object.
* Four list entries have a first, a last and two inner ones, in any order in
  memory, and memory is reused. Six array elements cross three powers of two; the
  largest size fits in `Width` bits (the wrap of `uint32_t` does not happen here).
* Five characters hold empty components at both ends and in the middle.
* Three holders of a thread object besides the new thread are creator, joiner and
  somebody who may be last.
* `MaxExtra` bounds how many signals of strangers take effect.
* Two objects, one of which may own the other, and pools of two (`MaxPool`): a
  deinitializer runs inside of a pop and adds to the pool that is popped, and an
  object is in the pools of two threads at once. `mishap` chooses, at the start,
  whether deinitializers also pop, or whether `realloc` moves buffers: the two
  properties of the pools are stated for behaviours in which neither happens,
  because the run `autorelease` shows what happens otherwise.
* Two mappings and one other owner for three regions: each region that is given
  back can be taken by somebody else before the next step. `MaxRefs` bounds the
  references that the program takes on a mapping and on its user data.

Deadlock is checked in all passing runs. A pool, map, thread or process that has
come to its end is allowed to stay there, explicitly.

## Fairness

* Pool, latch: weak fairness of every step of a thread that is inside the library.
  That is what a scheduler that runs every runnable thread gives; a mutex is
  eventually free, because critical sections are short. The procedure of a task
  returns. No client is obliged to post, to shut down, or to release the pool.
  Spurious wakeups happen, but not for ever, and no client calls
  `KWorkerPoolShutdown` again and again for ever: a mutex need not be handed out in
  turn, so that such a client could keep another one out of it.
* Pool and latch: also weak fairness of the owner's program, which posts, waits and
  releases without a choice. The tasks count down and return.
* Thread: the same; the procedure of a thread gives back the references it is
  handed, again and again, and ends (strong fairness of these two steps, because
  others can hand it one more at any time). Holders need never release.
* Semaphore: somebody who waits is served when the count allows it (whom is not
  said: POSIX does not promise more), and who holds a permit signals in the end.
* Collections and resources have no liveness property, and no fairness.
* In `MCPrimitives` the fairness of all three is assumed; the actions of the two
  that do not run are never enabled.

## The proofs

All theorems hold for every value of the constants that satisfies the named
assumption of the module; all are checked to the last leaf.

| Theorem | Says | Assumes |
|---|---|---|
| `TypeCorrect`, `TasksAreNotDuplicated`, `UserDataIsBalanced`, `WakeupsAreNotLost`, `CallsDoNotDeadlock` (`KWorkerPoolProofs`) | the invariants of the pool, and that its threads do not all wait for each other, for any clients, workers and tasks, with several shutdowns and tasks that own the pool | `PoolAssumption` |
| `FreedPoolIsNotUsed`, `ShutdownJoinsEveryWorker`, `BacklogIsDrained` (`KWorkerPoolQuiesce`) | the pool is freed when nobody can use it, shutdown leaves no thread, and drops tasks that were queued before it only when every worker has executed one of them | also `SingleShutdown` |
| `PoolIsATaskService` (`KWorkerPoolQuiesce`) | the pool implements `TaskService`: every step maps to a step of it, or to a stutter | also `SingleShutdown` |
| `LatchTypeCorrect`, `CountsAreNotLost`, `WaitIsNotShort`, `AnnouncementIsNotLost` (`KCountdownLatchProofs`) | the safety of the latch, for any count, callers and waiters | `LatchAssumption` |
| `WithPool`, `WithLatch` (`PoolAndLatchProofs`) | the composition refines the pool and the latch: each of its steps is a step of one of them, or of none | `PoolAssumption`, `TasksAssumption` |
| `LatchIsKeptForItsUsers`, `WaitIsForAllTasks` (`PoolAndLatchProofs`) | nobody is inside of a latch that was freed; after the wait no task is left to drop | the same |
| `ParserTypeCorrect`, `ParserIsCorrect` (`KFilePathProofs`) | the parser finds every name, whole, in order, and nothing else, in every string | `ParserAssumption` |
| `PathsSurviveRendering`, `AddingIsWriting` (`KFilePathProofs`) | the path of a string, rendered, has that path again and no separator too many; adding a relative path is writing it behind a separator; for strings of any length, any components, and both separators | `ParserAssumption`, `SuffixAssumption` |
| `PrimitivesTypeCorrect`, `ThreadIsNotUsedAfterFree`, `PermitsAreConserved` (`PrimitivesProofs`) | thread objects shared by any number of holders, semaphores with any number of users and strangers | `PrimitivesAssumption` |
| `JoinWaitsForTheThread` (`PrimitivesProofs`) | `is_joined` means that the thread has ended | also `OneJoiner`: on POSIX one thread at most joins besides the last reference |
| `ResourcesTypeCorrect`, `HandlesCloseTheirOwn`, `MappingsAreUnmappedOnce` (`ResourcesProofs`) | descriptors and mapped files are given back once, by whom they belong to | `ResourcesAssumption`, `ParserAssumption` |
| `ObjectsLiveWhileReferenced`, `AutoreleasedLivesUntilPop` (`ResourcesProofs`) | the count of an object is the number of references on it, also while a pool is popped, for any graph of objects, any threads and pools of any length | the same |
| `ListIsLinked`, `ListIsAnObjectList` (`CollectionsProofs`) | the entries are linked both ways along one path, which holds what the sequence `ObjectList` would, in any memory | `CollectionsAssumption` |
| `ArrayIsInBounds`, `ArrayIsAnObjectList` (`CollectionsProofs`) | sizes are rounded to powers of two, at every width up to 32 bits, so that the objects are inside of the buffer; they are what `ObjectList` would hold | `CollectionsAssumption`: finite memory, and arrays whose size in bytes does not exceed the largest power of two of `Width` bits |
| `MapCountIsRight`, `ReferencesAreKept`, `MapIsADictionary`, `CollectionsTypeCorrect` (`CollectionsProofs`) | `object_count` is the number of entries, whose keys differ; references come and go with entries; the map implements `Dictionary`, for any keys, equality, hash and first size | `MapAssumption` (and, as the three are checked side by side, `CollectionsAssumption`) |

*The pool.* `EachTaskOnce` or `NoLostWakeup` are not inductive as they stand.
`IInv` adds who holds a reference on the pool at each point (`RefsInv`: a thread
inside a call has one, a thread inside the deinitializer knows there are none),
who holds the lock (`LockInv`, with the fact that a worker only stops running
because of a shutdown it has seen), and what `KWorkerPoolNew` has done so far
(`Building`, `Spawned`: no task is posted before all threads exist). The moves of
a task are proved once (`TaskMoves`): every action leaves all tasks where they
are, or moves one of them along posting, list, worker, executed, or drops the
list. `EachTaskOnceStep` and `UserDataStep` then only look at the moves. Lost
wakeups are split in the two halves of the property; the first needs that a
worker which goes to sleep has found the list empty with the lock in its hand.

*Everyone waiting on everyone.* The lock, the condition variable and
`pthread_join` are all waited for inside of the pool, by clients and by workers
whose task posts or drops the last reference on the pool. `NobodyIsStuck`, a part
of `NoLostWakeup`, says that while a call has not returned, or a task waits, the
next step of some thread can be taken (`GoesOn` collects the guards of these
steps). TLC's deadlock check does not show it: a sleeping worker can always be
woken for nothing. `CallsDoNotDeadlock` needs no `SingleShutdown`. Beside `IInv`
it needs that only threads which exist are joined (`JoinTargets`), that the flag
is set before anything is joined (`FlagIsSet`), and that one thread at most is
stopping a pool without references (`OneCollector`): the worker that is waited for
is not itself waiting for one that ends later, unless it is the thread that waits
for it, which `pthread_join` refuses (`JoinWaitsForSomebody`). The proof does not
use that a second join of a worker may be turned away. Without fairness it says
nothing about calls that return; that is `ShutdownReturns`, which TLC checks.

*Collection.* That a freed pool is not used does not hold of the code in general:
`SingleShutdown` says that one client at most calls `KWorkerPoolShutdown`, and
that no task's user data is the pool. Under it at most one thread is stopping the
pool (`OneStopper`), and the workers before the position of its iterator have
ended (`JoinInv`).

*The backlog.* A worker that finds the pool shut down takes one more task and
ends. `BacklogInv` says that tasks queued at shutdown are ahead of all others
(`BacklogFirst`, since tasks are taken from the front and added at the back), and
that while some of them wait, at least as many have been taken as workers have
seen the flag (`BacklogServed`, an induction on the cardinalities of both). The
list is dropped when all workers have, and have executed what they took.

*The refinement of `TaskService`.* Each action maps to the one step of the
service that it is: `PostCritical` to an acceptance or a refusal, the critical
section of a worker to a start, `ExecuteTask` to an end, the setting of the flag
and the freeing to the stop and the collection; all others stutter. What is not
immediate is that as many tasks run as the service allows (a worker runs one) and
that nothing is started or accepted after the collection, which is
`FreedPoolIsNotUsed` again.

*The latch.* `LatchInv` adds the lock to `CountIsExact`, which relates the count
to the number of calls that have left the critical section; the induction is on
the cardinality of that set.

*The composition.* `WithPool` and `WithLatch` bring over what was proved about the
parts: `IInv`, and through an instance of `KCountdownLatchProofs`, whose
assumption is proved of the tasks, `WaitReturnsAtZero`. As many calls have been
counted as there are tasks, so every task has counted (`WaitedForAll`). `PLInv`
relates the parts: a task is inside the latch only while it executes
(`CallsWhileExecuting`), the owner gives up the latch only when it has waited or
never had a pool (`OwnerIsThrough`), and until then it keeps the pool, or nothing
was ever posted (`OwnerKeepsPool`). A task that executes has its reference, by
`UserDataBalanced` of the pool, so the latch is there.

*The parser.* `ParserInv` says that the components lie behind the cursor, that
the current one began after a separator (`Begun`), and that every byte before the
cursor is in a component or is a separator (`Covered`).

*Paths.* `PathOf`, the reference, numbers the names of a text by counting; `Cut`
says the same as a sequence of stretches, which every text has (`EveryTextIsCut`)
and of which there is one (`CutIsPath`). The parser has computed it
(`ParserCuts`). The rest is about sums of texts: when no name goes on from one
into the other, the components of `a \o b` are those of `a` and then those of `b`
(`ComponentsOfSum`, from `NamesOfSum`). `KFilePathAddComponent` is such a sum. The
loop that renders a path is as many sums as there are components: `Written` is
its invariant, and says after n components that the text has the first n, that
no two separators meet, and that the text ends in a separator when something
follows (`NameIsWritten`, `SeparatorIsWritten`).

*Thread objects.* `ThreadInv` says what each reference is for: one for each owner,
one of the new thread until it gives it back, one that `KThreadNew` has not
handed out yet (`RefsAreCounted`), and that whoever joins has a reference or
collects the object (`JoinersHoldOn`). `OneJoiner` is needed because
`KThreadJoin` does not look at the result of `pthread_join`, which fails at once
for the thread itself and may fail when somebody else joins the thread too.

*Semaphores.* `SemInv` is the balance of permits: those that are there, those that
users hold and those that were refused are the initial ones and the extra ones.

*Handles.* A descriptor that is opened for a handle is stored in the handle until
it is closed (`DescriptorsAreStored`); as long as no `close` has failed the table
gives each descriptor to whom it was opened for (`NothingIsTaken`).

*Mappings.* `MappingInv` counts the references on a file mapping: those of the
program, that of `KFileHandleNewMapping` until it has handed the mapping over, and
that of the mapping (`FileIsCounted`); a region is mapped for who stored its
address, until `munmap` (`RegionsAreMapped`).

*Autorelease pools.* `ReleaseInv` is the accounting of references: the count of an
object is the number of the threads that own one, of the objects whose field has
one, and of the positions of pools that no pop has given back
(`ReferencesAreCounted`). In a pop the position of the loop separates what has
been given back from what has not; that holds while deinitializers run, as a
thread is inside of at most one pop (`CallsAreNested`; it is what the
counterexample `autorelease` does without). What a thread borrows is in a place of
its pool that it has not given back (`BorrowedIsHeld`).

*The list.* `ListInv` says that there is a path (`Links`): a sequence of different
entries, from `root` to an entry without `next`, along which `prev` leads back,
made of exactly the entries in use and as long as `count`. There is one such path
only, and it is `Chain` (`LinkedIsChain`), though `Chain` is computed by a
recursive function: no path is longer than memory is large (`PathsAreShort`), and
a least place where the two differ cannot be. Adding appends to the path, removing
takes one place out of it, and the references are counted by how often an object
occurs in a sequence (`TimesAppend`, `TimesRemoveAt`).

*The array.* What the code asks `realloc` for is the power of two above the size.
`SizesAreRounded` proves it of the shifts and ors, as they are written: numbers
are equal when their bits are (`BitsDetermine`), each `x |= x >> n` makes runs of
ones twice as long (`SmearIs`), the highest bit stays where it is (`HighestBit`),
and a number whose bits are all ones from there on is one less than a power of two
(`AllOnes`). The same argument at 32 bits is why 5 shifts are enough. The rest is
the arithmetic of slots and bytes (`ArrayFits`).

*The map.* `MapInv` says that each entry is in the bucket of its key, that no two
entries of a bucket have equal keys (`WellPlaced`), and that there are as many as
`object_count`. From the first two follows that a search of one bucket is a search
of all (`MatchesAre`, `ValueIs`), so that the map is determined by its `Content`,
the set of its entries: setting a value replaces one entry or adds one
(`UpdatedIs`, `AddedIs`), removing takes one out (`RemovedIs`). A rehash sets the
entries one by one in empty buckets; the list of them has each once (`EntriesAre`),
and after each step the content of the new buckets is that of the steps so far
(`SpreadIs`), whatever the number of buckets, also when the map grows by several
steps at once. References are counted in the list and in the set of entries alike
(`EntriesAreCounted`). The dictionary then follows from what its entries say of a
name (`LookupMore`, `LookupLess`).

*Recursive definitions.* The library's induction theorems cannot be used, as they
take an operator; in their place stands a least counterexample (`Least`), which
needs that the function exists: it is built up to each place in turn
(`EntriesAre`, `SpreadIs`, `RenderingIsWritten`).

Only model-checked: everything about liveness, which needs ENABLED. Every
invariant and every refinement of a passing run is proved.

## Where code and documentation disagree

Each of the first six is a run whose counterexample TLC finds.

* `pool_self_join`: "The threads are joined when the worker pool is collected"
  (`kworker_pool.h:9`). A task may own the last reference; then a worker collects
  the pool, cannot join itself, and returns into a loop over freed memory.
* `map_removal`: `KMapRemoveValue` drops the reference on the entry that the list
  hands over (`kmap.c:234`): the entry, its key and its value are leaked.
* `path_c_string`: the README calls a KString a C string; one that was never
  appended to has no terminating NUL, and the path `/` is passed to `open` so.
* `thread_windows`: a new thread that drops the last reference on its own object
  waits for its own end on Windows, and its procedure is never called.
* `file_handle_close`: `close` is repeated after EINTR (`CloseErrors` has nothing
  else in this run). On Linux the descriptor is free by then: the last release
  closes it, `close` is interrupted, the second call fails with EBADF, and the
  assertion of `KFileHandleDeInit` ends the process. If another thread is given the
  descriptor in between, the second call closes it for that thread. Who owns a
  descriptor (`DescriptorsKeepTheirOwner`) is therefore only claimed of behaviours
  in which `close` does not fail; that none is leaked (`DescriptorsAreReturned`) is
  claimed of all. `close` that fails for another reason ends the process at the
  same assertion; that is what the assertion is for, and no disagreement.
* `autorelease`: "The array relinquishes references to all objects" (`karray.h:64`).
  The loop of `KArrayRemoveAllObjects` runs deinitializers with the buffer it read
  before and the length reset after it. One that pops the pool again makes the
  same references be given back twice; one that autoreleases may make `realloc`
  move the buffer from which the loop goes on reading.

Others met on the way, for which no run is kept: tasks that wait at shutdown, or
are posted afterwards, may be released without having run, which
`kworker_pool.c:26` warns of and `kworker_pool.h:31` does not; two threads in
`KWorkerPoolShutdown` at once join the same thread twice, and one of them may
return early (set `ShutdownCaller = {c1, c2}` in `MCPoolSafety.cfg`:
`ShutdownQuiesces` fails; that both return is checked by `pool_liveness`);
`KCountDownLatchCountDown` returns true also when it found the count at zero;
`KListIterate` numbers the objects from one (`klist.c:113`); on Darwin
`KSemaphoreSignal` returns whether it woke a thread; the size that
`KArrayAddObject` asks for wraps to zero above 2^31 bytes, and `realloc` to zero
frees the buffer that the array keeps.

## What is not modelled

* Memory that cannot be allocated in constructors (`KWorkerPoolNew`,
  `KCountdownLatchNew`, `KFileHandleNew` and others); it is modelled in `KMap`,
  `KList`, `KArray` and, for threads that cannot be created, `KWorkerPool` and
  `KThread`.
* Deinitializers that use the list, map or array which releases their object
  (`klist.c:150`, `kmap.c:185`, `karray.c:50`). The same question is modelled for
  the array of an autorelease pool.
* A thread of the pool that was created and does not fit in the array
  (`kworker_pool.c:95`): KWorkerPoolNew then drops the thread object, whose
  deinitializer may wait for the thread, which waits for tasks.
* `KFileHandleGetSize`, the protections of a mapping, and what is in memory that is
  mapped: they are between the program and the operating system.
* What `KConditionVariableNew` does when the platform has no mutex to give.
* The wrap of reference counts at 2^32.
* `KHash`, a pure function of which only this is used: equal keys have equal
  hashes (`Hash` is a function of names in `KMap`). `KLogging`, `KTime`, `KAssert`
  are output, a system call and `abort`; assertions of the code are properties.
* Programs that break the reference rules of the README, such as a thread that
  calls into an object on which it has no reference.

## Plan

Done, in the order in which they were taken up: condition variable and pool, with
their proofs; latch, with its proofs; map; paths, with the proof of the parser;
thread, semaphore, file handle; list and array; autorelease pools and mappings;
the composition of pool and latch, with its proofs; the proofs of the primitives,
the resources and the collections, of the backlog, and that the pool implements
its abstract service; the proofs about the text of paths.

What could be modelled next:

1. Deinitializers that use the list or the map that they are removed from: an
   object graph over `KList` and `KMap`, with the order of release, unlink and
   count that each function has.
2. Allocation failures in `KWorkerPoolNew`, and threads that fit no more in the
   array, with the references of `KThread` in the pool.

Of what is modelled, no safety property is left to prove.
