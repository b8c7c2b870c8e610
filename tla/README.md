# A TLA+ model of libnx-ext

This directory specifies the libraries of *libnx extras* in TLA+, checks the
specifications with TLC on small instances and proves their main invariants
with TLAPS. File names and line numbers refer to the
repository; `ld.c` is `libnx-ld/source/ld.c`, and so on.

## 1. The system

A homebrew program on the Switch links four static libraries. They run in its
one process; the only other actors are the system services behind IPC, the
threads the program creates, and the code of the NRO modules that libnx-ld
loads into the process.

| Component | State it keeps | Operations | Calls |
|---|---|---|---|
| module registry (`ld.c`) | `g_Initialized`, `g_ModuleList`, `g_MaxModuleCount`, `g_ModuleCount`, one `LdModule` per load | `ldInitialize`, `ldExit`, `ldLoadModuleFromNro`, `ldUnloadModule`, `ldUnloadAllModules`, `ldLookupGlobalSymbol` | ldr:ro client, allocator, init and fini functions of loaded modules (which may call back) |
| dynamic section and hash table (`ld.c`) | the fields of one `LdModule` that describe its tables | one pass over the section at load, a search of the hash table for each name | none |
| relocation (`ld.c`, 314-564) | the words of a module image | `_ldRelocateModule` at load, `_ldResolveModuleSymbols` at every lookup until it succeeds | the registry, for names |
| ldr:ro client (`ldro.c`) | a service session behind a guard | Initialize, Exit, register/unregister, map/unmap | the service, by IPC |
| service guard (`guard.h`) | a mutex and a count | begin/end of an initialization, exit | initializer and cleanup of the service it guards (ldr:ro, ams:su, es, bpc:ams) |
| logging (`ext.c`) | log function, mutex | `extSetLogFunction`, `extLogf` | the log function |
| oss loader (`oss.c`, `browserdll.c`) | the mount; otherwise that of the registry | `ossInitialize`, `ossExit` | browser data archive, registry, nnSdk layer |
| nnSdk layer (`sym-impl.c`) | list of ten threads; mutexes, events and timers in objects of the caller | thread, mutex, event and timer functions called by the loaded modules, `symInitialize`, `symExit` | libnx |
| symbol pointers (`cruiser.cpp`) | pointers into loaded modules | `cruiserInitialize`, `cruiserExit` | registry |
| ipcext (`ncm-ext.c`, `ns-ext.c`, `amssu.c`, `es.c`, `bpcams.c`, `account-ext.c`) | guarded sessions, a transfer memory (amssu) | IPC commands and a content search | services |

What is hard in it:

* *Callbacks.* The registry has no lock, and is written for one thread, but
  `ldLookupGlobalSymbol` and the unloading functions call init and fini
  functions in the middle of a loop over the list. Loaded code can resolve the
  names of the main program, the library's own among them, so it can call the
  library again.
* *Partial failure.* Loading takes an NRR buffer, a program id, a .bss buffer, a
  registration, a mapping and a parse of the image; each may fail, and some
  paths release less than was taken.
* *Lifetimes.* Unloading clears an entry without lowering the count; exit keeps
  the count. What a later call meets depends on the whole history.
* *Retry.* A resolution that fails half way is repeated from the start.
* *Threads.* The service guard, the log and the nnSdk layer are used from
  several threads. The thread list has no lock, and neither has the transfer
  memory of amssu.
* *Objects in reused memory.* The modules give the nnSdk layer the memory of their
  mutexes and events, with whatever was in it before.
* *Units.* Time spans are nanoseconds on one side of the layer and ticks on the
  other.

What makes each component correct: for the registry, that modules are
initialized and torn down in order, that whatever can be found is mapped, that
nothing is left with ldr:ro, that names keep their meaning; for relocation, that
each word is relocated once; for the guard, that the session is open while
somebody holds it; for the loader, that no way to fail leaves a buffer or a dead
pointer; for the thread list, that each thread that runs is in it once; for
mutexes, events and timers, the nnSdk contract; for ipcext, that each handle is
closed once and each command goes to its own session. `PROJECT.json` lists the
hazards line by line.

## 2. The modules

| Module | Models | Role |
|---|---|---|
| `LinkMap` | what the module registry promises its client | abstract specification |
| `Ld` | module registry, and what ldr:ro holds for it | specification and properties, refinement of `LinkMap` |
| `LdDynamic` | dynamic section and hash table of one module | specification and properties |
| `LdRelocation` | relocation of one module | specification and properties |
| `SharedSession` | what the service guard promises | abstract specification |
| `ServiceGuard` | the guard with its mutex, count and IPC steps | refinement of `SharedSession` |
| `Oss` | oss loader, `cruiserInitialize`, with the part of the registry and of the thread list they can tell | specification and properties |
| `SymThreads` | the thread list of the nnSdk layer and the log | specification and properties |
| `NnMutex` | what an nn::os mutex promises | abstract specification |
| `SymMutex` | the two libnx locks in one object, and the wrappers over them | refinement of `NnMutex` |
| `SymEvents` | event and timer event of the nnSdk layer, the conversion of ticks | specification and properties |
| `NcmExt` | the reading of control data | specification and properties |
| `AmsSu` | the update commands of ams:su and their transfer memory | specification and properties |
| `NsExt` | the sessions of the ns and account commands | specification and properties |
| `LinkMapProofs`, `LdProofs`, `ServiceGuardProofs`, `OssProofs`, `SymThreadsProofs` | | proofs about the module of that name |
| `LdModuleProofs` | | proofs about `LdDynamic` and `LdRelocation` |
| `SymSyncProofs` | | proofs about `SymMutex` and `SymEvents` |
| `IpcExtProofs` | | proofs about `NcmExt`, `AmsSu` and `NsExt` |
| `MCLd`, `MCLdRelocation`, `MCServiceGuard`, `MCOss`, `MCSymThreads`, `MCSymEvents` | | finite instances for TLC |
| `MCLdModule`, `MCSymSync`, `MCIpcExt` | | finite instances of several specifications at once |

The last three put specifications side by side that share no variable:
`MCLdModule` the two about the data of a module, `MCSymSync` the mutexes and the
events, `MCIpcExt` the three parts of ipcext. A variable `part` says which of them
runs while the others rest in an initial state. Since none reads what another
writes and no property speaks of two of them, a violation in an interleaving is
a violation in the projection on one of them, which is such a behavior.

### Ld

The variables are the four globals (`initialized`, `maxCount`, `count`, and
`listAllocated`/`slots` for `g_ModuleList`), three functions over the `LdModule`
allocations (`mstate`, `image`, `binds`), what ldr:ro has (`registered`,
`mapped`, with `nrrBuf` for the buffer it reads, and `refused` for the modules of
which it would not let go), the references on its session
(`ldroRef`, and `lostRefs` for those that a failed initialization forgot), and
`stack`.

`stack` is how the model treats callbacks. Each frame is a library call in
progress: which one, the index its loop is at, and the module whose callback it
waits for. Client code may call the library when the stack is empty or when the
innermost frame waits for a callback; the library runs when it does not. One
step is what the library does between two points where other code can run: a
whole load (with the outcome of each environment call chosen), one turn of the
loop of a lookup or an unloading, the return of a callback.

A memory error does not leave the model: an entry that is NULL, an access past
the list, a released `LdModule` that is used set `fault`, and the process is over.
This is how the properties can say *when* errors happen. What the code does
after `ldUnloadModule` (holes in the list) and after `ldExit` (a stale count) is
therefore in the model as it is in the code. So are a list of no entries, which
`ldInitialize` accepts and stores the main module past the end of (line 664), and
an image without `DT_HASH` (`Unhashed`), which loads and is met by the next search
of its table (line 384); whether the relocation of such an image searches it is
left open (`ResolveMayFault`), because it depends on hidden symbols. `FaultHasCause`
states that these three are the only ways to a memory error.

The results of the unmap and of the unregister are not looked at when a module is
disposed of, and the unmap is given the buffer, not the address it was mapped at
(line 741 against 128 and 138). So each of them may leave in place what it should
undo (`MayStay`), while the buffers are freed and the module leaves the list.
`NothingOutlivesItsModule` says that this is the only way, besides a failed load,
that anything stays with ldr:ro, and that the NRR buffer goes in any case.

Abstractions: an allocation is never reused, so a stale pointer is recognised; a
module's name is that of its image; the names an image defines and needs are the
constants `Exports` and `Needs`; the init function and the init array of a module
are one callback, and so are its fini functions. Allocation of the
`LdModule` itself failing is left out, since it changes nothing.

`LinkMap` says what a client may rely on, without table, count, calls or callbacks:
the live modules in the order they were loaded, each relocated when all before it
are initialized and only if each name it needs is there, bound to the first module
that has the name, and then initialized (a lookup from its own init functions runs
them again, which is a stutter there); modules come last and go from anywhere, and
the registry closes when none is left. `Ld` implements it under the mapping at the
end of the module: the order is read off the table (`LoadedBefore`), a failed load
never happened, and a memory error is no step. So the holes that unloading leaves, a
count that never goes down and a scan that starts over are matters of memory errors
(`FaultHasCause`) and never of a wrong order or a wrong binding.

### LdDynamic

`ParseEntry` is one turn of the loop of `_ldLoadModule` over the dynamic section:
what is checked, kept in a field, or skipped. The instance tries every sequence of
entries, duplicates and contradictions included, because the code takes each
entry as it comes; `LoadedIsTheSection` states, without the loop, what each field
must be in the end, and that no entry has a size other than that of an `Elf64_Rel`,
`_Rela`, `_Sym` or `_Relr` (`EntSize`). Tables are numbers here: only whether two
fields are mixed up, or one is missing, can be told. `Tags` are the tags the `switch`
has cases for, by what it does with them; any other is skipped as `DT_NEEDED` is.

`SearchStep` is one turn of `_ldGetModuleSymbolByName` along a hash chain. The bucket
and chain arrays are what the module brings along (`TableAt`, by address): any arrays
in which each bucket heads a chain of symbols of its hash, in whatever order, and
which may leave symbols out. `place` is the position of a symbol in its chain, which
the arrays have and the code never computes; `SearchFindsFirstDefined` compares
the walk with it. The hash is a constant, so that the instance can make names
collide. A module without `DT_HASH` has no table, and a search in it goes wrong.

### LdRelocation

The image is an array of words with arithmetic modulo `WordSize`; tables name
words by index. The phases follow the code: the RELATIVE loop, the RELR loop with
its running pointer, then `Loaded`. Other modules may then arrive
(`LoadProvider`) and lookups walk the symbolic table entry by entry until one
fails, which puts the module back to `Loaded` with what was written, or until
the end. The reference meaning of a table (`RelrAt`, `LoadedWord`,
`ResolvedWord`) is stated in closed form, without the walk. `BitmapBits` is 63 in
the code and 2 in the instance: what matters is that bitmaps follow one another,
and that the pointer advances by exactly that many words.

### ServiceGuard and SharedSession

A *user* is one pair of Initialize and Exit calls; it may run on any thread. The
steps between the mutex's lock and unlock are separate (get the service, first
command, cleanup), because commands of other users do not take the mutex and may
run in between. `Balanced` says whether users only exit what they initialized.
`SharedSession` takes and gives back the session atomically; under the mapping
`Abstract`, an unfinished Initialize has not happened, and an Exit happens when
the mutex is released.

### Oss

One thread calls `ossInitialize`, `cruiserInitialize` and `ossExit`, in any order
the program likes; a step is the code up to the next call that can fail. `res` is
what `_ossLoadDecompressBrowserDllNro` holds (file, compressed buffer, decompressed
buffer). Of the registry it keeps whether it is up, the count and the entry where
the main module was stored, because `ldExit` forgets the modules and not the
count; of the thread list, how often the main thread is in it, because a second
`ossInitialize` calls `symInitialize` again. `Ld` and `SymThreads` say how those
counts come about. `LookupSymbol` may fail for reasons of its own (a module that
cannot be resolved, see `Ld`). That `ossInitialize` is not told by
`browserdllMount` apart from `ldInitialize` does not matter: both return early.

### SymThreads

Here a step is one access to what the threads share, since nothing protects the
list. A *worker* is one `NnOsThreadType` of a module, created, started, run and
ended by calls of other threads; its storage is not used again, because
`DestroyThread` and `WaitThread` abort. `pc` says where a thread is, and `paused`
which threads `symExit` has stopped, wherever they were: one that is paused inside
`extLogf` keeps the mutex, one that is paused inside `AllocateThread` leaves half
an insertion. Data races have the outcomes the build can give them: the two stores
of `g_ThreadList[g_ThreadListCount++] = thread` come in either order, and the
count is read for the test and again for the index (a build that reads it once
behaves as if nothing came between). The walk reads the count at every turn; a
build that keeps it in a register sees the same entries up to its own.

A wrapper writes one or more log lines before it acts; the model has one. The
wrappers of what is not implemented (`"stub"`) log and abort. Names and
priorities are left out. `EndFini` and `FiniCall` are the rest of `ossExit`: the
fini functions that `ldExit` calls are code of the modules, and call wrappers
after the list has been emptied, which aborts the process (`FindFails`). So
`ossExit` returns only if no fini function calls a wrapper that logs.

`symExit` takes the entries one by one, and each of them in four accesses: the load,
the pause, the close and the clear (`ExitEntry`, `PauseThread`, `CloseThread`,
`ClearEntry`). The pause of a thread that was not started yet fails, which nothing
notices; if another thread starts it before its handle is closed it runs on, and
`slipped` records that. A closed handle starts nothing.

Like `Ld`, the model records faults and histories, and the properties say what a
fault takes: two insertions at a time (`overlapped`), a start that slipped through,
a log function unset under a thread that had tested it (`stale`), or `symExit`.

### SymMutex, NnMutex and SymEvents

An `NnOsMutexType` holds both an `RMutex` and a `Mutex`, and a flag that says which
of them is in use. The modules may initialize it through the wrapper or inline,
without the library (`InlinedInitialize`), and its memory may hold anything
before: `Retire` gives the memory of a mutex nobody uses other contents. The libnx
locks are external and modelled by what their callers rely on: one owner, a
recursive count, a wait that ends when the lock is free. `NnMutex` is the contract;
`Promised` maps whichever lock is in use to it.

`SymEvents` has one event and one timer event with the threads that wait for them or
start the timer, and the system tick. An event begins without a signal, whatever
`initially_signaled` says, as in the code (`sym-impl.c`, 575). Starting the timer is
two steps: the stores of 726-728, which take no lock, and `UtimerStart`, the call of
729, which sets `next_tick` to the present tick if it finds 0. The stores themselves
are one step, because the interval and the type they write are those the timer had
already. A waiter that fires, or a call that empties the timer, between the two steps
makes one start wake two waiters; `overtaken` counts those starts. The timer stores
the span as the tick at which it fires, as the code does; `ConvertToTimeSpan` has the
width of its arithmetic (`Wrap`). The clear mode a timer event is created with is
not used by the code (701-707), and not in the model.

### NcmExt, AmsSu and NsExt

`NcmExt` is one call of `ncmextReadApplicationControlDataManual` at a time: six
places (patch and application in each of three storages) with the handles opened
and closed around three queries each, then the content file system, the nacp and
the icon, first of the language asked for, then of every language. Every IPC call
can fail. `lost` counts the handles nobody can close any more.

`AmsSu` is `amssuSetupUpdate` and its `WithVariation` form, from any number of
threads, over the one global transfer memory. Creating it, sending it and closing
it are separate steps. `slot` is the `AsyncResult` of each thread. `again` and
`overlapped` record the uses for which the code makes no provision, and the
properties say what holds without them.

`NsExt` has commands that borrow the shared session of `nsInitialize` on old
versions of the system and open one of their own on later ones. When the interface
could not be opened the code goes on with the uninitialized `Service` on its stack,
which may be anything: closed, the shared one, or that of another thread.

## 3. What is checked

| Run | Instance | Shows |
|---|---|---|
| `ld` | 4 modules, list of none to 3, calls nested to depth 2, 2 lifetimes, all failures and refusals | order of initialization and of teardown, leaks, session balance, bindings, causes of memory errors, refinement of `LinkMap` |
| `ld_live` | 3 modules, depth 2, no failures | every call returns or faults |
| `module` | all dynamic sections of up to 4 entries and three hash tables of five symbols, each chained in another way; all RELR tables of up to 4 entries, all pairs of symbolic entries, both formats, 3 attempts | the fields are those of the section; a search finds the first definition; bitmaps are decoded as the format means; the final image is right for RELA and for REL without retry |
| `relocation_rel` | the relocation half of it | *violated*: REL tables after a retry |
| `guard` | 3 users who exit what they initialized | open sessions, agreement of count and session, refinement of `SharedSession`, everyone who waits gets the mutex |
| `threads` | main thread and 3 workers, list of 3, one lifetime | a thread that runs is listed once and finds itself, until insertions overlap or `symExit` begins; a NULL log function is only called by a thread that had tested it before it was unset; `symExit` leaves no thread running but one that slipped through |
| `threads_exit` | main thread and 2 workers, list of 2, two lifetimes, stubs | the same of `symExit` in a second lifetime; only a paused thread keeps the log mutex |
| `oss` | the 5 NROs, module list of 10, thread list of 3, 5 calls of `ossInitialize`, 3 symbols | buffers, live pointers, meaning of success, causes of faults |
| `oss_again` | the same | *violated*: a second `ossInitialize` after `ossExit` |
| `sync` | 2 threads, 2 mutexes in any memory; 2 threads, one event, one timer, 2 starts of 2 spans, 5 ticks | one owner per mutex, refinement of `NnMutex`, waiters are served; no more returns than starts of a timer, but for those overtaken; exact conversion |
| `events_span` | the events alone, 3 spans, 7 ticks | *violated*: a one-shot timer waits its span |
| `ipcext` | 6 places, 3 languages, 2 icon sizes; 2 threads of amssu with 4 handles; 2 callers of ns on 3 versions | handles, outputs, sessions; every call of ncm returns |

Bounds of the registry. Four allocations in a list of at most three entries reach
the limit of the list, a load that fails, and a second lifetime with a list smaller
than the stale count. Depth two is one callback that calls the library; deeper
nesting repeats the same overtaking with one more frame, and the proofs do not
bound it. The image `a` can only be resolved once `b` is there, both define `s1`, and
`bad` is rejected after it is mapped, and `raw` has no hash table: so a failed resolution and its retry, a
doubly defined name, a half-done load and a search without a table all occur. Allocations are
interchangeable and are a symmetry set, except in the liveness run.

Bounds of the threads. Three workers on a list of three places fill it and go one
beyond (the main thread has the first), and two of them can insert at a time while
the third walks. With two workers one can create the other while `symExit` walks
towards both, and the second lifetime starts on what the first left above the count.

Bounds of the loader. `Nros` and `MaxModules` are those of the code. Five calls of
`ossInitialize` are two lifetimes of five NROs each, which fill the module list, with
room for a failure in each of them. The thread list is shortened from ten to three,
which three retries fill.

Bounds of the others. Two threads on one mutex contend and the second mutex is
another kind in the same state; depth two takes a recursive mutex twice. With two threads
both can start the timer at once, both can wait for it, or one can take the tick that the
other is about to set; the proof of `OneWakePerStart` holds for any number. Five ticks of
rate 2 to 5 nanoseconds reach `Wrap` and go beyond it. Four handles let each of two
threads set up twice. Three languages have the one asked for before, at and after
the default, and `Languages` itself stands for a value out of range.

Deadlock is checked for the registry, the guard and the loader, and in `events_span`. In `module` and
`relocation_rel` it is off: the walk is over when the module is resolved, rejected,
or at the bound on attempts. In `ipcext` the bounds on handles and calls end the
behavior. In `sync` it is off because two threads can each hold the mutex the
other waits for. In the thread runs it is off because the program really may
stop: a log line waits for ever for a mutex whose holder `symExit` has paused.

**Fairness.** `ld_live` assumes that the library keeps running (weak fairness of
its steps) and that every callback returns. A callback that is called while
another call of the library is in progress returns only when its own nested
calls have returned, so its return is enabled and disabled again: hence strong
fairness, one depth at a time. Nothing is assumed of clients: they need never
call. `guard` assumes that the holder of the mutex keeps running (IPC calls
answer) and that a mutex that becomes free again and again reaches each user that
waits for it (strong fairness of its lock): the unlock of a libnx mutex that others
wait for is a system call that hands it to the first of them, in the order they came if
their priorities are equal, so that none waits while it goes round the others for ever. `threads_exit` assumes that a thread that is not paused keeps
running inside the wrappers, and nothing about the code of the modules. `sync`
asks the same of the mutexes of the modules, strong fairness of the return of each
waiter; and the property assumes that the holders keep giving the lock back. `ipcext` assumes that IPC calls answer.

### Findings

* `relocation_rel` shows a module with a REL table that is looked up before its
  provider is loaded: the failed resolution keeps what it wrote, the next lookup
  adds the addresses again, and the module becomes `Resolved` with wrong words
  (`ld.c`, 445 and 491, against line 15 of the README of libnx-ld). NROs of the
  browser applets use RELA tables, which are stored and not added; the `module` run
  shows that those are right after any number of retries.
* `oss_again` shows an `ossInitialize` that fails though nothing under it does:
  `ldExit` keeps `g_ModuleCount`, so the five NROs of the second lifetime find no
  room (`ld.c`, 687-697 and 703-705, against `main.cpp`, 467, of the example).
* `events_span` shows a wait for a one-shot timer event that returns before its
  span is over: the span is stored as an absolute tick (`sym-impl.c`, 722-738).

Every property has a mutant in `PROJECT.json`: a changed definition, next to the
one it replaces, with which the property fails. Mutants are named for the mistake
(`MoreModulesOffByOne`, `KeepCount`, `SizesSwapped`) and used nowhere else.

## 4. What is proved

For every value of the constants, from the assumptions named in the modules
(finitely many allocations or workers, `NULL` not one of them, positive bounds,
the rates of the clock within the word):

* `LdProofs`: all the properties of the `ld` run, and besides them the type,
  `ListedIsBacked`, `CountIsLoads`, `UseAfterFreeNeedsNesting` and `InitializedInOrder` (which holds of `LinkMap`
  already), which no run repeats. The argument is in layers.
  * `RegistryInv` is inductive: the type, `ListInv` (which modules are in the list,
    once each, below the count, in a listed state; what is released or unused is
    not there), initialization in order, `StackInv` (for every frame on the stack,
    not only the innermost, what its index and its module still mean) and the
    session balance. None of them is inductive alone: what holds when a callback
    returns rests on what every nested call preserved for the frame below it.
    `InitializedInOrder`, `ScannedAreInitialized`, `TeardownInLoadOrder` follow.
  * `UnloadInv` says that before anything is unloaded the list has no hole below the
    count, and that a memory error met then has one of the other two causes, which
    stay as they are after it; it gives `FaultHasCause`.
  * `RoInv` relates the list to what ldr:ro holds, and gives the two properties
    on leaks and backing, for any refusal of ldr:ro.
  * `BindInv` says that a binding leads to the first entry that exports the name, or
    to a released module. It speaks of the list alone (`Exporters`), so it survives
    every step that leaves the list; loading adds behind the first entry, and
    disposal either takes the provider or leaves it first. That a search in an
    initialized library meets just these entries, and that a set of places has a
    first one (well-foundedness of `Nat`), relate it to `LiveBindingIsFirst`.
  * `LdImplementsLinkMap` needs no more than `RegistryInv`: it has one lemma for each
    step of `LinkMap` and one for the actions that are no step.
  * `FlatInv` is the special case of one frame, for `UseAfterFreeNeedsNesting`.
    `CountIsLoads` is a counting argument on finite sets.
* `LinkMapProofs`: what `LinkMap` promises, stated as properties of it and proved
  together, because a binding stays the first one only in an order that stays:
  one order of the modules, initialization in that order,
  bindings to the first module that exports the name, the program before every
  module. Through the refinement these are promises of `Ld`: `LdMainIsFirst`
  instantiates `LinkMapProofs` under the mapping, and is proved by reading the property
  of `LinkMap` back in terms of the table.
* `LdModuleProofs`, about `LdDynamic`: what the two loops compute, for every section and
  every table of symbols. An induction over the data is not needed, since the loop is
  the induction: `ParseInv` says that after `n` entries the fields are those of the
  first `n` (`TakenFrom`), and the last entry with a tag among the first `n` (`LastIn`) is
  either the last entry or the last among those before it. The union of `DT_REL` and
  `DT_RELA` needs the last of both at once, and `rel_plt` is only stored at the end.
  Of the search, `Ahead` says that the symbol it is at is in the chain of the bucket of
  the name, at a place not behind that of any it wants, and that none is wanted when the
  chain has ended. That a table chains by `place` is what `HashTableAssumption` says of
  the arrays, and all that the proof uses of them: it holds for chains in any order.
* `LdModuleProofs`, about `LdRelocation`: the invariants about relocation, for every image, word
  size, bitmap width and set of tables that name each word once (`WellFormed`,
  which is what a linker emits and the code takes for granted). `RelocInv` says for
  each phase what the entries behind the walk have done and that those ahead of it
  have done nothing. In the RELR loop it says where the running pointer stands:
  after the last even entry and the bitmaps since (`PointerInv`), which is why a
  step writes just the words that the closed form `RelrAt` assigns to its entry.
  After the load it says that words without a symbolic entry are never touched
  again, and that in a first resolution the words ahead still hold their initial
  value, which a REL entry adds to.
* `ServiceGuardProofs`: type, mutual exclusion, agreement of count and session,
  for any users and any exits, balanced or not; with `Balanced`, open sessions and
  the refinement of `SharedSession`. The invariant counts: `refCount` is the number
  of holders plus the one in the middle of its Initialize, less the one in its Exit.
* `SymThreadsProofs`: every safety property of the thread runs, for any number of
  workers, places and lifetimes. `SymInv` says where the insertion under way stands
  (`InsertInv`: the count has or has not been stored, the entry has or has not),
  that a thread that may run has a place which nobody is about to write to and
  which `symExit` has not walked past (`PlaceInv`), and before the first `symExit`
  that the list has no hole but at that insertion (`FirstInv`). `StopInv`
  says what `symExit` has done to the entry it is at: a thread it goes to close does
  not run, unless a start slipped in, and none that is closed ever does.
  `NoneRunsAfterExit` rests on both, and on the order of places: a worker that inserts
  has a place below the one it writes to, so `symExit` reaches it, or what it inserts,
  before the end. `NullLogNeedsReset` rests on who holds the log mutex.
* `OssProofs`: the five invariants of the `oss` run, for any numbers of NROs,
  entries and calls. `Inv` relates the count to the list: in the first lifetime the
  count is one more than the modules, the modules are a prefix of the table for
  each attempt, and the thread list holds one entry for each attempt.
* `SymSyncProofs`, about `SymMutex`: `WaitsForAHolder`, `AnswerGuardsRelock` (a thread that locks when
  `IsMutexLockedByCurrentThread` answers false is not kept by itself) and that
  `SymMutex` implements `NnMutex`, step by step, with the invariant that the lock not
  in use is never read.
* `SymSyncProofs`, about `SymEvents`: `OneWakePerStart` (the returns so far, the armed timer and
  the threads that are about to arm it with a span of 0 are no more than the starts and
  those overtaken, by counting on finite sets), and `TimeSpanIsExact` from division with remainder.
* `IpcExtProofs`: the seven invariants of the `ipcext` run, for any numbers of
  threads, places, languages and sessions. For `AmsSu` the invariant says, for each
  phase of a setup, where the handle is; for `NcmExt`, which handles each step
  holds; for `NsExt`, that the sessions of different callers are different.

Liveness is only model-checked: `CallsReturn`, `EveryoneGetsIn`, `LogMutexReleased`,
`WaitersAreServed` and `EveryCallReturns`, since fairness and `ENABLED` are outside what
TLAPS proves here. What the code has to do with it is proved as an action property,
for every value of the constants, so that what is left to the run is that the fair
actions are enabled and the temporal rule:

| Liveness | Proved about it |
|---|---|
| `CallsReturn` (`Ld`) | `LdCallsAdvance`: what the library does, or the return of a callback, ends the innermost call or lowers its rank (at most `2 * MaxSlots + 1`), and calls from callbacks only add a frame on top; `LdCanGoOn`: a call that does not wait for a callback is never at a place where no step applies. A client that calls again from each callback keeps a call from returning, which the bound on the depth and the strong fairness of callbacks exclude in the run |
| `EveryCallReturns` (`NcmExt`) | `NcmCallsEnd`: each request lowers the number of those still to send, which begins at `3 * Languages + 6 * Probes + 8` at most, although each place starts its queries over and a missing icon starts over with the first language |
| `LogMutexReleased` (`SymThreads`) | `ThreadsLogHeldInside`: the holder is inside `extLogf`, where it has a step unless `symExit` has paused it; `ThreadsHolderMovesOn`: that step is forward, and no other thread's takes the mutex or moves the holder. It holds after overlapping insertions too, for which `OneCreator` says that each thread being created has one creator |
| `EveryoneGetsIn` (`ServiceGuard`) | `GuardHolderMovesOn`: whoever is inside is out after at most three of its own steps, whatever fails |
| `WaitersAreServed` (`SymMutex`) | `MutexWaitsForAHolder`: a waiter is kept by a thread that can release the lock it waits for, never by what was in the memory |

## 5. What is not modelled, and the plan

Not modelled:

* the table of C symbols (`sym-std.c`) and the assembly of setjmp: no state;
* the declarations of the WKC and JSC interfaces (`webkit.hpp`, `wkc-types.h`): types
  of functions that live in the browser's modules;
* es and bpc:ams beyond their guard: single requests that keep nothing;
* what commands marshal, and what log lines say;
* the path of an NRO by system version, names and priorities of threads;
* the example programs, but for what `main.cpp` says of `ossInitialize`.

Left to do: what `ThreadsNoneRunsAfterExit` excludes, two insertions at a time, could
be split by which of the two stores is lost. `Oss` keeps two counts of the registry
and the thread list and does not refine `LinkMap`: its `ossExit` is one step,
and it knows neither the phases nor the images of modules, so that a mapping would
have to invent what `Ld` already says. Its counts are tied to `Ld` by `CountIsLoads`.
