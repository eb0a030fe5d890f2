# SKYSDK in TLA+

SKYSDK is a C library for Linux: containers (list, map, hash), locks, shared
memory, time, strings, regular expressions, process and network queries behind
one handle type. This directory models the parts of it that keep state,
model-checks them with TLC, and proves with TLAPS every safety property that the
passing runs check: the invariants and action properties of all parts, and that
the containers and locks implement their abstract specifications. Liveness is
only model-checked.
File names without a directory are those of `src/sky/src/`.

## 1. The system

`sky_init` starts fourteen modules in order, `sky_uninit` stops them, and
`sky_close_handle` destroys an object by the type number at its start. Every
other function is called by the program's threads directly: the library has no
thread of its own, no callback except comparison and filter functions, and one
internal use of a container under a lock (the shared memory registry).

| component | state | operations | interacts with | modelled in |
|---|---|---|---|---|
| list `sky_list.c` | two sentinels, item nodes, chain of unused nodes, count, limit | create, destroy, push, pop, front, back, get_at, insert, remove, find, contain, clear | registry of shared memory | `SkyList` |
| map `sky_map.c` | two vectors of strings, count, filter | create, destroy, clone, add, addorupdate, delete, lookups | the caller's filter | `SkyMap` |
| hash `sky_hash.c` | a `hsearch_r` table, list of owned key copies | create, destroy, add, find | libc | `SkyHash` |
| shared memory `sky_ipc_shm.c` | handles; per process registry and its lock; the kernel's names and objects | create, open, get_buffer, size, destroy | list, critical section, other processes | `SkyShm` |
| critical section `sky_critical_section.c` | a recursive mutex | create, destroy, enter, leave, try | shared memory | `SkyCriticalSection` |
| lock `sky_rwlock.c` | named: a file in /tmp and a descriptor; anonymous: a `pthread_rwlock_t` | create, open, destroy, rdlock, wrlock, unlock | tick clock, wall clock, other processes | `SkyRwlock`, `SkyAnonRwlock` |
| start `sky.c` | `init_count`, two tables of functions | init, uninit | every module | `SkyInit` |
| handles `sky.c` | none | close_handle | every kind of object | `SkyHandle` |
| process `sky_process.c` | an flock-ed pid file, background flag | is_first_instance, daemon, environment | other processes | `SkyProcess` |
| regex `sky_regex.c` | compiled expression, list of substrings | create, destroy, match, parse | libc | `SkyRegex` |
| time and system `sky_sys.c` | none | tick clock, sleep, deadlines, calendar conversions, program path | lock | `SkyRwlock`, `SkyAnonRwlock`, `SkyTime`, `SkySysPath` |
| base64 and DES `sky_base64.c` | the decoding table | encode, decode | libc | `SkyBase64` |
| strings `sky_str.c` | none | hexadecimal, wrappers of libc | all | `SkyHex` |
| network `sky_local_socket.c` | none that lasts | ioctl queries, netlink request and reply, raw UDP | kernel | `SkyLocalSocket` |
| memory, log, dll | a log level and file | wrappers of libc | all | |

What is hard here:

* **Shared memory, locks and instance files are shared by processes that may die
  at any moment**; names and files outlast them, handles do not. Creating, sizing
  and mapping an object are separate system calls, and so is every step of a
  failure path. An flock belongs to the open file, which a fork or a started
  program inherits.
* **Threads** meet in the shared memory registry, in critical sections and locks,
  on the descriptors of the process, and on one handle when the program lets them.
* **Allocation may fail anywhere**, and map, list, hash and regex undo what they
  had done, or lose it.
* **Time**: the timed lock polls a 32-bit clock that wraps, or waits for a time of
  a wall clock that anybody may set.
* **Long sequences of calls**: the list moves nodes between the list, the unused
  chain and the heap; the map's vectors can be longer than their count; starts,
  failed starts and stops of the library.

What makes each component correct: the list is a bounded sequence and never
loses or reuses a node wrongly; the map is a map, owns each string once, and a
failed call changes no pair; so is the hash table, with room for what was asked
for; a shared memory handle is taken down once, its name removed by its creator
only, and never mapped before it is sized; a write lock excludes every other
holder, a timed call returns in time and neither takes nor loses a lock by timing
out; a thread is inside a critical section exactly as deep as it counts; whoever
was told that the library runs finds it running; one instance of a named program
runs at a time; a search ends and, for the expressions regexec and Python read
alike, finds what `re.findall` finds; the gateway is read from the whole routing
table; every conversion of text is undone by its inverse, and a date by as much as
it fails to say.

`PROJECT.json` lists the hazards line by line, with the properties that cover
them.

## 2. The modules

| module | what it is |
|---|---|
| `SkyListSpec` | abstract: a bounded sequence with an allocator that may fail |
| `SkyList` | `sky_list.c`, pointer by pointer; implements `SkyListSpec` |
| `SkyListProofs` | the proofs about `SkyList` |
| `SkyShm` | `sky_ipc_shm.c` with its registry and lock, and the kernel's objects |
| `SkyShmProofs` | the proofs about `SkyShm` |
| `SkyRwlockSpec` | abstract: clients that hold locks as readers or as the writer |
| `SkyRwlock` | the named locks of `sky_rwlock.c`, flock, and the tick clock of `sky_sys.c`; implements `SkyRwlockSpec` |
| `SkyRwlockProofs` | the proofs about `SkyRwlock` |
| `SkyAnonRwlock` | the anonymous lock and the deadlines of `sky_sys.c`; implements `SkyRwlockSpec` |
| `SkyCriticalSection` | `sky_critical_section.c`; implements `SkyRwlockSpec` |
| `SkyCriticalSectionProofs` | the proofs about `SkyCriticalSection` |
| `SkyMapSpec` | abstract: handles that are maps with an optional filter |
| `SkyMap` | `sky_map.c`, allocation by allocation; implements `SkyMapSpec` |
| `SkyMapProofs` | the proofs about `SkyMap` |
| `SkyHashSpec` | abstract: a map from keys to values that may refuse a new key |
| `SkyHash` | `sky_hash.c` over the table of hcreate_r(3); implements `SkyHashSpec` |
| `SkyInit` | `sky_init` and `sky_uninit` of `sky.c`, function by function |
| `SkyHandle` | `sky_close_handle` of `sky.c` |
| `SkyProcess` | the instance lock and the way into the background of `sky_process.c` |
| `SkyProcessProofs` | the proofs about `SkyProcess` |
| `SkyRegex` | `sky_regex.c` over an abstract regexec(3), with `re.findall` beside it |
| `SkyLocalSocket` | the descriptors and the netlink exchange of `sky_local_socket.c` |
| `SkyBase64`, `SkyHex` | the text conversions of `sky_base64.c` and `sky_str.c` |
| `SkyTime`, `SkySysPath` | calendar conversions and the program's path, `sky_sys.c` |
| `MCSkyList`, `MCSkyShm`, `MCSkyRwlock`, `MCSkyMap`, `MCSkyTime`, `MCSkyHandle` | instances of one module |
| `MCSkyIpc` | the timed named locks and the registry of shared memory, side by side: what a thread has to get out of again |
| `MCSkyCalls` | the critical section, the anonymous lock, regex, local sockets, and start and stop, side by side |
| `SkyCallsProofs` | the proofs about the parts of `MCSkyCalls`, and that they are parts; those of the critical section come from `SkyCriticalSectionProofs` |
| `MCSkyData` | process, hash, text, time and path, side by side |
| `SkyDataProofs` | the proofs about the parts of `MCSkyData`, and that they are parts; those of the instance lock come from `SkyProcessProofs` |

The parts of `MCSkyIpc`, `MCSkyCalls` and `MCSkyData` share nothing. A behaviour runs one of
them, the variable `part`, so that the states are the sum of the parts' states and
not their product, and a property speaks of every part it names. Components that
do meet are modelled together: the registry of shared memory is a list in a
critical section (`SkyShm`), the timed lock reads the tick clock (`SkyRwlock`),
the anonymous one the wall clock (`SkyAnonRwlock`).

Each action carries the name of the function it models when it is the whole
function or its first step; later steps are named for what they do (`Mmap`,
`GrowValues`). `PROJECT.json` maps every definition to its lines.

### SkyList

Cells have `next`, `prev`, `data`; `head` and `tail` are embedded in the handle;
`heap` is what the allocator has handed out. A loop takes one step per
iteration, everything else is one step, because the list has no lock and its
callers make one call at a time. Comparison functions are sets of accepted data.
`chain` and `spare` are history variables that record which cells form the list
and the unused chain, `nspare` the length of the latter, `at` the place of an
iterator, `leaked` what a failed create loses: `sky_list_create` frees the handle
and then reads `prealloc` out of it (line 66), so the nodes are freed or lost,
and both outcomes are modelled. `SKY_LIST_PREALLOC_NUM` is 0 in the build, the
instance uses 2 so that the pre-allocation is exercised.

### SkyShm

A thread's call is a sequence of system calls (`pc`), each of which may fail;
`ns` and `size` are the kernel's names and objects, `sm` the handle structures,
`list` and `cs` the registry and the thread inside its critical section. A call
that fails before it has a descriptor changes nothing and is no action.
`Exit` ends a process at any point, `sky_share_memory_uninit` drops the registry
with handles open. A close may be of any handle the process was ever given, so
double closes and reused addresses happen. A close is modelled from the destroy
function on, which looks the handle up in the registry before it touches it; but
through `sky_close_handle` (sky.c:127) the type has been read from the structure by
then, so a second close has already read memory that was freed, and what it does
depends on what it finds there: `TeardownExclusive` is about the case that the type
is still that of shared memory. Not modelled: the failure of
formatting the name, which would close descriptor 0; `get_buffer` and `size`,
which only read the caller's own handle.

`robbed` marks a creator whose name was removed by a failing open, and
`abandoned` an object whose creator ended without closing it; both only weaken
the invariants where the code does lose names.

### SkyRwlock

`dir` is the inode the lock's name refers to, `fd` the open handles, `flock` the
kernel's lock of each. One name suffices: names share nothing. A conversion gives
the old lock up before it asks for the new one, as flock does. `belief` is what a
thread was granted and has not given back, `lost` where a refused conversion took
it away, `age` how long a timed call has lasted. `now` is `sky_systick_get`,
modulo `Modulus`, which spins at 0. A sleep may be cut short by a signal, a
blocking flock may return EINTR.

`SharedHandles` says whether threads use each other's handles: FALSE is one
thread per process, TRUE is threads of one process on one handle.

### SkyMap

The two vectors are sequences of block numbers, `str` the strings in the blocks.
Every `malloc` and `realloc` is a step that succeeds or fails; realloc may move a
block. A failed realloc to a smaller size leaves a vector longer than count. The
filter accepts the pairs in `Accepted`. `kept` is one pointer the caller got from
`sky_map_getvaluefromkey`. Destroying is `sky_map_destroy`; reached through
`sky_close_handle` (sky.c:127) it is never called, because a map does not start
with a type number.

### SkyAnonRwlock

Threads of one process share a `pthread_rwlock_t` that prefers readers, as
glibc's does by default. `deadline` is what `sky_abstime_after_msec` made of the
timeout, in seconds from the current one and milliseconds; `wall` is the clock's
fraction of a second, `SetClock` a clock that is set while calls wait. `age`,
`ahead` and `back` count how long a call has lasted and by how much the clock was
set, so that the promise of a timeout can be stated for a clock that jumps.

### SkyCriticalSection

`owner` and `count` are the recursive mutex. `enter` and `leave` answer nothing,
so `inside`, a thread's own count, is all a thread knows; the properties compare
the two. A thread leaves only what it entered: `leave` ignores a refusal of the
mutex, which changes nothing.

### SkyHash

The table of hcreate_r(3) holds pointers to keys; `heap` is what they point to,
so that a table entry whose key is the caller's memory can be told from one that
is a copy. An add has five outcomes: it updates, lacks memory for the node or the
string, meets a full table, or enters the key. It enters one only if two objects
are free; memory may run out earlier at any time. `FirstPrime` is the size glibc
gives a table; that there is one, which its search relies on, is assumed.

### SkyInit

One step is one function of a table. Two modules can fail to start (process and
shared memory, the latter at two places); `Rollback` walks `UNINIT_FUNCS` down
from the index of the failure, which is in the reverse order, so it stops other
modules than those that started. What saves the state is that only
`share_memory` keeps anything and its function closes what exists. Callers take
turns: `init_count` has no lock.

### SkyHandle

A close chooses by 16 bits of the object. A map's are bits of its `keys` pointer.

### SkyProcess

`files` are the open file descriptions of each process, `lock` the flock of each.
`daemon` is a fork, the parent's `_exit` and the child's detaching; a process may
end at any step, and may start other programs, which inherit the descriptors as
they are not opened with O_CLOEXEC. `told` records through which description a
process was told to be first.

### SkyRegex

An expression is what is found with it in one text. regexec finds the longest
match, if any, at each place, and what its groups match; it may find another one, or
none, where it is told that the text begins (`first`, against `at`), as it does
of ^, `\b` and `\B`, and every search after the first is told so of the end
of the last match. Python (`python`) takes the first of the alternatives, which may be
shorter, always knows the whole text, and after an empty match tries for another at
the same place. The model quantifies over all such expressions.

`Findall` is `re.findall` in full, with groups, tuples of groups and empty matches.
`ParseLikePython` says of every expression that the list is that of `Findall`, which is
what src/README.md:19-21 says and is false; `ReadAlike` says exactly what makes
it true, and of these expressions `ParseIsFindall` claims it.

regexec may also fail, for want of memory (REG_ESPACE), in any search: the code
takes it for the end of the matches. `complete` and `matched` say of which calls
nothing was cut short that way or by an allocation. A node and its string are two
memory objects; `lost` counts nodes whose string could not be had, which
`sky_regex_parse` drops.

### SkyLocalSocket

The kernel packs a routing table into datagrams in every way, or answers with an
error; the buffer cuts a datagram that does not fit. Other threads open and close
descriptors between any two steps. Netlink's reply carries the sequence number of
the request, which is one less than the number `read_nl_sock` compares it with,
so that only `NLMSG_DONE` ends the loop, and only where it is the first message of a
datagram. `DoneApart` says that the kernel sends it in a datagram of its own. A
kernel may put it behind the last routes instead, as newer ones do: `read_nl_sock`
then overlooks it and waits in recv for a datagram that never comes. The instance
has `DoneApart = TRUE`, so `CallsReturn` does not speak of such kernels;
`GatewayFound` is proved for them too.

### SkyBase64, SkyHex, SkyTime, SkySysPath

Round by round or call by call, over every input of a bounded size: characters
are indices into the encoding table, a hexadecimal text is digits, a date is its
fields, a path slashes and other characters. `SkySysPath` has a program that is
moved between the two calls.

`SkyTime` takes its calendar from the C library's definition. A zone is a number of
seconds west of Greenwich, as `timezone` is, of less than 25 hours, which is all
that TZ can say, and it may have a summer time. `Missed` is by how much a date
misses its moment when it is turned back into seconds: by nothing in UTC or for a
local date in winter, by an hour for a local date in summer, because the code
writes 0 to `dstflag` (sky_sys.c:202) and mktime believes it, and by the whole zone for
a date in UTC, because mktime takes it for local time (sky_sys.c:263).
`DateKeepsMoment` says that a date misses by exactly that.

### The source as it is

The committed sources do not compile: commas are missing in `sky.c` at 44 and 62,
line 48 has a full-width comma, and some names are declared as `*_unit`. The
models take the evident reading. `SKY_ASSERT` and `SKY_VALIDATE_HANDLE` are empty
in the default build, `sky_mem_alloc` is `calloc`.

## 3. What is checked

Bounds are in the cfg files. They are the smallest at which every action happens
and each property has a faulty variant that breaks it.

| run | instance | properties |
|---|---|---|
| `MCSkyList` | 3 nodes, 2 data values (one NULL), limits 1..3, 2 pre-allocated, indices 0..4 | `TypeOK`, `WellLinked`, `SparesLinked`, `HeapPartition`, `WalkOnList`, `HeapBound`, `ImplementsList`, `WalksEnd` |
| `MCSkyShm` | 2 threads of one process and 1 of another, 2 handles, 2 objects, 1 name, registries of 2 | `RegistryLive`, `TeardownExclusive`, `RegistryLocked`, `MappingBacked`, `CreatorKeepsName`, `NameOwned` |
| `MCSkyShmUnlink` | the same | `OnlyCreatorUnlinks`, which the code violates |
| `MCSkyRwlockNames` | 2 processes, 3 handles, 2 files, clock modulo 3, nap 1, timeout 1 | `CreatorKeepsFile`, `ImplementsLock` |
| `MCSkyIpc`, locks | 2 processes, 2 handles, 1 file, clock modulo 6, nap 1, timeout 2 | `HeldUntilReleased`, `TimeoutKept`, `CallsEnd` |
| `MCSkyIpc`, registry | 2 threads of 1 process, 2 handles, 1 object, a registry of 1 | `CallsEnd` |
| `MCSkyRwlockShared` | 2 threads, 1 handle | `PthreadExclusion`, which the code violates |
| `MCSkyMap` | 2 maps, 2 keys, 2 values, of which two maps have one between them, 5 strings at once, one pair rejected | `StringsOwned`, `VectorsSized`, `FilterHonoured`, `PointerKept`, `ImplementsMap` |
| `MCSkyCalls`, section | 3 threads, 4 nested sections | `BeliefIsMutex`, `ImplementsLock`, `CallsReturn` |
| `MCSkyCalls`, rwlock | 2 threads, a second of 3 ms, a timeout of 4, the clock set once by 5 ms either way | `RwlockImplementsLock`, `RwlockKeepsTime`, `CallsReturn` |
| `MCSkyCalls`, regex | every expression with at most one group on 2 characters, whether or not it matters where a text begins; 6 memory objects, at most 2 pieces of a match | `ParseIsFindall`, `NothingLeaks`, `CallsReturn` |
| `MCSkyCalls`, socket | 3 descriptors, up to 3 routes, a buffer of two and a half | `NothingLeaks`, `GatewayFound`, `CallsReturn` |
| `MCSkyCalls`, library | up to 3 starts that count, 2 stops too many | `LibraryRuns` |
| `MCSkyData`, process | 4 processes, 3 open files, 2 descriptors each | `InstanceLock` |
| `MCSkyData`, hash | 4 keys, 2 values, sizes 1, 2 and 7 modulo 8, rooms of 3 | `HashIsMap` |
| `MCSkyData`, base64 and hex | up to 6 octets from 3 and up to 3 octets from 5 | `TextInverts` |
| `MCSkyData`, time | 5 moments from 1970 to 2038, 4 time zones, one with a summer time | `DateKeepsMoment` |
| `MCSkyData`, file | every path of up to 5 characters, a buffer of 4, callers' buffers of 1, 2 and 4 | `HalvesJoin` |
| `MCSkyRegex` | every expression without groups on 2 characters | `ParseLikePython`, which the code violates |
| `MCSkyTime` | a January and a July in Berlin | `DstflagTells`, which the code violates |
| `MCSkyHandleMap` | 2 objects of any kind | `MapClosed`, which the code violates |

Type invariants: `MCSkyList` checks one of its own; elsewhere it is the first
conjunct of `RegistryLive`, `TimeoutKept`, `VectorsSized` and of the properties of
the parts.

`OneMapOrValue` keeps `MCSkyMap` small: states in which two maps exist, or a clone is
being made, have one of the values only. The second value is for updates and the
filter, which are about one map; what two maps are for, a clone, copies a value
without a look at it. It is the only state constraint, and no liveness is checked
under it.

Why the bounds are enough. List: with three nodes a list has a first, a middle
and a last item and can be full, empty and out of memory; indices reach past the
end. Shared memory: two threads are every pair of calls that can meet in the
registry while a third, in another process, meets both at the name; two objects are a
name that is removed and created again, and two handles of two processes a creator
and an opener; the registry of one in `MCSkyIpc` is full at once. Locks:
three handles are a writer, one that waits and one on a newer file of the same
name. Clock: modulo 6 with a timeout of 2 wraps inside many calls, and a timed
call tries three times; a timeout of 4 ms in seconds of 3 carries from every
fraction but one, and a jump of 5 is more than the timeout. Map: two keys have a
first and a last pair; five strings are two pairs and the string in the making, or
a clone that runs out of memory after any number of copies; a clone of two pairs is
therefore never completed, one of one pair is, and the copying of a second pair is what
the failures after the first one show. Expressions: two characters are a search at the
beginning, one behind a match, and one at the end. Processes: four are a first
instance, its background child, a program it started and a rival. Hash: four keys
are one more than the smallest table takes, and 7 + 1 wraps modulo 8. Text: six
octets are two groups of three with every remainder. Dates: the first second of
1970, a leap day of a year divisible by 400, the last second of a leap year, a
July, and a moment just below 2^31. Zones: Greenwich, one east of it with a summer
time, UTC+14, and one of 59 seconds, which is no minute.

A call is one of several: neither the maximum size of a registry (1000) nor 2^32
is special to the code except as the limit that the constants stand for.

Deadlock is checked everywhere. The counters are bounded by the constants, and `age`
stops counting at `AgeBound`, or at the latest moment a sleeper is woken.

Symmetry is used in `MCSkyShm` (objects, handles and the threads of one process),
`MCSkyRwlockNames` (threads, handles and files), `MCSkyMap` (maps) and `MCSkyData`
(processes and open files), which check safety only.

### Fairness

* `MCSkyList`: a call in progress continues (weak fairness of `Step`). It is a
  loop in the caller's thread.
* `MCSkyIpc`, registry: each thread inside a call keeps running. Weak fairness
  suffices for `CallsEnd`, as nothing blocks inside the critical section; that a
  thread gets the section is not claimed.
* `MCSkyIpc`, locks, and `SkyAnonRwlock`: time passes (`Tick`), and each thread that
  can run runs. `Tick` waits for a call that is `Slack` late, never for anything another
  thread could keep doing.
* `SkyCriticalSection`: a thread that can enter enters, weakly: a thread that waits
  for another one may wait for ever, one that is inside already may not.
* `SkyRegex`, `SkyLocalSocket`: a call in progress continues, and `recv` returns
  when a datagram is there. An interrupted `recv` is not fair, it need not happen.

### Findings

* **A failing open unlinks a name it does not own** (`MCSkyShmUnlink`,
  sky_ipc_shm.c:280). The counterexample: a process creates an object; before it has
  called ftruncate another opens the name, sees size 0, mmap fails, and the failure
  path unlinks. The creator goes on with an object nobody can open.
  `CreatorKeepsName` shows that this is the only way a living creator loses its
  name.
* **A named lock does not exclude threads that share its handle**
  (`MCSkyRwlockShared`, sky_rwlock.c:174), while src/README.md:23 describes a
  pthread_rwlock.
* **A parse is not `re.findall`** (`MCSkyRegex`, sky_regex.c:137), with which
  src/README.md:19-21 compares it. In the counterexample parse takes the end of a
  match for the beginning of a text, so that it misses what is found only behind
  one: for `\Bb|a` in `ab` it lists `a`, Python `a` and `b`. For `^a` in `aa` it
  lists too much. The lists differ as well for an expression with groups, which
  parse adds to the whole match, and for one whose first alternative is not the
  longest, as `a|ab` (`MaxGroups` and `ShorterFirst`). `ParseIsFindall` shows that
  nothing else goes wrong without empty matches.
* **A date in summer does not say so** (`MCSkyTime`, sky_sys.c:202), while
  sky_sys.h:49-52 has `dstflag` positive then. What comes of it is in
  `DateKeepsMoment`: turned back into seconds, such a date is an hour late, and no
  other local date is wrong.
* **A map that is closed is not destroyed** (`MCSkyHandleMap`, sky.c:127):
  `sky_close_handle` reads the type from the first bytes of the object, where a map
  has a pointer. An empty map leaks; another is destroyed as whatever kind its
  address names.

What the models show besides:

* An expression with an empty match makes `sky_regex_match` and `sky_regex_parse`
  loop for ever (sky_regex.c:113): `EmptyMatch = TRUE` breaks `CallsReturn`. This too
  is not what `re.findall` does, which goes on behind an empty match.
* `read_nl_sock` waits for ever when the kernel sends `NLMSG_DONE` in the last
  datagram of routes (sky_local_socket.c:297): `DoneApart = FALSE` breaks
  `CallsReturn`.
* A second close of a shared memory handle reads its type from memory that was
  freed (sky.c:127), before the registry is asked.
* A default gateway is looked for with strstr of "0.0.0.0", which a route to
  10.0.0.0 contains (sky_local_socket.c:389): `GatewayFound` leaves such routes
  out.
* `sky_if_get_ip` and its like take descriptor 0 for a failure of `socket`
  (sky_local_socket.c:148). The descriptor is lost: the run has a program that
  keeps 0 open (`StdinOpen`).
* A date of `sky_time_get_gmtime` given to `sky_time_from_sys_time` becomes
  another moment outside Greenwich, as mktime takes it for local time
  (sky_sys.c:263). `DateKeepsMoment` says which; no document says that it does not.
* The second `sky_process_is_first_instance` of the first instance itself is
  answered with no, and each call leaves a descriptor open.
* A timeout of a named lock within a nap of 2^32 ms can be jumped over by the
  elapsed time (`RwlockAssumption` leaves it out), and a writer that polls can be
  starved by readers that overlap: only the return of the call is claimed.

### Faulty variants

Definitions no action uses state a plausible mistake; each breaks a property
when it takes the place of the definition after it.

| property | variant | in place of |
|---|---|---|
| list `TypeOK` | `UnlinkPutsBackNext` | `Unlink` |
| `WellLinked` | `LinkWithoutBackLink` | `Link` |
| `SparesLinked` | `UnlinkKeepsNext` | `Unlink` |
| `HeapPartition` | `DestroyForgetsUnused` | `DestroyItems` |
| `WalkOnList` | `GetAtOffByOne` | `sky_list_get_at` |
| `HeapBound` | `TakeItemIgnoresUnused` | `TakeItem` |
| `ImplementsList` | `ClearLeavesTail` | `ClearDone` |
| `WalksEnd` | `SeekStaysOnNull` | `SeekNext` |
| `RegistryLive` | `RemoveOnlyFinds` | `Remove` |
| `TeardownExclusive` | `RemoveUnchecked` | `Remove` |
| `RegistryLocked` | `EnterUnlocked` | `Enter` |
| `MappingBacked` | `MmapAnyLength` | `Mmap` |
| `CreatorKeepsName` | `CreateWithoutExcl` | `sky_share_memory_create` |
| `NameOwned` | `UnmapLeavesName` | `Unmap` |
| named `ImplementsLock` | `TryFailureIgnored` | `TryFails` |
| `CreatorKeepsFile` | `OpenKeepsFileName` | `sky_rwlock_open` |
| `HeldUntilReleased` | `WakeAndClaim` | `Wake` |
| `TimeoutKept` | `DiffWithoutWrap` | `sky_systick_diff` |
| `CallsEnd` | `TryWithoutNB`, `LeaveOnlyOnSuccess` | `TryFails`, `Leave` |
| `VectorsSized` | `UndoKeepsKeys` | `GrowValues` |
| `FilterHonoured` | `UpdateUnfiltered` | `sky_map_addorupdate` |
| `PointerKept` | `DeleteMovesKeysOnly` | `sky_map_delete` |
| `StringsOwned` | `CloneForgetsKeys` | `CloneFails` |
| `ImplementsMap` | `CloneDropsFilter` | `CloneDone` |
| `BeliefIsMutex` | `LeaveAtOnce` | `sky_critical_section_leave` |
| section `ImplementsLock` | `TryAlways` | `sky_critical_section_try` |
| `RwlockImplementsLock` | `GrantedToReaders` | `Granted` |
| `RwlockKeepsTime` | `AbstimeWithoutCarry` | `sky_abstime_after_msec` |
| `ParseIsFindall` | `ParseSkipsByStart` | `ParseNext` |
| `NothingLeaks` | `BindFailsOpen`, `ParseKeepsList` | `BindFails`, `sky_regex_parse` |
| `GatewayFound` | `SeqAsSent` | `seq_num` |
| `CallsReturn` | `PlaceFromText` | `NextPlace` |
| `LibraryRuns` | `UninitOneEarly` | `sky_uninit` |
| `InstanceLock` | `DaemonClosesFiles` | `sky_process_set_run_in_background` |
| `HashIsMap` | `EnterCallersKey` | `AddEnters` |
| `TextInverts` | `PadsOnce` | `Pads` |
| `DateKeepsMoment` | `MonthFromOne` | `sys_time_to_tm_time` |
| `HalvesJoin` | `DirectoryWithSlash` | `sky_sys_get_process_directory` |

## 4. What is proved

Every theorem holds for every value of the constants that the module's assumption
allows; TLC evaluates that assumption on the instances above.

| module | theorem | what it says | from |
|---|---|---|---|
| `SkyListProofs` | `TypeCorrect`, `ListWellLinked`, `SparesWellLinked`, `WalksStayOnList`, `HeapAccounted`, `HeapBounded` | `TypeOK`; `WellLinked`; `SparesLinked`; `WalkOnList`; `HeapPartition`; `HeapBound` | `ListAssumption` |
| | `ListIsSequence` | `ImplementsList` | the same |
| `SkyShmProofs` | `TypesKept`, `RegistryWhole`, `HandlesTakenDownOnce`, `RegistryGuarded` | types; `RegistryLive`; `TeardownExclusive`; `RegistryLocked` | `ShmAssumption` |
| | `MappingsHaveMemory`, `NamesNotTaken`, `NamesHaveOwners` | `MappingBacked`; `CreatorKeepsName`; `NameOwned` | the same |
| `SkyRwlockProofs` | `CreatorHasName`, `TimedCallsEnd` | `CreatorKeepsFile`; `TimeoutKept` | `RwlockAssumption` |
| | `LocksKept`, `RwlockIsLock`, `WritersExclude` | `HeldUntilReleased`; `ImplementsLock`; that a writer is alone | the same and `~SharedHandles` |
| `SkyMapProofs` | `VectorsAreSized`, `StringsAreOwned`, `FilterIsHonoured`, `PointersStayGood` | `VectorsSized`; `StringsOwned`; `FilterHonoured`; `PointerKept` | `MapAssumption` |
| | `MapIsMap` | `ImplementsMap` | the same |
| `SkyCriticalSectionProofs` | `TypeCorrect`, `BeliefTrue`, `SectionIsLock` | types; `BeliefIsMutex`; `ImplementsLock` | `SectionAssumption` |
| `SkyProcessProofs` | `FirstInstanceAlone` | `InstanceLock` | `ProcessAssumption` |
| `SkyCallsProofs` | `TimeoutsKept`, `AnonIsLock` | `RwlockKeepsTime`; `RwlockImplementsLock` | `CallsAssumption` |
| | `ParseRight`, `GatewayRight`, `LibraryStarted` | `ParseIsFindall`; `GatewayFound`; `LibraryRuns` | the same |
| | `NoLeaks` | `NothingLeaks` | the same and `StdinOpen` |
| | `SectionGuards`, `SectionExcludes` | `BeliefIsMutex`; `ImplementsLock`, in the whole | `CallsAssumption` |
| `SkyDataProofs` | `InstanceAlone` | `InstanceLock`, in the whole | `DataAssumption` |
| | `TableIsMap`, `TextComesBack` | `HashIsMap`; `TextInverts` | the same |
| | `DateIsMoment`, `HalvesArePath` | `DateKeepsMoment`; `HalvesJoin` | the same |

**List.** `ListAssumption`: the sentinels are two cells that are no heap nodes,
NULL is no cell and may be stored as data, and the bounds are naturals. The
inductive invariant `Inv` is the conjunction of `TypeOK`, `WellLinked`,
`SparesLinked`, `WalkOnList` and `HeapPartition`. None of them is inductive alone:
that `Unlink` keeps the list linked needs to know that the node it removes is on
the list (`WalkOnList`) and on it only once (`WellLinked`); that it may be put in
front of the unused chain needs `HeapPartition`; and that an insertion has room
when its walk ends needs what `WalkOnList` says about count while a call is in
progress. The step lemmas follow the shape of the code: `LinkList` and
`UnlinkList` for the two pointer surgeries, `SparePush`, `TakeUnused` and
`DropFirst` for the unused chain and for clear and destroy, one step per action
above them. `HeapBound` needs a bound on the nodes that are unused while a create
or a clear is under way, and has its own invariant, `Bounded`, on top of `Inv`.

The refinement of `SkyListSpec` reads the items off `chain` and `data`. A call
takes effect where its loop ends, so the answer of a walk depends on the steps
before: `Answering` says that a search has passed nothing it looks for, so that
what it finds is the first such item, and NULL means that there is none.
`InsertAtIs`, `RemoveAtIs` and `EndsAre` are about the abstract sequences only,
`LinkInserts` and `UnlinkRemoves` tie the pointer surgeries to them; with these,
each step of the code is a step of the sequence or none.

**Shared memory.** `ShmAssumption`: every thread is of a process, None is
nothing else, the registry's bound is a natural. The invariant has two halves.
`RInv` is about handles. `RegistryLive` and `TeardownExclusive` need each other
and more: that a close which finds a handle in the registry is the only one to
find it depends on the lock (`Inside`), on a thread's handle being in no registry
once it is removed or until it is pushed (`Owners`), and on what is
pushed being open and mapped (`Built`). `Phases` says what a thread's place in
its call implies about its locals: a failed create or open takes the same last steps
as a destroy. `NInv` is about names: a step that
unlinks can be judged only with the creators that have not returned yet, so
`NamesKept` and `OneCreator` speak of `Creator`, and `Marks` says who has
`is_creator` set at each step of destroy. The code breaks `OnlyCreatorUnlinks`,
and the theorem is the exact rest: `NamesNotTaken` excepts `robbed` creators and no
others.

**Named lock.** `RwlockAssumption`: None is nothing else, the clock has at least two
readings, a nap takes time, and a timeout is shorter than one turn of the clock by
the nap and the delays. Three invariants, each with its theorem. `FInv`: a remove
takes the name from whoever has it, so `Removing` says that nobody does and that
one thread removes at a time; this needs no more than O_EXCL. `Times`: what a
call computes is a difference modulo the clock's range; `Clocked` says that it is
the time the call has run, which needs that a call ends before the clock has turned
once, which in turn is `Late`, the bound on the time at each point of the loop.
`HInv`: `HeldUntilReleased` becomes inductive with `Believers`, that only a
handle's opener believes in its lock, which is where `~SharedHandles` comes in;
`MCSkyRwlockShared` shows that without it the lock is none. In the refinement a
handle has what its opener believes in, but for what a refused conversion lost.
`WritersExclude` draws from it what a user wants to know: a step of `SkyRwlockSpec`
keeps `Promised`, so while one handle of a file has the write lock no other handle of
that file has anything.

**Map.** `MapAssumption`: NULL is no map, key, value, structure or content, and the
filter accepts pairs of keys and values. `Shape` says which arguments a call has
at each of its points and that each vector has room, the keys for one pair more
when the values are about to grow. `Once` and `Accounted` are `StringsOwned` by
slots; `Spared` is what every other proof takes from them: a step that
writes, frees or moves one slot's string leaves the strings of the others alone.
`Contents` is about pairs: `FilterHonoured` and `PointerKept` are decided several
allocations before the pair is there, so `Fresh` remembers that the key was not in the
map and the filter had accepted, `Copied` that a clone's copies spell what
they were copied from, and `WholePairs` that no key is there twice, without which
an update or a deletion would leave an old value to be found. `Stored` then says
which abstract map the pairs are, and each step is one of `SkyMapSpec` or `Quiet`.

**Critical section.** `SectionAssumption`: None is neither a thread nor the section,
the depth is a natural. The invariant is `TypeOK /\ BeliefIsMutex /\ Room /\
Closed`. That `BeliefIsMutex` is kept needs `count` and `owner` to agree, which
`TypeOK` says; that the count stays in its bound when a thread that waited gets in
needs `Room`, and that a create is no step of a lock somebody holds needs `Closed`.
Every step is then a step of `SkyRwlockSpec` or none: a first enter takes, a last
leave gives back, deeper ones change nothing.

**Process.** The invariant adds to the types that one open file description has
the lock (`LockAlone`), that whoever was told to be first still has that
description and its lock (`ToldHolds`), that the description a newcomer is about
to lock is in no other process (`Fresh`), that a program that has the lock was
told so (`HolderTold`), that a lock is held through some process (`LockHeld`), and
that what does not run has nothing (`Quiet`). `Fresh` is where the code matters:
between open and flock no fork happens in that process.

**The calls together.** `CallsAssumption` is the parts' assumptions and no more.
`StepOfParts` says that a step of `MCSkyCalls` is a step of one part and leaves the
others alone, `SpecOfParts` that each part therefore behaves as it does on its own;
neither needs the fairness of the whole. The theorems are about `CallsSpec`, the
specification that TLC checks.

*Anonymous lock.* `AnonAssumption`: None is neither a thread nor the lock, a
second has at least one millisecond, the timeouts are positive. What a call has
waited is in no variable of the code, only the time left until its deadline.
`LockAges` relates the two by what the clock was set, and `LockLate` says that the
time left falls below zero only as far as a sleeper is woken late or the clock was
set ahead; `AbstimeIsTimeout` is the arithmetic of `sky_abstime_after_msec` for
every length of a second. The rest (`LockExcludes`, `LockCalls`, `LockClosed`) is
what the refinement of `SkyRwlockSpec` needs.

*Regular expressions.* `RegexAssumption`: lengths, groups and memory are naturals,
the range of the counter and the pieces of a match at least one. `Findall` is a
recursive function over the places of the text, of which only its equation is used:
`Lists` says the same of a function from the place of a search to what parse lists
from there on. `ListExists` builds one from the end of the text on, with the least
place it can be built from (`Least`, from the well-foundedness of the naturals);
`ListsArePieces` goes by the last place that would have no list of pieces;
`FindallIsList` says that for an expression of `ReadAlike` `Findall` is the value of
one at 0. `Listing` is then inductive, for every expression: what parse has stored,
followed by the list from where it is, is the whole list. `Counting` is the same of
match, with the wrap of its counter (`ModAdds`). A search that regexec fails ends
both early, so what they say of a call that has returned is about `complete` and
`matched`, which are set where the search was `Exhausted`. With an empty match a
search gets `Stuck` in a place it never leaves: if the call returns at all it was
cut short, and nothing is claimed of its result. That calls do return without such
matches is what the run checks.

*Local sockets.* `LocalSocketAssumption`: descriptors, sizes and routes are naturals,
a route and the buffer have a size. `RestOf` says that a queue of datagrams is the
end of a table, cut anywhere. `DumpsAreRest` shows it of all that the kernel may send,
`FirstDatagram` that one `recv` leaves it true of the rest. `Receiving` is the
invariant: what is in the buffer and what is in the queue are together the table and
its end. It fails only when the kernel reports an error, and when the buffer is full,
where a message is cut; that no such call answers is why the invariant speaks of
`msg_len`. `DescriptorInv` gives the
descriptors of a call to the call that runs; that the code mistakes descriptor 0 for
a failure is where `StdinOpen` is needed, and without it the property is false.

*Start and stop.* `InitAssumption`: there is at least one user, and a limit to the
stops too many. `Counted` explains `init_count` by what the users were told; `Starting`,
`Stopping`, `RollingBack` and `Between` say which modules run at each place of each
loop. The proof uses three facts about the two tables: where the registry is in each,
that no module is twice in the first, and that the second is the first one
backwards but for `mem` (`Order`, `Distinct`, `Backwards`). A rollback
leaves other modules running than it should (sky.c:88), so nothing is
claimed of them after it, only that the registry is gone and that the next start
repairs the rest.

**The data together.** `DataAssumption` is the parts' assumptions and no more;
`DataStepOfParts` and `DataSpecOfParts` do for `MCSkyData` what their namesakes do
for `MCSkyCalls`.

*Hash table.* `HashAssumption`: the modulus and what is added to a size are
naturals, None is nothing else, and glibc's search for a prime ends. The invariant is
`TypeOK`, `KeysOwned`, `OneEach` (the entries' keys spell different keys) and `Roomy`
(the table has the room asked for modulo 2^32, and refused a key for want of room
only when it was full). `KeysOwned` counts: there are as many entries as nodes in the
list, and twice as many objects in use, so an entry and its copies enter together or
not at all. Every step is then one of `SkyHashSpec` or none.

*Base64.* `Base64Assumption`: octets are octets, and the length of a text fits a
`uint32_t`. The loops of the code run over the data, so the argument goes with them
and needs no induction over it: a round is a step. `Encoding` says that the
characters written so far are, in fours (`Four`), those of the octets read so far,
with zeros for octets that are not there; `Encoded64` that the finished text has a
pad exactly where a character has no bit of the data (`Beyond`, from
`base64_mod_table`); `Decoding` that the octets decoded so far are the data's, for a
pad is a zero and `output_length` cuts what is too much. `EncodeTriple` and
`DecodeTriple` are the arithmetic: a triple of octets is four sixes and back.
`EncodeIsBase64` defines the text by its bits; `FourIsBits` shows bit for bit that
the fours are that.

*Hexadecimal digits.* `Printed2` says that of what was printed for each octet the
first two digits are there, `ReadBack` that the octets read are made of the digits. A
negative char prints eight digits behind the end of the buffer, so the properties
speak of texts without one (`Plain`), whose octets are those two digits.

*Calendar.* `TimeAssumption`: the clock reads from 0 to 2^31 - 1 seconds, a zone is
less than 25 hours from Greenwich. The calendar's functions choose a year and a
month; that there is always one to choose is `YearExists` and `MonthExists`, for
every day of these 68 years: the year it would be in if all were leap years, or the
next. Then `DateOfMoment` says that the moment of the date of a moment is the
moment, and `DateKnown` is inductive: the caller's date is the one of the moment it
was asked for, or of the local time of that moment, and its `dstflag` is 0; the rest
is what mktime adds, which is `Missed`.

*Path.* `PathAssumption`: a path starts at the root, has no empty names and ends in a
file's. `LastSlash` (there is a last one in what readlink leaves), `HalvesOfPath` (what
is before and after it are the halves) and `FileInv`: each answer is a half of the
path, as long as nobody moved the program, and fits its buffer.

Only model-checked is liveness: `WalksEnd`, `CallsEnd` and `CallsReturn`. The prover
reasons about neither fairness nor ENABLED. The existence of a prime in
`HashAssumption` is assumed, and evaluated for the sizes of the instance.

What the proofs rest on besides is the model: where the code calls the C library or
the kernel, the theorems hold of what section 2 says of them.

`OnlyCreatorUnlinks`, `PthreadExclusion`, `ParseLikePython`, `DstflagTells` and `MapClosed`
are not proved because they are false of the code.

## 5. What is left

* Runs: a clone of two pairs that completes.
* The calls of `sky_str.c` and of DES, should they ever do more than hand their
  arguments to the C library.

## 6. Not modelled, and why

* `sky_debug.c` formats and writes log lines. `sky_mem.c` and `sky_dll.c` hand
  their arguments to the C library: memory is modelled where it is used, as an
  allocation that may fail, a library only as a kind of handle.
* `sky_str.c` besides the hexadecimal conversions: each function is one call of the
  C library.
* DES in `sky_base64.c` is `ecb_crypt` or `cbc_crypt` on a copied key.
* The queries of the host and of the environment in `sky_sys.c` and
  `sky_process.c` read a value of the system and keep nothing; `sky_time_set` is
  refused by the kernel and changes nothing.
* In `sky_local_socket.c` the contents of packets and addresses, and checksums.
* Functions the repository uses and does not define: `SKY_PATH_MAX`,
  `parse_routes`, `sky_inet_ntoa` and `sky_algorithm_inet_chksum`.
* Two threads in `sky_init` at once: `init_count` has no lock, and nothing in the
  library claims more than that callers take turns.
* Two threads in one call each on the same list, map, hash or regex: none of these
  has a lock, and their only shared use inside the library, the registry, has one.
