# Verification of MLN's native core

MLN runs Lua pages on Android and iOS. Its Android core is a Lua 5.2 VM with a JNI bridge
(`MLN-Android/mlncore`), a services layer above it (`MLN-Android/mlnservics`) and a
hot-reload client (`MLN-Android/HotReload`); iOS has its own kit and a copy of parts of the
native code. The modules here model the parts of the Android core whose behaviour depends on
more than one thread, on callbacks, or on the lifetime of objects shared between Lua, C and
Java. TLC checks them on small instances and TLAPS proves every invariant that the runs
check, and that the looper implements its abstract specification, for every instance.

Paths below are relative to `src/`; **A** is `MLN-Android/mlncore/src/main/jni/japi/`, **J** is
`MLN-Android/mlncore/src/main/java/org/luaj/vm2/`, **S** is
`MLN-Android/mlnservics/src/main/java/com/immomo/mls/` and **H** is
`MLN-Android/HotReload/src/main/java/com/immomo/luanative/`.

## Inventory

| Component | State | Operations | Interacts with | What is hard |
|---|---|---|---|---|
| Message looper (A`message_looper.c`) | per thread: `state`, list `head..tail`, recursive mutex, condition | `prepare_loop`, `post_message`, `post_quit`, `loop`/`poll_once`, destructor `_free_loop` | posted to by any thread holding the pointer; handlers and free functions are the poster's | posts against polls, wake-ups, quit ordering, ownership of each message's `ud`, destruction under a poster |
| Isolates (A`isolate.c`) | name -> isolate map behind a rwlock; per VM `__parentL`, `__children_L`, `__ICN`, the callback; thread arguments | `create`, `openGlobal`, `closeSelf`, `post`, `callback`, `registerCallback`, `children` | message looper (global isolates), Java Handler of the main VM, `Globals` VM table | pointers to isolates used after the lock, VMs that end while others post to them, who frees an argument |
| VM lifecycle (J`Globals.java`, A`luajapi.c`) | VM pointer -> Globals caches, `destroyed`, call state, GC clock | create, load, call, `destroy`, `post`, `__postCallback`, GC | everything; one thread per VM by convention | callbacks after destroy, two caches, destroy from native code |
| GNV: Lua values kept for Java (A`cache.c` 60-243, J`NLuaValue`) | registry table, pointer -> reference count | copy to the table, get, remove; asynchronous remove from finalizers | VM lifecycle, handler | counts against live handles, late removals, a VM that is gone |
| Userdata cache (J`UserdataCache`, `LuaUserdata`; A`juserdata.c`) | Java objects by id with Java and Lua references | put, get, `onUserdataGc`, recycle | Lua GC, Java GC | two collectors, resurrection |
| JNI class/method caches (A`cache.c`, A`jinfo.c`, A`jbridge.c`) | class and method tables, errors | find, cache, release | VM lifecycle | lifetime, sharing between VMs |
| Compiler and loaders (A`compiler.c`, A`assets_reader.c`, A`saes.c`) | files, magic numbers, saved bytecode | compile, load, save, pre-load | file system | partial writes |
| C collections (A`map.c`, A`list.c`, A`m_mem.c`, A`mempool.c`) | hash map, growing array, block pool | put/get/remove/iterate, alloc/free/compact | isolates, caches, argo | growth, removal while traversing, boundaries |
| argo data binding (A`argo/`) | observed tables, watchers, IPC tree | bind, watch, notify, close | VM lifecycle | re-entrancy of callbacks, removal while notifying |
| Statistics (A`statistics*.c`, `com/immomo/mlncore/Statistic`) | counters per bridge | record, report | - | - |
| Page instance (S`MLSInstance.java`) | script state, Globals, pre-download | load, init, resume, reload, destroy | VM lifecycle, hot reload | asynchronous loads against destroy |
| Hot reload services (S`HotReloadHelper.java`) and client (H) | connections, server, coder, callbacks | connect, read, write, reconnect, decode | page instance, sockets | reconnects, two transports, threads |
| lite request pipeline (S`lite/`) | Dispatcher queues, RealCall, Transmitter | enqueue, execute, cancel | thread pool | limits, cancellation against completion |
| Timers, events, executors (S`fun/ud/Timer`, `utils/event/EventCenter`, `utils/MainThreadExecutor`, `DefaultThreadAdapter`) | handlers, listener lists, pools | start/stop, register/notify | page instance | stale callbacks, changes while notifying |
| Views, adapters, layout (S`fun/`, S`utils/sparse`, S`util`) | Android view state | UI operations | page instance | rendering, not modelled |
| iOS kit and dev tool (`MLN-iOS`) | Objective-C counterparts | - | - | see below |

Correct means, component by component:

* **Message looper**: every accepted message is handled once in order or released once; a
  safe quit drains, an unsafe one abandons; nobody sleeps on work; posts return.
* **Isolates**: the name map only holds running isolates; every argument is freed exactly
  once whatever the outcome of a post; a callback goes to a live VM or the caller is told;
  the number of children is the number of running children.
* **VM lifecycle**: a pointer resolves to a VM exactly while it lives; nothing that was
  posted to a VM touches it after `destroy`.
* **GNV**: the count of a value is the number of Java handles that still need it; a handle
  that was not given back reaches its value; what nobody needs is released.
* **Userdata cache**: a block of Lua finds its Java object whatever the two collectors do;
  an object that neither side uses leaves the cache.
* **C collections**: a `Map` is a function, a `List` a sequence, an allocation of the pool
  belongs to one owner.
* **argo**: a change reaches every watcher that was there before and still is after it.
* **Page instance**: a script that finished loading late does not run on a page that is
  gone or shows something else.
* **Hot reload**: every message that was sent is delivered once, in order, over whichever
  transport is connected; `stop` ends the threads.
* **Timers**: `resume` finds the Task it runs; a timer that runs has its Task in the queue or
  in a call; its function is called as often as `repeatCount` says, and once more for each
  `pause` and `resume` in the last call. That nothing runs after `stop` is not what the code
  does: a Task of an earlier `start` may be left over (see the observations).

### How the parts interact

```
   Lua script ---- C library (isolate.c, jbridge.c, argo) ---- Java (Globals, LuaUserdata)
       |                     |                                      |
   Lua collector       message_looper.c                    main Handler, finalizer thread
       |                     |                                      |
       +------ GNV table, javaUserdata blocks ------ UserdataCache, NLuaValue handles
```

* `isolate.c` posts to a global isolate through its **message looper** and to the main VM
  through the `Handler` of its `Globals` (J`Globals.java:1653`). Both run messages one at a
  time on the receiver's thread.
* Java reaches tables and functions of Lua by handles (`LuaTable`, `LuaFunction`) whose key
  is the address of the value; the **GNV** table keeps the value alive and counts handles.
  Handles are given back on the main thread or, posted to the Handler, from the finalizer.
* Lua reaches Java objects by blocks (`struct javaUserdata`) that hold an id; the
  **userdata cache** keeps the object alive. The Lua collector calls into Java for each block
  it frees.
* A hot reload message reaches a page instance through callbacks on the main thread; a page
  instance owns one `Globals` and destroys it.

## The modules

| Module | What it is |
|---|---|
| `Mailbox` | abstract specification: what a message loop promises |
| `MessageLooper` | `message_looper.c`, list, lock, condition and destructor |
| `MessageLooperProps` | its invariants, action and liveness properties, the refinement of `Mailbox` |
| `MessageLooperProofs` | theorems about it |
| `Isolate` | `isolate.c` and what it uses of `Globals`, with each loop taken as a `Mailbox` |
| `IsolateProps` | its properties |
| `IsolateProofs` | theorems: who owns what, what the map of names holds |
| `IsolateOrderProofs` | theorems that need to know how far each thread is: faults, order, counts |
| `GNV` | the GNV table and the handles of Java |
| `GNVProps`, `GNVProofs` | its properties, and theorems about it |
| `UserdataCache` | the cache of userdata, their blocks, both collectors |
| `UserdataCacheProps`, `UserdataCacheProofs` | its properties, and theorems about it |
| `Timer` | the Lua `Timer` on the queue of the main thread |
| `TimerProps`, `TimerProofs` | its properties, and theorems about it |
| `HotReload` | the reload protocol of `HotReloadHelper`, its threads and the pages it reloads |
| `HotReloadProps`, `HotReloadProofs` | its properties, and theorems about it |
| `CList` | the list of A`list.c` with its gaps, as a record |
| `DataBind` | argo: bindings, watchers, the key tree, functions called inside assignments |
| `DataBindProps`, `DataBindProofs` | its properties, and theorems about it |
| `MC...` | one per component: what TLC instantiates; the `.cfg` files give the constants |

Every property of a passing run has a mutant in `PROJECT.json`: a definition next to the
one it replaces (`\* Mutant of ...`), changed the way a bug in that code would, under which
TLC finds the property violated.

### MessageLooper

One looper, its owner thread, and the threads that post to it. `next`, `tail`, `heap` are the
list in memory, node by node: `heap` says which nodes are allocated. `held` exists because
`loop()` has a return that keeps the lock. The history variables `accepted`, `handled` and
`released` are not in the program.

| Action | Code (A`message_looper.c`) |
|---|---|
| `PrepareLoop` | `prepare_loop` |
| `CallPost`, `CallQuit` | a thread enters `post_message` or `post_quit`; it may wait for the lock before the next step |
| `Post` | the critical section of `post_message`: refused and freed, or linked and signalled |
| `PostAfterFree` | the same, when the owner freed the looper while the caller waited |
| `LoopEnter`, `LoopTest` | the entry of `loop`, the test of `l->state` before each poll |
| `PollWait`, `SpuriousWakeup`, `PollTake` | `poll_once` |
| `HandleUser`, `HandleQuit` | the handler returns and `loop` frees the node |
| `ThreadExit`, `FreeNode`, `FreeReadsFreedNode`, `FreeLooper` | the thread-local destructor `_free_loop` |

A critical section is one action: `post_message` and `poll_once` hold the mutex from their
first to their last access of the looper. `MayCall` is the environment of the header's
example and of `isolate.c`: another thread may post while the looper exists, the owner before
`loop()` and from a handler. Each user message is posted once and has a `ud` of its own.

Left out: `save_ud_to_looper`, which nothing calls, and a failing `pthread_mutex_lock`.

### Isolate

The VMs are the main one, `Global` isolates with a loop, and `Once` isolates that run one
function. `registry` is the map of global isolates and `structs` says which of its `Isolate`
structs are allocated: `get_global_isolate` gives out pointers into the map. `pc` is where a
thread is in `in_thread`; `op` is a post between its lookup and its use of what it found.
`job` is what each copied argument was made for, `freed` counts how often each was freed.
`fault` names the undefined behaviour or crash that ended a behaviour; nothing runs after it.

| Action | Code (A`isolate.c` unless named) |
|---|---|
| `Create`, `OpenGlobal`, `CloseSelf`, `RegisterCallback`, `Callback` | the Lua functions of the same names |
| `PostLookup`, `PostSend` | `post_action`, before and after the read lock is released |
| `StartOnce`, `PostSave`, `EndOnce`, `PostRemove` | `in_thread` and `_inner_in_thread` of a once isolate |
| `StartGlobal`, `SaveGlobal`, `CloseGlobal` | the same of a global isolate, J`Globals.java:535-579` |
| `LeaveLoop`, `RemoveGlobal` | `loop()` returns; `remove_global_isolate` (1146-1147). In between the name still leads to the isolate, whose loop is over |
| `FreeLooper` | the thread-local destructor of its looper (A`message_looper.c:148-165`) |
| `Take`, `RunSaveOrRemove`, `RunCallback`, `RunAction` | a loop, or the main Handler, executes a message |
| `DestroyMain` | J`Globals.destroy` of the main VM |

A loop in this module is what `Mailbox` says (`mode`, `box`, `cur`) as far as its thread runs
it, which the run `looper` shows of `message_looper.c` (`ImplementsMailbox`). Its one exception,
a loop that was quit before it started, does not occur here: a global isolate is quit by a
function its loop runs. The destructor is not taken from `Mailbox`, whose `Discard` it does
not implement beyond the first message: with two or more messages left it reads a node it
freed (fault `freed_node`). Addresses of `lua_State`s are not used twice. Left out: failing allocations and thread creation, the
copying of values (an argument is one `Job`), `sleep`, `name` and `children`, which change
nothing, the iOS branches and `mln_thread_sync_to_main`, which nothing on Android calls.

### GNV

`place` is the address of each Lua value, `unborn` before and `freed` after its life: an
address may be used again. `count` is the table GNV: its entries by address. `handle` are the
Java objects, with the fields of `NLuaValue` and the value they were made for (`of`, which is
not in the program). `posted` are the removals that wait in the Handler.

| Action | Code |
|---|---|
| `Create`, `Drop`, `Collect` | the script and the Lua collector |
| `RefStrong`, `RefWeak` | `mstrong`, `mweak` (A`reflib.c`) |
| `ToJava`, `CreateTable`, `GetMetatable` | a value gets a handle and a count (A`jinfo.c:263`, A`jtable.c`) |
| `SetNewMetatable`, `SetMetatable` | J`LuaTable.setMetatalbe`, which counts a new table and does not count a given one |
| `ToLua`, `Check` | a handle is pushed; `isDestroyed`, `checkValid` |
| `Destroy`, `RunPosted` | J`NLuaValue.destroy` and J`Globals.removeStack` |
| `DestroyVm` | J`Globals.destroy` |

Abstractions: the code has one table of entries per type under "GNV"; the module is the case
where all values have one type, in which a stale key can meet the entry of another value. `posted` is a set: the
removals commute. `weakened` (not in the program) says that a script called `mweak` on a value
that Java holds, but no `mstrong` is left of: `mweak` does not tell the two apart
(A`reflib.c:53-58`) and takes the count of a handle. `lent` is the same for `setMetatalbe(t)`;
the invariants hold while neither happened (`Balanced`). `MaxCount` bounds a count
because a VM without Handler (`handler = FALSE`: that of an isolate) never counts down from
the finalizer. `checkValid` throws in debug builds and returns in release builds; both leave
the state alone.

### UserdataCache

`cached` and `soft` are the two maps of J`UserdataCache` (a cleared `SoftReference` leaves
`soft`), `mode` the three settings of `MLNCore.UserdataCacheType`. `block` are the userdata of
Lua by address, with the bits and the count that A`juserdata.h` gives them. `key` is
`nativeGlobalKey`. `lapsed` (not in the program) are objects that were referenced again after
they had left the cache.

| Action | Code |
|---|---|
| `CreateInJava` | J`LuaUserdata(Globals, T)` |
| `NewPlain`, `NewStrong`, `ConstructorThrows` | `new_java_obj` (A`juserdata.c`) and J`LuaUserdata(long, LuaValue[])` |
| `ToJava`, `ToLuaNew`, `ToLuaAgain` | `newLuaUserdata`, `pushUserdataFromJUD`, `getValueFromGNV` |
| `OnJavaRef`, `OnJavaRecycle` | the methods of J`LuaUserdata` |
| `LuaGc` | `gc_userdata` and J`LuaUserdata.__onLuaGc` |
| `Finalize` | Java's collector and J`LuaUserdata.finalize` |
| `Destroy`, `RunPosted`, `DestroyVm` | J`NLuaValue.destroy`, J`Globals.removeStack`, J`UserdataCache.onDestroy` |

Abstractions: `onJavaRecycle` is called as often as `onJavaRef`; `finalize` is one step; the
flags of a block that is not strong are what the memory held (`StrayFlags`), because
`new_java_obj` does not clear it: a plain userdata with a stray strong flag stays in GNV until
its VM ends. `ToJava` of a block whose object is not in the cache sets a field of a null object
(A`jinfo.c:283-286`, `vm = "crashed"`).

### Timer

`posted` counts how often each `Task` is in the main thread's queue, `frames` is the stack of
Tasks whose `run()` has called the Lua function and not returned: `resume()` runs the Task at
once, so runs nest. A Task of an earlier `start()` may still be queued or on the stack.
`refused` and `session` are history: whether the executor refused the last post, and the calls
made since the last `start()` as long as nothing interfered with its count; `late` counts
those that a `resume()` in the last call made, which run the function beyond `repeatCount`.

| Action | Code |
|---|---|
| `SetRepeatCount`, `SetInterval`, `Start`, `Pause`, `Resume`, `ResumeDelay`, `Stop` | the Lua methods of S`fun/ud/Timer.java` |
| `RunWithoutFunction`, `RunNotRunning`, `RunCalls` | a queued Task runs, lines 138-149 |
| `LastCallEnds`, `CallEnds`, `CallEndsUnposted`, `CallFails` | the function returns or fails; the Task posts itself, is refused, or is at its end |
| `Destroy` | `__onLuaGc`: userdata of Java go with their VM |

Delays are not measured: queued Tasks become due in any order, which the interval allows
since it may change between two posts. An error that a hook takes counts as a return.

### HotReload

Receivers (connections) call `onFileUpdate` and `onReload`, one thread writes files, one runs
reloads, the main thread reloads and registers pages. `reloadState` is the set of bits, each
`get` and `set` of it a step of its own; `changeFiles` the counter of files not written.
`asked`, `accepted`, `due` and `shows` are history: how many files were announced before the
last request, before the last request that was accepted, before the one the present reload is
for, and written when a page last ran its script. `excused` are pages whose view or script was
not there to be reloaded.

| Action | Code |
|---|---|
| `OnFile`, `OnReload`, `StartReload`, `GetAgain`, `SetAgain` | a receiver, S`HotReloadHelper.java:182-198`, 274-278 |
| `WaitReloading`, `GetChange`, `SetChange`, `Notified`, `WriterThrows`, `Save` | a task of the writer, 231-237, 279-308 |
| `StartRun`, `Spin`, `SetReloading`, `ReloadPage`, `ReloadFinish`, `ReadState`, `SetPreReload`, `EndRun` | the reload thread, 198-228, with S`MLSInstance.java:1242-1270` |
| `OnResume`, `OnPause`, `OnDestroy` | a page enters or leaves the list of callbacks |
| `ReloadSucceeds`, `ReloadIgnored`, `ReloadThrows`, `LoadFails`, `ScriptFails`, `NoView`, `AfterFailure` | the posted Runnable on the main thread |

The five kinds of file messages run the same code and are one action. `set(PRE_RELOAD)` and
the submission are one step: nothing reads the state between them but a receiver whose branch
they decide. The sleeps of the spin are not timed. A page has shown a script once before; the
first load of a page is not modelled.

### CList and DataBind

`CList` is the list of A`list.c` as data: `arr` with `Null` for the gaps that a removal
leaves, the `size` that counts the others, the memory `len`. Its operators have the names of
the C functions and their results, the two faults included: `list_index` gives an index that
callers compare with a size that gaps make smaller, and `list_relist` writes over a first
element that stays where it is. `list_relist` says what each slot holds afterwards
(`SlotAfter`): the target of its moves starts at the first slot and advances with each move, so
the n-th element behind the first slot (`Behind`, `Moved`) ends in slot n.

`DataBind` has the three maps of `struct DataBind` and what each VM keeps itself: `oatk` and
`otk` (the tables of bound tables and of functions), `typed` (the functions that take
parameters), `nodes` and `room` (the key tree: its keys, and how many names the arrays of each
node have room for). `frames` is the stack of assignments under way: how far
each is in the list of watchers, whose function it is in, which keys below are to come, below
which keys a function changed the value meanwhile (`altered`), which value was not found last
(`nilAfter`), and whether the list or the nodes it stands in were freed. `fault` ends a behaviour. `hist` says
who unwatched, was refused a key, was put twice in a list, was moved or written over by
`list_relist`, made a node grow that a walk was in (`grown`), and missed an assignment.

| Action | Code (A`argo/databindengine.c` unless named) |
|---|---|
| `Bind`, `Watch`, `UnWatch`, `Close` | `DB_Bind`, `DB_Watch`, `DB_UnWatch`, `DB_Close`, with the list, map and tree calls they make |
| `SetField`, `Update` | an assignment to a bound table begins: `__newindexCallback`, or `DB_Update` from any VM |
| `Visit`, `VisitFreed`, `Assigned` | `list_traverse` over the watchers of the root |
| `FindNode`, `Walk`, `WalkFreedNodes`, `Walked` | `tree_traverse` over the keys below, with what `_callbackTraverse` (385-523) decides at each |
| `FunctionReturns` | a watcher's function returns; until then its VM may call any operation |

Three things decide about a walk besides the tree. A function with parameters is called only if
its value is found in what was assigned (`holders`, the keys that hold tables there); one
without (`type 0`) is called also below a value that is no table. A function whose value is not
found silences what comes after it as long as its text begins with that key's
(`nil_after_key`, `StartsWith`): `a.b.cc.d` after `a.b.c`. And `save` of a name in a full
node (`CONTENT_INIT_SIZE`, A`argo/mtree.h:13`) frees the node's arrays and makes longer ones
(A`argo/mtree.c:129-147`), also under a walk: the sixth name that a function watches under the
node being walked (`WalkGrown`, `WalkMoved`).

A VM closes only when no assignment is under way. Names of one node of the key tree do not collide.
Functions do not fail, the values that are set can be copied between VMs, and a function
changes a value only through an observed table. What is below a key that a function
assigns to is the new assignment's to call: `owed` of the outer one no longer has it.
`DataBindConstants` asks that keys are sequences of `Names` of any length, as `Keys` closed
under prefixes, that the lengths are positive, and that `Null`, the content of a gap, is no VM,
key or list.
`SetField` is a field of a table that is observed: a table a script assigns directly is not (see
below), so its fields are not keys here. Left out: `insert`, `remove`, `get`, `len` (they
change the contents of a table; with their flag cleared they are an assignment), copying values
between VMs and its errors.

## The runs

| Run | Instance | Shows |
|---|---|---|
| `looper` | owner, 2 posters, 3 messages; the owner and one poster may quit, also before the loop | the list spells the queue, no lost wake-up, one fate for each message, safe quit drains; each step is one of `Mailbox` (order of handling, nothing after an unsafe quit) or `LoopReturnsAtOnce`, the case in which A`message_looper.h:85` is not kept; posts return, messages settle, quit ends the thread |
| `isolate_children` | main VM, 2 once isolates, 2 arguments | order between a child and its creator, the count of children |
| `isolate_globals` | main, 2 globals that may take one name, 1 once isolate, 2 arguments | each argument has one owner, names resolve to isolates that are there; which faults are possible, and only after what |
| `isolate_liveness` | the same with fewer functions | replies arrive, arguments settle, a closed isolate ends |
| `isolate_post_race` | the smallest that shows it | finding: a post to an isolate that ends |
| `gnv` | 2 values, 2 addresses, 2 handles | counts, reachability of handles, release of entries |
| `gnv_metatable` | 3 handles | finding: a handle that is not counted |
| `userdata_cache` | 2 objects, 2 blocks, 3 modes | what is in use is cached, counts, strong objects, release of plain ones |
| `timer` | 1 function, 2 Tasks, intervals 0 and 1, counts to 2, 2 nested runs | a Task to resume, a running timer ticks, exact counts |
| `hot_reload` | 2 connections, 1 page, 2 files, 2 requests | a reload never overtakes the files of its request; an accepted request reaches the page |
| `hot_reload_lost` | 1 connection | finding: an edit that never takes effect |
| `databind` | 2 VMs, keys `a`, `a.b`, `a.b.c`, `a.b.c.d`, `a.b.cc`, lists that start with 2 and 1 slots, nodes that grow by 1, 5 calls, assignments nested twice | who is cleared at close, who hears of an assignment, what uses freed memory |

Why the bounds are enough to be interesting. Three messages are the least with a first, a
middle and a last node and one message in the owner's hands while the tail moves; two posters
race each other and the owner. Two once isolates can share a name, and finish in either order;
two global isolates can take one name and close in either order, and post to each other, to
themselves and to the main VM. Two values at two addresses are enough for one address to mean two values in turn
while a stale handle exists, and two handles for one value to be held twice. Two blocks give
an object two blocks, or two objects the address of each other. A stale Task needs a second
one; `resume()` inside a function needs two nested runs to meet the Task it came from, and a
count of two is the least with a call that is not the last. Two requests are the least of
which one finds a reload at work, two files the least of which one comes after a request.
Five calls of two VMs reach each fault of the data binding: a key unwatched in a function that
runs under the traversal of its list, a watcher that was put twice in a list and closes, a
binding left behind, a function whose watch makes the node grow that the walk is in: with nodes
that grow by one the second name below a node does what the sixth does in the program. Four
names are the least with a key below a value that is not found, and `a.b.cc` has a text that
begins with another key's. `list_relist` writing over a third watcher needs more calls and more
VMs than this. What the instances cannot
show (more posters, longer queues, more handles) is what the theorems are for.

Deadlock checking is off: a looper nobody posts to waits for ever, and a VM that was destroyed
does nothing.

### Fairness

* **Looper**: weak fairness of the owner's steps (the scheduler runs a thread that can run),
  of a thread inside `post_message`, and strong fairness of `HandleUser`: a handler returns,
  though it may post, and thereby disable the step, in between. Nobody must post or quit.
* **Isolates**: threads run, a post goes on after its lookup, loops and the main Handler
  dispatch, and scripts return. A script calls what it likes, or nothing.
* **GNV**: the main looper runs what was posted. Nobody must destroy a handle.
* **Userdata cache**: the Lua collector reaches every block that is unreachable, the Handler
  runs what was posted. Java's collector need not run: `finalize` is not fair.
* **Timer**: strong fairness of a Task's run (the Looper dispatches what is due, and a script
  that pauses and resumes disables it in between) and of the end of a call (a function
  returns, though it may start runs inside).
* **Hot reload**: weak fairness of each thread: a receiver finishes its call, the writer and
  the reload thread go on, the main thread dispatches. Nobody must send, resume or pause.
* **Data binding**: none; its properties are invariants.

## What is proved

TLAPS proves, for every set of threads, messages, values, addresses and handles:

* `MessageLooperProofs`, from `LooperConstants` (threads, nodes and `Null` are different
  things): `TypeCorrect`, `ListIsQueue`, `WakeupsAreNotLost`, `HandlersRunInOrder`,
  `SafeQuitRunsAll`, `UnsafeQuitStopsAll`, and with finitely many messages (`FiniteMessages`)
  `FateIsOne`, `NoneIsLost`, `LoopIsMailbox`. The inductive invariant `IInv` adds to the list
  shape that a message in a call is not in the queue, so appending it keeps the list free of
  cycles; that a message was accepted once; that the message in the owner's hands is the next
  accepted one; and what the quit protocol knows in each state. `ListShape` alone is not
  inductive: the pointer that `poll_once` follows says only which node comes next, and that it
  is the oldest accepted message needs the histories. The step lemma has one lemma per action
  that moves the list, and one for all that do not.
  What becomes of each message needs more (`FateInv`), because the destructor moves the list
  without the lock and may read a node it freed: at every moment the list *stands* at some
  position of the accepted messages (`Stands`): those behind it are linked in order, those
  before it were handled or released, and each was released at most once. While the looper
  runs, that position is the number of messages taken. The position is a witness, not a
  variable, so the destructor's wrong step (it frees the node after the one it unlinks) needs
  no history of its own. `LoopIsMailbox` maps the walk over the list (`Inbox`) to the
  sequence of `Mailbox` and takes the steps one by one: a post that was accepted, a quit, a
  poll, an end of a handler and a release each are a step of `Mailbox`; all else, refused posts
  among them, is a stutter or a refusal there.
* `GNVProofs`, from `GNVConstants`: `TypeCorrect`, `CountsAreRight`, `HandlesReachValues`. The
  invariant is `Shape` (types, no two live values share an address, what Lua or a metatable
  refers to is alive, a posted handle was called) and, while the VM is open and
  `setMetatalbe(t)` was not called, `Sound`: a handle that is kept, a posted one included, is
  at the address of its value; it is not marked destroyed; a strong value is alive; each count
  is right. A count alone is not inductive: that `Removed` takes the right count away needs
  that the key still means the value the handle was made for, which needs that the entry was
  not removed before, which is the count.

* `UserdataCacheProofs`, from `UserdataConstants` (finitely many blocks, the bounds are
  numbers): `TypeCorrect`, `UsedIsCached`, `RefsAreCounted`, `StrongKeepsBlock`. The invariant
  is `Shape` (types; a block in use belongs to an object; nothing refers to an object that is
  not there; a posted entry belongs to an object whose `destroy` was called) and, while the VM
  is open, `Refs` and `Entries`. Three things make it inductive. An object that lapsed still
  has `refCount >= blocks`, or its last block could be collected with a count of zero. Being in
  the cache must follow from the blocks and `javaRefCount` themselves, since the collector
  looks the object up before it counts. And the entry of a strong object must still be there
  while its removal is posted, or the removal would take the entry of another block at the same
  address.
* `IsolateProofs`, from `IsolateConstants` (kinds of threads are disjoint, each script calls
  some of the functions): `TypeCorrect`, `NamesAlive`, `OwnedOnce`. No set need be finite. The
  invariant has two halves. `Control`: types, what is known of a thread that started (`Started`:
  its name, its VM, its creator), pointers into the map point to global isolates, and the count
  of children is at least the number of their names, without which `RemoveChild` could count
  below zero. `Owned`: each argument that was copied is in exactly one of five situations, with
  the exact queue, loop or poster that has it, each that was not is nowhere, no queue holds one
  twice, and what a loop finished with it freed. The property itself only counts; that a
  step of one actor does not add a second owner needs to know which one there is.
* `IsolateOrderProofs`, from the same assumptions: `NothingBad`, `InOrder`, `CountsChildren`,
  on top of the invariant above. `PhaseInv` ties the thread, the VM and the loop of a global
  isolate together (`Phases`) and says that a pointer that is kept anywhere, as a creator, in a
  job or in a post under way, is of an isolate whose loop began (`Known`): with the loops open,
  its struct is then still allocated. `NoFault` alone says nothing about those pointers.
  `OrderInv` says where each of the messages a child sends is: only with its creator
  (`AtParent`), and a message sent before another is before it in that queue or is over
  (`Ordered`). `Counted`: `children[v]` has exactly the names of the children that were announced
  and not yet ended, and their number (`Fits`). That needs the order, since a child that ended
  before it was announced would be counted for ever.

* `TimerProofs`, from `TimerConstants`: `TypeCorrect`, `ResumeFindsTask`, `TimerTicks`,
  `CountIsExact`. The invariant says where the Task of the last `start()` is: in the queue once,
  or on the stack, or refused; that a Task on the stack is not queued unless a nested `resume`
  ran it again; and, for the count, that `doCount` of that Task is the number of calls of the
  session while it is clean. `Ticking` alone is not inductive: that a nested run leaves the Task
  of the outer one in use needs the position of both on the stack.
* `HotReloadProofs`, from `HotReloadConstants`: `TypeCorrect`, `ReloadsSeeFiles`. The invariant
  counts files: `changeFiles` is what was announced and not written, the task the writer is in
  and those that died included, and `due` never exceeds what was announced. That the spin saw
  zero then gives `due <= written`, which no later step takes back.
* `DataBindProofs`, from `DataBindConstants`: `BindingTypes`, `NothingLeads`, `NothingFreed`,
  `AllHear`. First the lists: `Relisted`, `Added` and `Removed` say what `list_relist`,
  `list_add` and `list_remove_obj` leave. An element gets lost only if `list_relist` writes over
  it, no other one gets in or gets a second slot, and the slots in use are never more than
  `size`, so a full list whose `size` is below its length has a gap to close.
  - `Shape`: `TypeOK` is not inductive. That the lists stay lists needs that slots in use are
    counted, and a frame that left the stage `list` must know whose function it called.
  - `Remembered`, for `ClosedForgotten`: a VM that never unwatched, was never refused and never
    was put twice in a list (`Clean`) has every root it bound and every key it watches in its own
    list, that list has no gaps, and it stands in each list of watchers in one slot. Without the
    gaps the index that `list_index` gives can be compared with `size`; with one slot, the
    single removal of `DB_Close` is enough.
  - `Unfreed`, for `NoFault`: until something is unwatched no frame stands in freed memory. The
    rest of `NoFault` follows from `Remembered`: a list without gaps compares no gap, and
    a binding whose VM is closed would be remembered by it.
  - `Hearing` and `FrameInv`, for `WatchersHear`: a function's key and its root are watched and
    the key tree has the nodes on the way; and in each frame of the stack, everything that was
    owed when the assignment began and was not heard is still ahead of it (`Due`): its VM has a
    slot behind the position of the traversal, or was just called for the key itself, or the
    key is among those the walk has to visit. `WatchersHear` only looks at the moment a frame
    ends.

Where a proof needs induction over numbers (a rank in a list, the length of the walk over the
looper's list), it takes the least counterexample of a set of numbers (`LeastNatural`,
`LeastSlot`).

Model-checked only: liveness, which is out of the prover's reach (`CallsReturn`,
`EveryMessageSettled`, `QuitEnds`; `RepliesArrive`, `ArgsSettle`, `CloseEnds`;
`EntriesReleased`; `UnusedIsReleased`; `TicksArrive`; `AcceptedIsShown`), and the three
disagreements below, which are counterexamples.

## Where the code and its comments disagree

Each has a run whose counterexample shows it:

1. **`isolate.post` follows a pointer it looked up under a lock it has released**
   (A`isolate.c:1464`): the isolate that closes frees the struct meanwhile
   (`isolate_post_race`).
2. **`setMetatalbe(t)`** (A`jtable.c:122`) returns a second handle of `t` that is not counted:
   giving it back removes the entry while `t` is held (`gnv_metatable`).
3. **An edit that never takes effect** (S`HotReloadHelper.java:222`): a file and a request that
   arrive after a reload stopped waiting for files leave only `RELOAD_AGAIN`, which
   `set(RELOADING)` wipes or the thread ignores without `FILE_CHANGE_WHEN_RELOADING`
   (`hot_reload_lost`).

Observed while modelling and part of the models as they are, without a run of their own:

* The destructor of a looper frees the wrong node (A`message_looper.c:156`): it unlinks the
  first node and frees the one after it. With one message left it leaks; with two or more it
  reads memory it freed, and free functions may not run (`FreeReadsFreedNode`).
* Children of one name (A`isolate.c:968`) are counted twice and removed once: `children()`
  never gets back to 0; `ChildrenCounted` states what remains true.
* A callback for a destroyed main VM (A`isolate.c:1060`) runs with a null `lua_State`;
  `save_or_remove_in_post`, posted the same way, tests it (fault in `RunCallback`).
* A VM that watches a key again after another watcher closed is added twice (A`list.c:133`:
  the index is not below the size any more) and one of the two stays when it closes: the next
  assignment calls into freed memory. Five calls suffice: two VMs watch, the first closes, the
  second watches again and closes (`doubled`).
* `list_relist` (A`list.c:89`) writes over the first element when there is a gap later: that
  VM hears nothing any more. When it runs inside a traversal it moves watchers to slots that
  were already visited (`displaced`).
* A gap in the list of a VM's keys is compared by `_str_equals` with the next key: a VM that
  unwatches a key and watches another ends the process (fault `null key`).
* `DB_Bind` of a key another VM bound takes it before it fails (A`argo/databindengine.c:1041`);
  `DB_UnWatch` of a key the VM bound takes it out of what `DB_Close` clears. Either leaves a
  closed VM as the target of `DB_Update` (fault `closed VM`). `DB_Close` of a watcher removes the
  binding of the VM it watched (line 138).
* `find` of the key tree divides by zero in a node nothing was saved below (A`argo/mtree.c:59`,
  fault `empty node`); unwatching a key inside its own function frees the list or the nodes
  that are being traversed (`freed list`, `freed node`).
* `DB_UnWatch` leaves the function in OTK and the root's record: assignments still call it.
  A function is never called for an assignment to a key above its own that is not a table.
* A table assigned directly to a field is not observed; `DB_Update` tests the wrong stack for
  whether the value is a table (line 1286); `argo_remove` passes the constant 2 for the index
  (A`argo/argo_lib.c:167`).
* `loop()` returns at once, with the lock held, when the looper was quit before it started
  (A`message_looper.c:172`); A`message_looper.h:85` promises a safe quit that drains. Later
  posts of other threads block (`LoopEnter`, `MayLock`).
* Two `openGlobal` of one name both pass the test at A`isolate.c:1272`; the second replaces
  the first in the map, and the first to end removes the other's entry.
* A once isolate whose creator's VM is gone when its thread starts gets no `Globals`
  (J`Globals.java:545`, fault `no_globals`).
* J`Globals.java:570` tests `index > 0`: the VM with the lowest address is not destroyed there;
  the others are closed in `destroy` and again in `close_lvm` (fault `closed_twice`).
* Without a Handler a removal from the finalizer is reported as done and never happens
  (J`Globals.java:1520`): values that cross to Java in an isolate stay until it ends.
* A handle that was given back may find an entry again when its address got a new value; it
  then reaches that value (`ToLua`).
* `addRef` and `onJavaRef` of an object that left the cache do not put it back: its block finds
  nothing, at once with `TYPE_REMOVE`, after the `SoftReference` is cleared with
  `TYPE_REMOVE_CACHE` (`lapsed`).
* A strong userdata that was passed to Java more than once keeps its entry after `destroy`
  (A`cache.c:210` counts passes, `destroy` is called once).
* `new_java_obj` leaves the flags of an ordinary block uninitialised (A`juserdata.c:315`): it
  may seem strong and stay in GNV.
* A constructor that throws leaves its object in the cache (A`juserdata.c:300`);
  `removedCache` never shrinks (J`UserdataCache.java:105`).
* A plain userdata that a script created has key 0, and Java that passes it back gives nil.

## Not modelled, and the plan

Order of what is still to write, most important first:

1. **Proofs**: the steps of `Isolate`'s loops as steps of one `Mailbox` each, so that with
   `LoopIsMailbox` the two modules compose; the operators of the modules below, as they come.
2. **`ValueCopy`** (A`isolate.c:460-870`): copying of values between VMs and its error paths,
   against a reference definition, and who frees what when a copy fails half way.
3. **`Transport`** (H): the framing of messages (`DecoderImpl`: chunks cut anywhere; abstract
   specification: messages are delivered once in order), the server with its two transports,
   reconnects, `stop`.
4. **`Globals`**: the tables of VMs, `destroy`, the GC clock; composed with `GNV` and
   `UserdataCache`, which have their own `DestroyVm` now.
5. **`Collections`**: `map.c` and `mempool.c` as functions against reference definitions.
6. **`PageLoad`** (S`MLSInstance.java`): the first load, reload and destroy against late
   results.

Hazards known in these parts are in `PROJECT.json` with a note. Not planned: JNI conversions
(sequential glue, covered where they touch references), compiler and loaders (files),
statistics and logging, views and layout (the Android framework), the lite request pipeline
(calls run on the caller's thread), the iOS kit (no shared code but the VM), build tools,
vendored code, which is most of the tree (sqlite, the Lua VM, Pods).
