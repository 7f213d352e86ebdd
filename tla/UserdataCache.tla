---------------------------- MODULE UserdataCache ----------------------------
(***************************************************************************)
(* Objects of Java that Lua uses: LuaUserdata, its cache in the Globals    *)
(* (UserdataCache.java), and the blocks of Lua that stand for them         *)
(* (struct javaUserdata).  A block knows the id of its object; the cache   *)
(* finds the object while refCount, the blocks there are, or javaRefCount, *)
(* what Java asked to keep, is positive.  Both garbage collectors act on   *)
(* their own: Lua's calls __onLuaGc, Java's finalize.                      *)
(*                                                                         *)
(* A JavaUserdata that a script creates is "strong": the table GNV keeps   *)
(* its block until destroy().  A block's address, its key there, may be    *)
(* used again after it was freed.                                          *)
(***************************************************************************)
EXTENDS Integers, FiniteSets

CONSTANTS Uds,         \* the Java objects, each with its id
          Blocks,      \* addresses of blocks
          MaxRef,      \* bound of refCount: a lapsed object may only be counted up
          MaxJavaRef,  \* bound of javaRefCount
          MaxPass,     \* bound of ud->refCount
          Null

ASSUME UserdataConstants ==
    /\ IsFiniteSet(Blocks)
    /\ MaxRef \in Nat \ {0} /\ MaxJavaRef \in Nat /\ MaxPass \in Nat
    /\ Null \notin Uds /\ {"none", "global"} \cap Blocks = {}

VARIABLES vm,        \* "open", "destroyed" or, with the process, "crashed"
          mode,      \* MLNCore.UserdataCacheType: "none", "remove" or "remove_cache"
          kind,      \* "unborn", "java", "plain", "strong", "broken" or "finalized"
          held,      \* objects that a field or a local variable of Java refers to
          cached,    \* the ids in UserdataCache.cache
          soft,      \* the ids in removedCache whose SoftReference is not cleared
          refCount, javaRefCount,
          key,       \* nativeGlobalKey: "none" (0), "global" or an address
          called,    \* calledDestroy
          posted,    \* the objects whose removal from GNV waits in the Handler
          block,     \* what lives at each address: the fields of struct javaUserdata
          inLua,     \* the blocks a script reaches
          gnv,       \* the blocks in the table GNV
          lapsed     \* objects that were referenced again after they had left the cache

counts == <<refCount, javaRefCount>>
caches == <<cached, soft>>
lua    == <<block, inLua, gnv>>
vars   == <<vm, mode, kind, held, caches, counts, key, called, posted, lua, lapsed>>

Modes == {"none", "remove", "remove_cache"}
Free  == [ud |-> Null, strong |-> FALSE, skey |-> FALSE, passed |-> 0]

Init ==
    /\ vm = "open" /\ mode \in Modes
    /\ kind = [u \in Uds |-> "unborn"]
    /\ held = {} /\ cached = {} /\ soft = {} /\ posted = {} /\ lapsed = {}
    /\ refCount = [u \in Uds |-> 0] /\ javaRefCount = [u \in Uds |-> 0]
    /\ key = [u \in Uds |-> "none"] /\ called = [u \in Uds |-> FALSE]
    /\ block = [b \in Blocks |-> Free]
    /\ inLua = {} /\ gnv = {}

----------------------------------------------------------------------------
\* UserdataCache.java

\* get(id), while the object is there.
Found(u) == u \in cached \/ (mode = "remove_cache" /\ u \in soft)

\* Mutant of OnUserdataGc: the cache keeps the object too.
SoftAndCached(u) ==
    /\ cached' = cached
    /\ soft' = IF mode = "remove_cache" THEN soft \cup {u} ELSE soft
\* onUserdataGc(u, false)
OnUserdataGc(u) ==
    /\ cached' = IF mode = "none" THEN cached ELSE cached \ {u}
    /\ soft' = IF mode = "remove_cache" THEN soft \cup {u} ELSE soft

----------------------------------------------------------------------------
\* Objects and blocks come to be.

Live(u) == kind[u] \notin {"unborn", "finalized"}

\* put: the new object gets its id.
Born(u, k) ==
    /\ vm = "open" /\ kind[u] = "unborn"
    /\ kind' = [kind EXCEPT ![u] = k]
    /\ cached' = cached \cup {u}

\* LuaUserdata(Globals, T)
CreateInJava(u) ==
    /\ Born(u, "java")
    /\ held' = held \cup {u}
    /\ key' = [key EXCEPT ![u] = "global"]
    /\ UNCHANGED <<vm, mode, soft, counts, called, posted, lua, lapsed>>

\* new_java_obj: lua_newuserdata does not clear the block, and only the bits of
\* a strong userdata are set: the others are what the memory held.
StrayFlags == {[strong |-> s, skey |-> k] : s, k \in BOOLEAN}

Instantiate(u, b, k, flags) ==
    /\ block[b] = Free
    /\ Born(u, k)
    /\ refCount' = [refCount EXCEPT ![u] = 1]
    /\ block' = [block EXCEPT ![b] = [ud |-> u, strong |-> flags.strong,
                                      skey |-> flags.skey, passed |-> 0]]
    /\ inLua' = inLua \cup {b}
    /\ UNCHANGED <<vm, mode, held, soft, javaRefCount, called, posted, lapsed>>

NewPlain(u, b, flags) ==
    /\ Instantiate(u, b, "plain", flags)
    /\ UNCHANGED <<key, gnv>>

\* Mutant of NewStrong: the block does not get its entry.
NewUnkept(u, b) ==
    /\ Instantiate(u, b, "strong", [strong |-> TRUE, skey |-> TRUE])
    /\ key' = [key EXCEPT ![u] = b] /\ UNCHANGED gnv
NewStrong(u, b) ==
    /\ Instantiate(u, b, "strong", [strong |-> TRUE, skey |-> TRUE])
    /\ key' = [key EXCEPT ![u] = b] /\ gnv' = gnv \cup {b}

\* The constructor of the class throws after the one of LuaUserdata: there is no
\* block, and nothing takes the object out of the cache.
ConstructorThrows(u) ==
    /\ Born(u, "broken")
    /\ refCount' = [refCount EXCEPT ![u] = 1]
    /\ UNCHANGED <<vm, mode, held, soft, javaRefCount, key, called, posted, lua, lapsed>>

----------------------------------------------------------------------------
\* Userdata cross between Lua and Java.

\* newLuaUserdata: a block passed to Java is counted in the block; nothing is found
\* for an object that is gone, and Java gets null.  copyUDToGNV gives a strong one
\* without entry its entry again and writes the key into the object without asking
\* whether one was found: a field of null ends the process.
ToJava(b) ==
    /\ vm = "open" /\ b \in inLua /\ block[b].passed < MaxPass
    /\ LET u == block[b].ud
           keep == block[b].strong /\ ~block[b].skey
       IN  /\ vm' = IF keep /\ ~Found(u) THEN "crashed" ELSE vm
           /\ gnv' = IF keep THEN gnv \cup {b} ELSE gnv
           /\ key' = IF keep THEN [key EXCEPT ![u] = b] ELSE key
           /\ block' = [block EXCEPT ![b].passed = @ + 1, ![b].skey = @ \/ keep]
           /\ held' = IF Found(u) THEN held \cup {u} ELSE held
    /\ UNCHANGED <<mode, kind, caches, counts, called, posted, inLua, lapsed>>

\* Mutant of AddRef: addRef is not called.
NoRef(u)  == refCount
AddRef(u) == [refCount EXCEPT ![u] = @ + 1]

\* pushUserdataFromJUD: an object of Java gets a new block each time.
ToLuaNew(u, b) ==
    /\ vm = "open" /\ u \in held /\ key[u] = "global" /\ block[b] = Free
    /\ refCount[u] < MaxRef /\ refCount' = AddRef(u)
    /\ block' = [block EXCEPT ![b] = [Free EXCEPT !.ud = u]]
    /\ inLua' = inLua \cup {b}
    /\ lapsed' = lapsed \cup ({u} \ cached)
    /\ UNCHANGED <<vm, mode, kind, held, caches, javaRefCount, key, called, posted, gnv>>

\* getValueFromGNV: the block at its key, nil for one without entry.
ToLuaAgain(u) ==
    /\ vm = "open" /\ u \in held /\ key[u] # "global"
    /\ inLua' = inLua \cup (gnv \cap {key[u]})
    /\ UNCHANGED <<vm, mode, kind, held, caches, counts, key, called, posted, block, gnv, lapsed>>

\* A script or Java forgets one.
LuaDrops(b) ==
    /\ vm = "open" /\ b \in inLua
    /\ inLua' = inLua \ {b}
    /\ UNCHANGED <<vm, mode, kind, held, caches, counts, key, called, posted, block, gnv, lapsed>>

JavaDrops(u) ==
    /\ u \in held
    /\ held' = held \ {u}
    /\ UNCHANGED <<vm, mode, kind, caches, counts, key, called, posted, lua, lapsed>>

OnJavaRef(u) ==
    /\ u \in held /\ javaRefCount[u] < MaxJavaRef
    /\ javaRefCount' = [javaRefCount EXCEPT ![u] = @ + 1]
    /\ lapsed' = lapsed \cup ({u} \ cached)
    /\ UNCHANGED <<vm, mode, kind, held, caches, refCount, key, called, posted, lua>>

\* Mutant of InUse: onJavaRecycle does not ask for the references of Lua.
OnlyJava(lr, jr) == jr > 0
\* What keeps an object cached in onJavaRecycle and __onLuaGc.
InUse(lr, jr) == lr > 0 \/ jr > 0

\* onJavaRecycle, called as often as onJavaRef was.
OnJavaRecycle(u) ==
    /\ u \in held /\ javaRefCount[u] > 0
    /\ javaRefCount' = [javaRefCount EXCEPT ![u] = @ - 1]
    /\ IF InUse(refCount[u], javaRefCount'[u]) \/ vm # "open"
         THEN UNCHANGED caches
         ELSE OnUserdataGc(u)
    /\ UNCHANGED <<vm, mode, kind, held, refCount, key, called, posted, lua, lapsed>>

----------------------------------------------------------------------------
\* Garbage collectors.

\* gc_userdata and __onLuaGc, for a block nothing refers to; it is freed.
LuaGc(b) ==
    /\ vm = "open" /\ block[b] # Free /\ b \notin inLua \cup gnv
    /\ LET u == block[b].ud
       IN  IF ~Found(u) THEN UNCHANGED <<refCount, caches>>
           ELSE /\ refCount' = [refCount EXCEPT ![u] = @ - 1]
                /\ IF InUse(refCount'[u], javaRefCount[u])
                     THEN UNCHANGED caches
                     ELSE OnUserdataGc(u)
    /\ block' = [block EXCEPT ![b] = Free]
    /\ UNCHANGED <<vm, mode, kind, held, javaRefCount, key, called, posted, inLua, gnv, lapsed>>

\* Java's collector clears the SoftReference when it wants memory, and finalizes;
\* a strong object gives its entry back from there.
Finalize(u) ==
    /\ Live(u) /\ u \notin held \cup cached \cup posted
    /\ kind' = [kind EXCEPT ![u] = "finalized"]
    /\ refCount' = [refCount EXCEPT ![u] = 0]
    /\ javaRefCount' = [javaRefCount EXCEPT ![u] = 0]
    /\ cached' = cached \ {u} /\ soft' = soft \ {u}
    /\ called' = IF kind[u] = "strong" THEN [called EXCEPT ![u] = TRUE] ELSE called
    /\ posted' = IF kind[u] = "strong" /\ ~called[u] /\ vm = "open"
                   THEN posted \cup {u} ELSE posted
    /\ UNCHANGED <<vm, mode, held, key, lua, lapsed>>

----------------------------------------------------------------------------
\* The entry of a strong block.

\* removeValueFromGNV for a userdata: its count is the one in the block.
Removed(b) ==
    LET last == block[b].passed <= 1
    IN  IF b \notin gnv THEN UNCHANGED <<gnv, block>> ELSE
            /\ gnv' = IF last THEN gnv \ {b} ELSE gnv
            /\ block' = [block EXCEPT ![b].passed = @ - 1, ![b].skey = @ /\ ~last]

\* LuaUserdata.destroy and removeStack: of a JavaUserdata that a script created,
\* on the main thread at once or, during a collection, later.
Destroy(u, sync) ==
    /\ u \in held /\ kind[u] = "strong" /\ ~called[u]
    /\ called' = [called EXCEPT ![u] = TRUE]
    /\ IF vm # "open" THEN UNCHANGED <<gnv, block, posted>>
       ELSE \/ sync /\ Removed(key[u]) /\ UNCHANGED posted
            \/ ~sync /\ posted' = posted \cup {u} /\ UNCHANGED <<gnv, block>>
    /\ UNCHANGED <<vm, mode, kind, held, caches, counts, key, inLua, lapsed>>

RunPosted(u) ==
    /\ u \in posted /\ posted' = posted \ {u}
    /\ IF vm = "open" THEN Removed(key[u]) ELSE UNCHANGED <<gnv, block>>
    /\ UNCHANGED <<vm, mode, kind, held, caches, counts, key, called, inLua, lapsed>>

\* Globals.destroy: __onLuaGc runs for every block in lua_close and once more for
\* every cached object in onDestroy; it sees that the VM is destroyed and only
\* counts.
BlocksOf(u) == {b \in Blocks : block[b].ud = u}

DestroyVm ==
    /\ vm = "open" /\ vm' = "destroyed"
    /\ refCount' = [u \in Uds |->
                      refCount[u] - (IF Found(u) THEN Cardinality(BlocksOf(u)) ELSE 0)
                                  - (IF u \in cached THEN 1 ELSE 0)]
    /\ cached' = {} /\ soft' = {}
    /\ block' = [b \in Blocks |-> Free] /\ inLua' = {} /\ gnv' = {}
    /\ UNCHANGED <<mode, kind, held, javaRefCount, key, called, posted, lapsed>>

----------------------------------------------------------------------------
Create == \E u \in Uds : \/ CreateInJava(u) \/ ConstructorThrows(u)
                         \/ \E b \in Blocks : \/ NewStrong(u, b)
                                              \/ \E f \in StrayFlags : NewPlain(u, b, f)

Cross == \/ \E b \in Blocks : ToJava(b) \/ LuaDrops(b)
         \/ \E u \in Uds : \/ ToLuaAgain(u) \/ JavaDrops(u)
                           \/ OnJavaRef(u) \/ OnJavaRecycle(u)
                           \/ \E b \in Blocks : ToLuaNew(u, b)

Release == \/ \E b \in Blocks : LuaGc(b)
           \/ \E u \in Uds : \/ Finalize(u) \/ RunPosted(u)
                             \/ \E sync \in BOOLEAN : Destroy(u, sync)

Next == Create \/ Cross \/ Release \/ DestroyVm

Spec == Init /\ [][Next]_vars

\* Lua collects what is unreachable, the Handler runs.
FairSpec == Spec /\ \A b \in Blocks : WF_vars(LuaGc(b))
                 /\ \A u \in Uds : WF_vars(RunPosted(u))
=============================================================================
