--------------------------------- MODULE GNV ---------------------------------
(***************************************************************************)
(* The global table "GNV" of a VM, japi/cache.c, that keeps the tables and *)
(* functions alive which Java has a handle of (NLuaValue: LuaTable and     *)
(* LuaFunction).  An entry is found by the address of the value and counts *)
(* its handles; Java gives a handle back with destroy(), explicitly or     *)
(* from the finalizer thread.                                              *)
(*                                                                         *)
(* Lua frees a value that nothing refers to, and may use its address for   *)
(* another one: a key that outlives its entry means something else.        *)
(***************************************************************************)
EXTENDS Naturals, FiniteSets

CONSTANTS Values,     \* the tables and functions a script or Java ever creates
          Addresses,
          Handles,    \* Java objects
          MaxStrong,  \* how often a script calls mstrong on a value
          MaxCount,   \* bound of a count: a VM without Handler only ever counts up
          Null

ASSUME GNVConstants ==
    /\ IsFiniteSet(Handles)
    /\ MaxStrong \in Nat /\ MaxCount \in Nat
    /\ Null \notin Values \cup Addresses
    /\ "unborn" \notin Addresses /\ "freed" \notin Addresses

VARIABLES vm,       \* "open" or "destroyed"
          handler,  \* the Globals have a Handler: those of an isolate do not
          place,    \* the address of each value; "unborn" before, "freed" after
          inLua,    \* the values Lua reaches from the stack, a global or a field
          meta,     \* the metatable of each value
          count,    \* the entries: GNV_NIDX for each address, 0 without entry
          handle,   \* the Java objects
          strong,   \* calls of mstrong not yet undone by mweak
          posted,   \* the handles whose removal waits in the Handler
          lent,     \* setMetatalbe made a second handle without counting it
          weakened  \* mweak took a count that no mstrong had added

memory == <<place, inLua, meta>>
vars   == <<vm, handler, memory, count, handle, strong, posted, lent, weakened>>

\* Every field but "of" is one of the NLuaValue; "of" is the value it was made for.
NewHandle(o, a) == [key |-> a, of |-> o, called |-> FALSE, destroyed |-> FALSE]
NoHandle        == [key |-> Null, of |-> Null, called |-> TRUE, destroyed |-> TRUE]

Init ==
    /\ vm = "open" /\ handler \in BOOLEAN
    /\ place = [o \in Values |-> "unborn"] /\ inLua = {}
    /\ meta = [o \in Values |-> Null]
    /\ count = [a \in Addresses |-> 0]
    /\ handle = [h \in Handles |-> NoHandle]
    /\ strong = [o \in Values |-> 0]
    /\ posted = {} /\ lent = FALSE /\ weakened = FALSE

----------------------------------------------------------------------------
\* The functions of cache.c; a is an address and key of an entry.

Alive(o) == place[o] \in Addresses

CanAdd(a) == count[a] < MaxCount

\* Mutant of Added: a value that is there already is not counted again.
AddedOnce(a) == [count EXCEPT ![a] = IF @ > 0 THEN @ ELSE 1]
\* copyValueToGNV
Added(a)   == [count EXCEPT ![a] = @ + 1]

\* Mutants of Removed: the entry stays with its last count; it is not asked
\* whether there is one.
RemovedButLast(a) == [count EXCEPT ![a] = IF @ > 1 THEN @ - 1 ELSE @]
RemovedUnseen(a)  == [count EXCEPT ![a] = @ - 1]
\* removeValueFromGNV, and whether its result is at most 0.
Removed(a) == [count EXCEPT ![a] = IF @ > 0 THEN @ - 1 ELSE 0]
Gone(a)    == count[a] <= 1

\* hasNativeValue
Has(a) == count[a] > 0

\* getValueFromGNV: the value that lives there, none without an entry.
ValueAt(a) == {o \in Values : place[o] = a /\ Has(a)}

----------------------------------------------------------------------------
\* Lua.

NewValue(o, a) ==
    /\ place[o] = "unborn" /\ \A p \in Values : place[p] # a
    /\ place' = [place EXCEPT ![o] = a]

\* A script creates a table or function.
Create(o, a) ==
    /\ vm = "open" /\ NewValue(o, a)
    /\ inLua' = inLua \cup {o}
    /\ UNCHANGED <<vm, handler, meta, count, handle, strong, posted, lent, weakened>>

\* The script forgets a value.
Drop(o) ==
    /\ vm = "open" /\ o \in inLua
    /\ inLua' = inLua \ {o}
    /\ UNCHANGED <<vm, handler, place, meta, count, handle, strong, posted, lent, weakened>>

Reachable(o) ==
    \/ o \in inLua \/ Has(place[o])
    \/ \E p \in Values \ {o} : Alive(p) /\ meta[p] = o

\* The collector frees a value nothing refers to.
Collect(o) ==
    /\ vm = "open" /\ Alive(o) /\ ~Reachable(o)
    /\ place' = [place EXCEPT ![o] = "freed"]
    /\ UNCHANGED <<vm, handler, inLua, meta, count, handle, strong, posted, lent, weakened>>

\* mstrong
RefStrong(o) ==
    /\ vm = "open" /\ o \in inLua /\ strong[o] < MaxStrong
    /\ CanAdd(place[o]) /\ count' = Added(place[o])
    /\ strong' = [strong EXCEPT ![o] = @ + 1]
    /\ UNCHANGED <<vm, handler, memory, handle, posted, lent, weakened>>

\* mweak does not ask who added the count it takes: without a call of mstrong to
\* undo it takes that of a Java handle.
RefWeak(o) ==
    /\ vm = "open" /\ o \in inLua
    /\ count' = Removed(place[o])
    /\ strong' = [strong EXCEPT ![o] = IF @ > 0 THEN @ - 1 ELSE 0]
    /\ weakened' = (weakened \/ (strong[o] = 0 /\ Has(place[o])))
    /\ UNCHANGED <<vm, handler, memory, handle, posted, lent>>

----------------------------------------------------------------------------
\* The main thread: values cross between Lua and Java.

\* A Java object is made: one that is not reachable any more makes room for it.
Fresh(h) == handle[h].called /\ h \notin posted

\* newLuaTable and newLuaFunction: an argument, a result or a field gets to Java.
ToJava(o, h) ==
    /\ vm = "open" /\ o \in inLua /\ Fresh(h)
    /\ CanAdd(place[o]) /\ count' = Added(place[o])
    /\ handle' = [handle EXCEPT ![h] = NewHandle(o, place[o])]
    /\ UNCHANGED <<vm, handler, memory, strong, posted, lent, weakened>>

\* LuaTable.create
CreateTable(o, a, h) ==
    /\ vm = "open" /\ Fresh(h) /\ NewValue(o, a)
    /\ count' = Added(a)
    /\ handle' = [handle EXCEPT ![h] = NewHandle(o, a)]
    /\ UNCHANGED <<vm, handler, inLua, meta, strong, posted, lent, weakened>>

\* pushJavaValue: Java passes what it has; a key without entry gives nil.
ToLua(h) ==
    /\ vm = "open" /\ handle[h] # NoHandle
    /\ inLua' = inLua \cup ValueAt(handle[h].key)
    /\ UNCHANGED <<vm, handler, place, meta, count, handle, strong, posted, lent, weakened>>

\* isDestroyed, checkValid and checkStatus ask the table, and remember.
Check(h) ==
    /\ vm = "open" /\ handle[h] # NoHandle
    /\ handle' = [handle EXCEPT ![h].destroyed = ~Has(handle[h].key)]
    /\ UNCHANGED <<vm, handler, memory, count, strong, posted, lent, weakened>>

\* A method of LuaTable begins with checkValid, which notes that h has an entry.
Valid(h)   == vm = "open" /\ handle[h] # NoHandle /\ Has(handle[h].key)
Checked(h) == [handle EXCEPT ![h].destroyed = FALSE]

SetMeta(h, o) == meta' = [p \in Values |-> IF p \in ValueAt(handle[h].key) THEN o ELSE meta[p]]

\* setMetatalbe(null), or with a table that has no entry any more: a new table,
\* counted for the handle that is returned.
SetNewMetatable(h, o, a, h2) ==
    /\ Valid(h) /\ Fresh(h2) /\ h # h2 /\ NewValue(o, a)
    /\ SetMeta(h, o)
    /\ count' = Added(a)
    /\ handle' = [Checked(h) EXCEPT ![h2] = NewHandle(o, a)]
    /\ UNCHANGED <<vm, handler, inLua, strong, posted, lent, weakened>>

\* setMetatalbe(t): jni_setMetatable returns the key of t as it is, and a second
\* handle of t is made.
SetMetatable(h, t, h2) ==
    /\ Valid(h) /\ Valid(t) /\ Fresh(h2) /\ h2 \notin {h, t}
    /\ \E o \in ValueAt(handle[t].key) :
          /\ SetMeta(h, o)
          /\ handle' = [handle EXCEPT ![h].destroyed = FALSE, ![t].destroyed = FALSE,
                                      ![h2] = NewHandle(o, place[o])]
    /\ lent' = TRUE
    /\ UNCHANGED <<vm, handler, place, inLua, count, strong, posted, weakened>>

\* getMetatable counts the handle it returns.
GetMetatable(h, h2) ==
    /\ Valid(h) /\ Fresh(h2) /\ h # h2
    /\ \E p \in ValueAt(handle[h].key) :
          /\ meta[p] # Null
          /\ CanAdd(place[meta[p]]) /\ count' = Added(place[meta[p]])
          /\ handle' = [Checked(h) EXCEPT ![h2] = NewHandle(meta[p], place[meta[p]])]
    /\ UNCHANGED <<vm, handler, memory, strong, posted, lent, weakened>>

----------------------------------------------------------------------------
\* NLuaValue.destroy and Globals.removeStack.

\* Mutant of MayDestroy: calledDestroy is not tested.
MayAlwaysDestroy(h) == handle[h] # NoHandle
MayDestroy(h)       == ~handle[h].called

\* Mutant of Posted: nothing is posted.
PostNothing(h) == posted
\* Without a Handler nothing is posted, and the count stays.
Posted(h) == IF handler THEN posted \cup {h} ELSE posted

\* "sync" on the main thread, but not during a collection that takes 10 ms;
\* otherwise, and from the finalizer thread, by way of the Handler.
Destroy(h, sync) ==
    /\ MayDestroy(h)
    /\ LET called == [handle[h] EXCEPT !.called = TRUE]
           a == handle[h].key
       IN  \/ /\ handle[h].destroyed \/ vm # "open"
              /\ handle' = [handle EXCEPT ![h] = called]
              /\ UNCHANGED <<count, posted>>
           \/ /\ ~handle[h].destroyed /\ vm = "open" /\ sync
              /\ count' = Removed(a)
              /\ handle' = [handle EXCEPT ![h] = [called EXCEPT !.destroyed = Gone(a)]]
              /\ UNCHANGED posted
           \/ /\ ~handle[h].destroyed /\ vm = "open" /\ ~sync
              /\ posted' = Posted(h)
              /\ handle' = [handle EXCEPT ![h] = [called EXCEPT !.destroyed = TRUE]]
              /\ UNCHANGED count
    /\ UNCHANGED <<vm, handler, memory, strong, lent, weakened>>

\* The Runnable; the order in which the Handler runs two of them is not kept here.
RunPosted(h) ==
    /\ h \in posted
    /\ posted' = posted \ {h}
    /\ IF vm = "open"
         THEN /\ count' = Removed(handle[h].key)
              /\ handle' = [handle EXCEPT ![h].destroyed = Gone(handle[h].key)]
         ELSE UNCHANGED <<count, handle>>
    /\ UNCHANGED <<vm, handler, memory, strong, lent, weakened>>

\* Globals.destroy: lua_close frees everything, and the table with it.
DestroyVm ==
    /\ vm = "open" /\ vm' = "destroyed"
    /\ place' = [o \in Values |-> "freed"]
    /\ inLua' = {} /\ meta' = [o \in Values |-> Null]
    /\ count' = [a \in Addresses |-> 0]
    /\ strong' = [o \in Values |-> 0]
    /\ UNCHANGED <<handler, handle, posted, lent, weakened>>

----------------------------------------------------------------------------
Lua == \E o \in Values : \/ \E a \in Addresses : Create(o, a)
                         \/ Drop(o) \/ Collect(o) \/ RefStrong(o) \/ RefWeak(o)

Cross == \E h \in Handles :
            \/ \E o \in Values : ToJava(o, h)
            \/ \E o \in Values, a \in Addresses : CreateTable(o, a, h)
            \/ ToLua(h) \/ Check(h)
            \/ \E h2 \in Handles : GetMetatable(h, h2)
            \/ \E h2 \in Handles, o \in Values, a \in Addresses : SetNewMetatable(h, o, a, h2)
            \/ \E h2, t \in Handles : SetMetatable(h, t, h2)

Release == \E h \in Handles : RunPosted(h) \/ \E sync \in BOOLEAN : Destroy(h, sync)

Next == Lua \/ Cross \/ Release \/ DestroyVm

Spec == Init /\ [][Next]_vars

\* The main looper runs what is posted.
FairSpec == Spec /\ \A h \in Handles : WF_vars(RunPosted(h))
=============================================================================
