------------------------------- MODULE DataBind -------------------------------
(***************************************************************************)
(* The data binding between pages (argo/databindengine.c, with list.c and  *)
(* mtree.c).  The VM of a page binds a table to a root key; the VMs of all *)
(* pages watch keys below it and have their functions called when a field  *)
(* of the table is set.  One instance, shared by all VMs of the process,   *)
(* keeps who bound a key, who watches it, and what each VM did, for        *)
(* DB_Close.  A watcher's function runs inside the assignment and may      *)
(* itself call every operation: frames is the stack of assignments.        *)
(*                                                                         *)
(* A key a.b.c is <<a, b, c>>, and of a value only matters which keys hold *)
(* tables in it.  What C leaves undefined or ends the process sets fault,  *)
(* and nothing follows it.  Functions do not fail, the values set can be   *)
(* copied between VMs, and a function changes a value only through an      *)
(* observed table.  Two names of one node of the tree do not collide.      *)
(***************************************************************************)
EXTENDS CList, Integers, SequencesExt

CONSTANTS VMs,
          Names,      \* what stands between the dots of a key
          Begins,     \* the pairs of names of which the second begins with the first
          Keys,       \* sequences of names, closed under prefixes
          ListLen,    \* first length of a list of watchers (5 in the code)
          KeyListLen, \* first length of a list of keys (20 in the code)
          NodeLen,    \* what the arrays of a node grow by (5 in the code)
          MaxCalls,   \* bound of the calls in a behaviour
          MaxDepth    \* bound of assignments inside functions

Root(k) == SubSeq(k, 1, 1)
Below(p, k) == Len(p) < Len(k) /\ SubSeq(k, 1, Len(p)) = p
Leads(p, k) == p = k \/ Below(p, k)
Roots == {k \in Keys : Len(k) = 1}

ASSUME DataBindConstants ==
    /\ Keys \subseteq Seq(Names)
    /\ \A k \in Keys : Len(k) > 0 /\ \A n \in 1 .. Len(k) : SubSeq(k, 1, n) \in Keys
    /\ ListLen \in Nat \ {0} /\ KeyListLen \in Nat \ {0} /\ NodeLen \in Nat \ {0}
    /\ MaxCalls \in Nat /\ MaxDepth \in Nat
    /\ Null \notin VMs \cup Keys \cup Lists(VMs) \cup Lists(Keys)

VARIABLES key_observable, \* the VM that bound each root
          key_observer,   \* the list of VMs that watch each key
          vm_key,         \* the list of keys each VM bound or watches
          open,           \* the VMs not closed
          oatk,           \* the roots whose table a VM keeps in its table OATK
          otk, typed,     \* the keys a VM has a function for in its table OTK,
                          \* those whose function takes parameters
          nodes, room,    \* the key tree of a VM: its keys, how many names the
                          \* arrays of a node have room for, 0 without arrays
          frames,         \* the assignments under way, the innermost first
          fault,          \* "none", or what went wrong for good
          calls,          \* how many calls were made
          hist            \* what happened, for the properties

bindings == <<key_observable, key_observer, vm_key>>
tables == <<oatk, otk, typed, nodes, room>>
vars == <<bindings, open, tables, frames, fault, calls, hist>>

Init ==
    /\ key_observable = [k \in Roots |-> Null]
    /\ key_observer = [k \in Keys |-> Null]
    /\ vm_key = [v \in VMs |-> Null]
    /\ open = VMs
    /\ oatk = [v \in VMs |-> {}]
    /\ otk = [v \in VMs |-> {}] /\ typed = [v \in VMs |-> {}]
    /\ nodes = [v \in VMs |-> {}]
    /\ room = [v \in VMs |-> [k \in Keys \cup {<< >>} |-> 0]]
    /\ frames = << >>
    /\ fault = "none"
    /\ calls = 0
    /\ hist = [unwatched |-> {}, refused |-> {}, doubled |-> {}, displaced |-> {},
               grown |-> {}, missed |-> {}]

----------------------------------------------------------------------------
\* Who runs.

Idle == frames = << >>
Top == frames[1]
InFunction == ~Idle /\ Top.calling

\* A page runs Lua when no assignment is under way, or in its function.
Runs(v) == v \in open /\ (Idle \/ (InFunction /\ Top.vm = v))

MayCall(v) ==
    /\ fault = "none" /\ calls < MaxCalls
    /\ Runs(v)
    /\ calls' = calls + 1

Fails(what) ==
    /\ fault' = what
    /\ UNCHANGED <<bindings, open, tables, frames, hist>>

----------------------------------------------------------------------------
\* DB_Bind, DB_Watch, DB_UnWatch, DB_Close.

\* Mutant of SavedKey: only the first key is kept.
SavedFirstKey(list, k) == IF list = Null THEN list_add(NewList(KeyListLen), k) ELSE list

\* saveVmKey: the list of keys of one VM with k.
SavedKey(list, k) ==
    IF list = Null THEN list_add(NewList(KeyListLen), k)
    ELSE IF IsIn(list, k) THEN list ELSE list_add(list, k)

SaveFaults(list, k) == list # Null /\ ReadsGap(list, k)

\* The key is taken before it is known to be taken; the error says it was
\* refused.  A table that is bound already keeps its binding: a table is
\* bound anew here.
Bind(v, r) ==
    /\ MayCall(v)
    /\ IF key_observable[r] = Null /\ SaveFaults(vm_key[v], r)
       THEN Fails("null key")
       ELSE /\ key_observable' = [key_observable EXCEPT ![r] = v]
            /\ vm_key' = [vm_key EXCEPT ![v] =
                             IF key_observable[r] = Null THEN SavedKey(@, r) ELSE @]
            /\ oatk' = [oatk EXCEPT ![v] =
                           IF key_observable[r] \in {Null, v} THEN @ \cup {r} ELSE @]
            /\ hist' = [hist EXCEPT !.refused =
                           IF key_observable[r] \in {Null, v} THEN @ ELSE @ \cup {v}]
            /\ UNCHANGED <<key_observer, open, otk, typed, nodes, room, frames, fault>>

Records(k, v) == key_observer[k] = Null \/ ~IsIn(key_observer[k], v)

\* _record_observer: the list of watchers of k with v.
Recorded(k, v) ==
    IF key_observer[k] = Null THEN list_add(NewList(ListLen), v)
    ELSE IF Records(k, v) THEN list_add(key_observer[k], v) ELSE key_observer[k]

\* A key with dots records its root as well, unless the key itself was there.
RecordedKeys(k, v) == IF Records(k, v) THEN {q \in {k, Root(k)} : Records(q, v)} ELSE {}

\* The watchers whose slot list_relist gives to another, or moves while an
\* assignment goes through the list.
Displaced(k) ==
    IF key_observer[k] = Null \/ ~Relists(key_observer[k]) THEN {}
    ELSE IF \E i \in DOMAIN frames : Root(frames[i].key) = k THEN InUse(key_observer[k])
    ELSE WrittenOver(key_observer[k])

\* tree_save, when the key was recorded: it goes through the nodes <<a>>,
\* <<a, b>> and <<a, b, c>> and makes what is missing of them.
Saves(v, k) == Records(k, v) /\ Len(k) > 1
TreePath(k) == {SubSeq(k, 1, n) : n \in 1 .. Len(k)}
NewNodes(v, k) == IF Saves(v, k) THEN TreePath(k) \ nodes[v] ELSE {}
Passed(v, k) == IF Saves(v, k) THEN {Front(n) : n \in TreePath(k)} ELSE {}

\* The full nodes on the way, also when no new name comes into them: save()
\* frees their arrays and makes longer ones.
Use(v, p) == Cardinality({n \in nodes[v] : Front(n) = p})
NodesGrown(v, k) == {p \in Passed(v, k) : room[v][p] > 0 /\ Use(v, p) >= room[v][p]}

\* The arrays in a free slot are those a removed node left there, or none.
LeftRooms(v) == {0} \cup {room[v][k] : k \in Keys \ nodes[v]}

\* The arrays of the nodes after tree_save, the new ones having those left.
RoomAfter(v, k, left) ==
    LET grown == NodesGrown(v, k)
        had == [p \in Keys \cup {<< >>} |-> IF p \in DOMAIN left THEN left[p] ELSE room[v][p]]
    IN [p \in Keys \cup {<< >>} |->
           IF p \in grown \/ (p \in Passed(v, k) /\ had[p] = 0) THEN had[p] + NodeLen ELSE had[p]]

\* A walk over the nodes below f.key that is in the function of f.at: it reads
\* on in the arrays of the nodes from the one above f.key to the one above f.at.
Walks(f, v) == f.vm = v /\ f.stage = "tree"
Reads(f, p) == Len(p) >= Len(f.key) - 1 /\ Leads(p, Front(f.at))

\* The walks in a VM are disturbed by nodes that grow.  The arrays of the node
\* above f.at are read in their new place, those further up in the old one.
WalkGrown(f, v, grown) == Walks(f, v) /\ \E p \in grown : Reads(f, p)
WalkMoved(f, v, grown) == WalkGrown(f, v, grown \ {Front(f.at)})

\* The keys a walk may come to or not: new ones where it is, in a slot before
\* or behind, and all below the node above f.at once its slots have changed.
Unsure(f, v, new, grown) ==
    IF ~Walks(f, v) THEN {}
    ELSE {q \in Keys :
            \/ Front(f.at) \in grown /\ Below(Front(f.at), q)
            \/ \E m \in new : Leads(m, q) /\ Leads(f.key, Front(m)) /\ Leads(Front(m), Front(f.at))}

\* What is left of the walks, one of the outcomes for each frame.
WalksAfter(v, new, grown) ==
    LET unsure == [i \in DOMAIN frames |-> Unsure(frames[i], v, new, grown)]
        sets == SUBSET UNION {unsure[i] : i \in DOMAIN frames}
    IN {[i \in DOMAIN frames |->
            [frames[i] EXCEPT !.todo = (@ \ unsure[i]) \cup (kept[i] \cap unsure[i]),
                              !.walkFreed = @ \/ WalkMoved(frames[i], v, grown)]] :
           kept \in [DOMAIN frames -> sets]}

Watch(v, k, params) ==
    LET added == RecordedKeys(k, v)
        first == IF k \in added THEN SavedKey(vm_key[v], k) ELSE vm_key[v]
        saved == IF Root(k) \in added /\ Root(k) # k THEN SavedKey(first, Root(k)) ELSE first
        new == NewNodes(v, k)
        grown == NodesGrown(v, k)
    IN /\ MayCall(v)
       /\ IF \/ k \in added /\ SaveFaults(vm_key[v], k)
             \/ Root(k) \in added /\ SaveFaults(first, Root(k))
          THEN Fails("null key")
          ELSE /\ otk' = [otk EXCEPT ![v] = @ \cup {k}]
               /\ typed' = [typed EXCEPT ![v] = IF params THEN @ \cup {k} ELSE @ \ {k}]
               /\ key_observer' = [q \in Keys |->
                                      IF q \in added THEN Recorded(q, v) ELSE key_observer[q]]
               /\ vm_key' = [vm_key EXCEPT ![v] = saved]
               /\ nodes' = [nodes EXCEPT ![v] = @ \cup new]
               /\ \E left \in [new -> LeftRooms(v)] :
                     room' = [room EXCEPT ![v] = RoomAfter(v, k, left)]
               /\ frames' \in WalksAfter(v, new, grown)
               /\ hist' = [hist EXCEPT
                     !.doubled = IF \E q \in added : key_observer[q] # Null
                                                     /\ v \in InUse(key_observer[q])
                                 THEN @ \cup {v} ELSE @,
                     !.displaced = @ \cup UNION {Displaced(q) : q \in added},
                     !.grown = IF \E i \in DOMAIN frames : WalkGrown(frames[i], v, grown)
                               THEN @ \cup {v} ELSE @]
               /\ UNCHANGED <<key_observable, open, oatk, fault>>

\* list_remove_obj, and the list itself once its size is zero.
Forgets(list, x) ==
    IF list = Null THEN Null
    ELSE LET rest == list_remove_obj(list, x) IN IF list_size(rest) = 0 THEN Null ELSE rest

HasChild(v, k) == \E n \in nodes[v] : Len(n) = Len(k) + 1 /\ Below(k, n)

\* find() divides by the size of the node it looks in: zero when nothing was
\* ever saved below it.
LookupFaults(v, k) == Len(k) > 1 /\ Front(k) \in nodes[v] /\ room[v][Front(k)] = 0

\* A walk goes on over arrays that tree_remove of k, a key on the way there,
\* freed.
WalkFreed(f, v, k) ==
    Walks(f, v) /\ Leads(k, Front(f.at)) /\ k \in nodes[v] /\ HasChild(v, k)

\* The function of k stays in OTK, and so does the root's record.
UnWatch(v, k) ==
    LET list == vm_key[v]
        observers == Forgets(key_observer[k], v)
        freed == key_observer[k] # Null /\ observers = Null
    IN /\ MayCall(v)
       /\ IF list # Null /\ ReadsGap(list, k) THEN Fails("null key")
          ELSE IF LookupFaults(v, k) THEN Fails("empty node")
          ELSE /\ key_observer' = [key_observer EXCEPT ![k] = observers]
               /\ vm_key' = [vm_key EXCEPT ![v] =
                     IF list # Null /\ IsIn(list, k) THEN Forgets(list, k) ELSE list]
               /\ nodes' = [nodes EXCEPT ![v] = {n \in @ : ~Leads(k, n)}]
               /\ room' = [room EXCEPT ![v] = [p \in Keys \cup {<< >>} |->
                     IF k \in nodes[v] /\ HasChild(v, k) /\ Leads(k, p) THEN 0 ELSE @[p]]]
               /\ frames' = [i \in DOMAIN frames |-> [frames[i] EXCEPT
                     !.listFreed = @ \/ (freed /\ Root(frames[i].key) = k),
                     !.walkFreed = @ \/ WalkFreed(frames[i], v, k)]]
               /\ hist' = [hist EXCEPT !.unwatched = @ \cup {v}]
               /\ UNCHANGED <<key_observable, open, oatk, otk, typed, fault>>

\* _freeTraverse for every key of the VM, bound or watched.
Close(v) ==
    LET keys == IF vm_key[v] = Null THEN {} ELSE InUse(vm_key[v])
    IN /\ fault = "none"
       /\ Idle /\ v \in open
       /\ open' = open \ {v}
       /\ key_observable' = [r \in Roots |-> IF r \in keys THEN Null ELSE key_observable[r]]
       /\ key_observer' = [k \in Keys |->
              IF k \in keys THEN Forgets(key_observer[k], v) ELSE key_observer[k]]
       /\ vm_key' = [vm_key EXCEPT ![v] = Null]
       /\ oatk' = [oatk EXCEPT ![v] = {}]
       /\ otk' = [otk EXCEPT ![v] = {}] /\ typed' = [typed EXCEPT ![v] = {}]
       /\ nodes' = [nodes EXCEPT ![v] = {}]
       /\ room' = [room EXCEPT ![v] = [k \in Keys \cup {<< >>} |-> 0]]
       /\ UNCHANGED <<frames, fault, calls, hist>>

----------------------------------------------------------------------------
\* __newindexCallback: the assignment of a value to the key k of a bound table.
\* holders are the keys, k and below, that hold tables in the value: none when
\* it is no table.  _callbackTraverse then visits each watcher of the root: the
\* function of k first, those of the keys below k after it.

Values == [k \in Keys |->
    {T \in SUBSET {q \in Keys : Leads(k, q) /\ \E r \in Keys : Below(q, r)} :
        \A q \in T, r \in Keys : Leads(k, r) /\ Leads(r, q) => r \in T}]

Owed(k, holders) ==
    {w \in open \X Keys : /\ w[2] \in otk[w[1]]
                          /\ w[2] = k \/ (Below(k, w[2]) /\ Front(w[2]) \in holders)}

Assignment(k, holders) ==
    [key |-> k, holders |-> holders, altered |-> {}, pos |-> 0, vm |-> Null, stage |-> "list",
     at |-> k, calling |-> FALSE, todo |-> {}, nilAfter |-> << >>,
     listFreed |-> FALSE, walkFreed |-> FALSE, owed |-> Owed(k, holders)]

\* An assignment in a function to a key below that of f: what the value of f
\* now has below k, or the copy that f works with, may be the old or the new.
\* The functions below k are the new assignment's to call.
Altered(f, k) ==
    IF Below(f.key, k)
    THEN [f EXCEPT !.altered = @ \cup {k}, !.owed = {w \in @ : ~Below(k, w[2])}]
    ELSE f

Assign(k, holders) ==
    /\ Len(frames) < MaxDepth
    /\ frames' = <<Assignment(k, holders)>> \o [i \in DOMAIN frames |-> Altered(frames[i], k)]
    /\ UNCHANGED <<bindings, open, tables, fault, hist>>

\* The page sets a field of a table it bound.
SetField(v, k, holders) ==
    /\ MayCall(v)
    /\ Len(k) > 1 /\ Root(k) \in oatk[v]
    /\ Assign(k, holders)

\* DB_Update: the assignment is made in the VM that bound the root.
Update(v, k, holders) ==
    LET target == key_observable[Root(k)]
    IN /\ MayCall(v)
       /\ Len(k) > 1 /\ target # Null
       /\ \/ target \notin open /\ Fails("closed VM")
          \/ target \in open /\ Root(k) \in oatk[target] /\ Assign(k, holders)

Stands(stage) == fault = "none" /\ ~Idle /\ ~InFunction /\ Top.stage = stage

SetTop(f) == frames' = [frames EXCEPT ![1] = f]

\* The function of k in the VM that f visits starts.
Called(f, k) ==
    SetTop([f EXCEPT !.at = k, !.calling = TRUE, !.owed = @ \ {<<f.vm, k>>}])

Watchers(f) == key_observer[Root(f.key)]

LeftToVisit(f) ==
    IF Watchers(f) = Null THEN {}
    ELSE {i \in DOMAIN Watchers(f).arr : i > f.pos /\ Watchers(f).arr[i] # Null}

\* list_traverse takes the next watcher, with its function for the key itself.
Visit ==
    LET i == CHOOSE j \in LeftToVisit(Top) : \A l \in LeftToVisit(Top) : j <= l
        w == Watchers(Top).arr[i]
        f == [Top EXCEPT !.pos = i, !.vm = w, !.stage = "key"]
    IN /\ Stands("list")
       /\ ~Top.listFreed /\ LeftToVisit(Top) # {}
       /\ IF w \notin open THEN Fails("closed VM")
          ELSE /\ IF f.key \in otk[w] THEN Called(f, f.key)
                  ELSE SetTop(f)
               /\ UNCHANGED <<bindings, open, tables, fault, hist>>
       /\ UNCHANGED calls

\* list_traverse comes back to the list its function freed.
VisitFreed ==
    /\ Stands("list") /\ Top.listFreed
    /\ Fails("freed list")
    /\ UNCHANGED calls

\* All watchers were visited.
Assigned ==
    /\ Stands("list") /\ ~Top.listFreed /\ LeftToVisit(Top) = {}
    /\ frames' = Tail(frames)
    /\ hist' = [hist EXCEPT !.missed = @ \cup {w[1] : w \in Top.owed}]
    /\ UNCHANGED <<bindings, open, tables, fault, calls>>

\* tree_traverse finds the node of the key, whatever the value.
FindNode ==
    /\ Stands("key")
    /\ IF LookupFaults(Top.vm, Top.key) THEN Fails("empty node")
       ELSE /\ SetTop(IF Top.key \in nodes[Top.vm]
                      THEN [Top EXCEPT !.stage = "tree", !.at = Top.key, !.nilAfter = << >>,
                                       !.todo = {k \in Keys : Below(Top.key, k)}]
                      ELSE [Top EXCEPT !.stage = "list"])
            /\ UNCHANGED <<bindings, open, tables, fault, hist>>
    /\ UNCHANGED calls

\* traverse_callback goes through what is below the key it last came to before
\* what is beside it.  The slots are in the order of hashes, any order here.
Near(f) == {k \in f.todo \cap nodes[f.vm] : Leads(Front(k), f.at)}
NextKeys(f) == {k \in Near(f) : \A q \in Near(f) : Len(q) <= Len(k)}

\* Mutant of StartsWith: whatever comes after a value not found is silent.
SilencesAll(k, n) == n # << >>

\* The text of k begins with that of n: a.b.c and a.b.cc.d with a.b.c.
StartsWith(k, n) ==
    /\ n # << >> /\ Len(n) <= Len(k)
    /\ Leads(Front(n), k) /\ <<n[Len(n)], k[Len(n)]>> \in Begins

\* _get_table_by_key finds the value of k if the keys above it hold tables.
MayFind(f, k) == IF \E q \in f.altered : Below(q, k) THEN BOOLEAN ELSE {Front(k) \in f.holders}

\* A function with parameters is not called when its value is not found, nor
\* is, from then on, any function whose key starts with that one's.
Walk ==
    /\ Stands("tree") /\ ~Top.walkFreed
    /\ \E k \in NextKeys(Top) :
          LET f == [Top EXCEPT !.at = k, !.todo = @ \ {k}]
              silent == StartsWith(k, f.nilAfter) \/ k \notin otk[f.vm]
          IN \/ silent /\ SetTop(f)
             \/ /\ ~silent /\ k \in typed[f.vm] /\ FALSE \in MayFind(f, k)
                /\ SetTop([f EXCEPT !.nilAfter = k])
             \/ /\ ~silent /\ (k \in typed[f.vm] => TRUE \in MayFind(f, k))
                /\ Called(f, k)
    /\ UNCHANGED <<bindings, open, tables, fault, calls, hist>>

WalkFreedNodes ==
    /\ Stands("tree") /\ Top.walkFreed
    /\ Fails("freed node")
    /\ UNCHANGED calls

Walked ==
    /\ Stands("tree") /\ ~Top.walkFreed /\ NextKeys(Top) = {}
    /\ SetTop([Top EXCEPT !.stage = "list"])
    /\ UNCHANGED <<bindings, open, tables, fault, calls, hist>>

FunctionReturns ==
    /\ fault = "none" /\ InFunction
    /\ SetTop([Top EXCEPT !.calling = FALSE])
    /\ UNCHANGED <<bindings, open, tables, fault, calls, hist>>

\* Whether a function takes parameters matters below the key of an assignment,
\* which has two names or more.
Next ==
    \/ \E v \in VMs :
         \/ \E r \in Roots : Bind(v, r)
         \/ \E k \in Keys : \E params \in IF Len(k) > 2 THEN BOOLEAN ELSE {FALSE} : Watch(v, k, params)
         \/ \E k \in Keys : UnWatch(v, k)
         \/ \E k \in Keys : \E holders \in Values[k] :
               SetField(v, k, holders) \/ Update(v, k, holders)
         \/ Close(v)
    \/ Visit \/ VisitFreed \/ Assigned
    \/ FindNode \/ Walk \/ WalkFreedNodes \/ Walked
    \/ FunctionReturns

Spec == Init /\ [][Next]_vars
=============================================================================
