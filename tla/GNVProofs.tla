------------------------------ MODULE GNVProofs ------------------------------
(***************************************************************************)
(* Theorems of the table GNV, for any set of values, addresses and         *)
(* handles: the counts are the handles and strong references there are,    *)
(* and a handle that was not destroyed reaches its value.                  *)
(*                                                                         *)
(* The inductive invariant adds to them that no two live values share an   *)
(* address, that what Lua reaches is alive, that handles on their way to   *)
(* the Handler keep their value too, and that a strong value is alive.     *)
(***************************************************************************)
EXTENDS GNVProps, FiniteSetTheorems, TLAPS

HandleRecords == [key : Addresses, of : Values, called : BOOLEAN, destroyed : BOOLEAN]

\* Of every state.
OneValueEach == \A o, p \in Values : Alive(o) /\ place[o] = place[p] => o = p
LuaAlive     == \A o \in inLua : Alive(o)
MetaAlive    == \A p \in Values : Alive(p) /\ meta[p] # Null => Alive(meta[p])
UnbornBare   == \A p \in Values : place[p] = "unborn" => meta[p] = Null
PostedCalled == \A h \in posted : handle[h] # NoHandle /\ handle[h].called

Shape == TypeOK /\ OneValueEach /\ LuaAlive /\ MetaAlive /\ UnbornBare /\ PostedCalled

\* Of a VM that is open, while nobody gave back a count that was another's.
Keeps(h)      == ~handle[h].called \/ h \in posted
KeptAlive     == \A h \in Handles : Keeps(h) => place[handle[h].of] = handle[h].key
NotMarked     == \A h \in Handles : ~handle[h].called => ~handle[h].destroyed
StrongAlive   == \A o \in Values : strong[o] > 0 => Alive(o)
Counted       == \A a \in Addresses : Right(a)
Sound         == KeptAlive /\ NotMarked /\ StrongAlive /\ Counted

IInv == Shape /\ (vm = "open" /\ Balanced => Sound)

----------------------------------------------------------------------------
\* Facts about the operators.

\* The handle that does not exist belongs to no entry.
LEMMA NoHandleFacts ==
    ASSUME TypeOK, NEW h \in Handles
    PROVE  /\ handle[h] = NoHandle => handle[h].called /\ handle[h].key \notin Addresses
           /\ handle[h] # NoHandle => handle[h] \in HandleRecords
           /\ ~handle[h].called => handle[h] # NoHandle
           /\ handle[h].called \in BOOLEAN /\ handle[h].destroyed \in BOOLEAN
<1>1. handle[h] \in HandleRecords \cup {NoHandle}
  BY DEF TypeOK, HandleRecords
<1>2. NoHandle.called /\ NoHandle.key \notin Addresses /\ NoHandle.destroyed
  BY GNVConstants DEF NoHandle
<1>3. CASE handle[h] = NoHandle
  BY <1>2, <1>3
<1>4. CASE handle[h] \in HandleRecords
  <2>1. /\ handle[h].key \in Addresses
        /\ handle[h].called \in BOOLEAN /\ handle[h].destroyed \in BOOLEAN
    BY <1>4 DEF HandleRecords
  <2>2. handle[h] # NoHandle
    BY <2>1, <1>2
  <2>3. QED
    BY <2>1, <2>2, <1>4
<1>5. QED
  BY <1>1, <1>3, <1>4

\* The holders of an entry are finitely many.
LEMMA HoldersFinite ==
    ASSUME NEW a \in Addresses
    PROVE  /\ IsFiniteSet(Holders(a)) /\ Cardinality(Holders(a)) \in Nat
           /\ Holders(a) # {} => Cardinality(Holders(a)) > 0
<1>1. IsFiniteSet(Holders(a))
  BY GNVConstants, FS_Subset DEF Holders
<1>2. QED
  BY <1>1, FS_CardinalityType, FS_EmptySet

\* A value alone at its address gives the entry its strong references.
LEMMA StrongAtValue ==
    ASSUME TypeOK, OneValueEach, NEW o \in Values, Alive(o)
    PROVE  StrongAt(place[o]) = strong[o]
<1>1. {p \in Values : place[p] = place[o]} = {o}
  BY DEF OneValueEach
<1>2. QED
  BY <1>1 DEF StrongAt

LEMMA StrongAtType ==
    ASSUME TypeOK, NEW a \in Addresses
    PROVE  StrongAt(a) \in Nat
<1>1. CASE {o \in Values : place[o] = a} = {}
  BY <1>1 DEF StrongAt
<1>2. CASE {o \in Values : place[o] = a} # {}
  <2>1. (CHOOSE o \in {o \in Values : place[o] = a} : TRUE) \in Values
    BY <1>2
  <2>2. QED
    BY <1>2, <2>1, GNVConstants DEF StrongAt, TypeOK
<1>3. QED
  BY <1>1, <1>2

\* An entry is there as long as a handle or a strong reference needs it.
LEMMA HeldHas ==
    ASSUME TypeOK, NEW a \in Addresses, Right(a), Holders(a) # {} \/ StrongAt(a) > 0
    PROVE  Has(a)
<1>1. Held(a) > 0
  BY HoldersFinite, StrongAtType DEF Held
<1>2. QED
  BY <1>1, HoldersFinite, StrongAtType DEF Held, Right, Has, TypeOK

----------------------------------------------------------------------------
\* What every step keeps: types, one live value at an address, what is reached
\* is alive.

\* A new value at an address where none lives.
LEMMA NewValueShape ==
    ASSUME Shape, NEW o \in Values, NEW a \in Addresses, NewValue(o, a)
    PROVE  /\ place' \in [Values -> Addresses \cup {"unborn", "freed"}]
           /\ OneValueEach'
           /\ ~Alive(o) /\ Alive(o)' /\ place'[o] = a
           /\ \A p \in Values : Alive(p) => Alive(p)' /\ place'[p] = place[p]
           /\ \A p \in Values : p # o => place'[p] = place[p]
<1>1. place \in [Values -> Addresses \cup {"unborn", "freed"}]
  BY DEF Shape, TypeOK
<1>2. /\ place' \in [Values -> Addresses \cup {"unborn", "freed"}]
      /\ place'[o] = a /\ \A p \in Values : p # o => place'[p] = place[p]
  BY <1>1 DEF NewValue
<1>3. ~Alive(o) /\ Alive(o)'
  BY <1>2, GNVConstants DEF NewValue, Alive
<1>4. \A p \in Values : Alive(p) => Alive(p)' /\ place'[p] = place[p]
  BY <1>2, <1>3 DEF Alive
<1>5. OneValueEach'
  BY <1>2, <1>3 DEF OneValueEach, Shape, NewValue, Alive
<1>6. QED
  BY <1>2, <1>3, <1>4, <1>5

\* A handle made for a value at its address.
LEMMA NewHandleShape ==
    ASSUME NEW o \in Values, NEW a \in Addresses
    PROVE  /\ NewHandle(o, a) \in HandleRecords
           /\ NewHandle(o, a).key = a /\ NewHandle(o, a).of = o
           /\ NewHandle(o, a).called = FALSE /\ NewHandle(o, a).destroyed = FALSE
  BY DEF NewHandle, HandleRecords

\* Marking a handle leaves the rest of it as it is.
LEMMA MarkedShape ==
    ASSUME NEW r \in HandleRecords, NEW b \in BOOLEAN, NEW c \in BOOLEAN
    PROVE  LET m == [[r EXCEPT !.called = c] EXCEPT !.destroyed = b]
               d == [r EXCEPT !.destroyed = b]
               e == [r EXCEPT !.called = c]
           IN  /\ m \in HandleRecords /\ d \in HandleRecords /\ e \in HandleRecords
               /\ m.key = r.key /\ m.of = r.of /\ m.called = c /\ m.destroyed = b
               /\ d.key = r.key /\ d.of = r.of /\ d.called = r.called /\ d.destroyed = b
               /\ e.key = r.key /\ e.of = r.of /\ e.called = c /\ e.destroyed = r.destroyed
  BY DEF HandleRecords

\* The functions on counts have natural numbers as results.
LEMMA CountTypes ==
    ASSUME count \in [Addresses -> Nat], NEW a \in Addresses
    PROVE  /\ Added(a) \in [Addresses -> Nat] /\ Removed(a) \in [Addresses -> Nat]
           /\ Added(a)[a] = count[a] + 1
           /\ count[a] > 0 => Removed(a)[a] = count[a] - 1
           /\ \A b \in Addresses : b # a => Added(a)[b] = count[b] /\ Removed(a)[b] = count[b]
<1>1. count[a] \in Nat /\ (count[a] > 0 => count[a] - 1 \in Nat)
  OBVIOUS
<1>2. Added(a) \in [Addresses -> Nat] /\ Added(a)[a] = count[a] + 1
  BY <1>1 DEF Added
<1>3. /\ Removed(a) \in [Addresses -> Nat]
      /\ count[a] > 0 => Removed(a)[a] = count[a] - 1
  BY <1>1 DEF Removed
<1>4. \A b \in Addresses : b # a => Added(a)[b] = count[b] /\ Removed(a)[b] = count[b]
  BY DEF Added, Removed
<1>5. QED
  BY <1>2, <1>3, <1>4

\* The metatables of all live values are alive after SetMeta.
LEMMA SetMetaShape ==
    ASSUME Shape, NEW h \in Handles, NEW o \in Values, SetMeta(h, o), Alive(o)',
           handle[h].key \in Addresses, Alive(o) \/ place[o] = "unborn",
           \A p \in Values : Alive(p) => Alive(p)',
           \A p \in Values : p # o => place'[p] = place[p]
    PROVE  meta' \in [Values -> Values \cup {Null}] /\ MetaAlive' /\ UnbornBare'
<1>1. /\ meta \in [Values -> Values \cup {Null}]
      /\ meta' \in [Values -> Values \cup {Null}]
  BY DEF SetMeta, Shape, TypeOK
<1>2. \A p \in Values : /\ meta'[p] \in {o, meta[p]}
                        /\ ~Alive(p) => meta'[p] = meta[p]
  BY <1>1 DEF SetMeta, ValueAt, Alive
<1>3. ASSUME NEW p \in Values, Alive(p)', meta'[p] # Null
      PROVE  Alive(meta[p])'
  <2>1. CASE meta'[p] = o
    BY <2>1, SMT DEF Alive
  <2>2. CASE meta'[p] # o
    <3>1. meta'[p] = meta[p] /\ meta[p] \in Values
      BY <1>1, <1>2, <1>3, <2>2
    <3>2. Alive(p)
      BY <1>3, <3>1 DEF Shape, UnbornBare, Alive
    <3>3. Alive(meta[p])
      BY <3>1, <3>2, <1>3 DEF Shape, MetaAlive
    <3>4. place'[meta[p]] \in Addresses
      BY <3>1, <3>3 DEF Alive
    <3>5. QED
      BY <3>1, <3>4 DEF Alive
  <2>3. QED
    BY <2>1, <2>2
<1>4. MetaAlive'
  BY <1>3 DEF MetaAlive
<1>5. UnbornBare'
  <2>1. SUFFICES ASSUME NEW p \in Values, place'[p] = "unborn"
                 PROVE  meta'[p] = Null
    BY DEF UnbornBare
  <2>2. p # o
    BY <2>1, GNVConstants DEF Alive
  <2>3. place[p] = "unborn" /\ ~Alive(p)
    BY <2>1, <2>2, GNVConstants DEF Alive
  <2>4. QED
    BY <1>2, <2>3 DEF Shape, UnbornBare
<1>6. QED
  BY <1>1, <1>4, <1>5

\* The type of the Java objects, in the words of the lemmas.
LEMMA HandleType ==
    ASSUME Shape
    PROVE  /\ handle \in [Handles -> HandleRecords \cup {NoHandle}]
           /\ \A h \in Handles : /\ handle[h] # NoHandle => handle[h] \in HandleRecords
                                 /\ ~handle[h].called => handle[h] \in HandleRecords
                                 /\ h \in posted => handle[h] \in HandleRecords
<1>1. handle \in [Handles -> HandleRecords \cup {NoHandle}]
  BY DEF Shape, TypeOK, HandleRecords
<1>2. \A h \in Handles : /\ handle[h] # NoHandle => handle[h] \in HandleRecords
                         /\ ~handle[h].called => handle[h] \in HandleRecords
  BY NoHandleFacts DEF Shape
<1>3. QED
  BY <1>1, <1>2 DEF Shape, PostedCalled

\* A Java object with an entry exists.
LEMMA ValidHandle ==
    ASSUME Shape, NEW h \in Handles, Valid(h)
    PROVE  /\ handle[h] \in HandleRecords /\ handle[h].key \in Addresses
           /\ \A o \in ValueAt(handle[h].key) : Alive(o) /\ place[o] = handle[h].key
<1>1. handle[h] \in HandleRecords
  BY HandleType DEF Valid
<1>2. handle[h].key \in Addresses
  BY <1>1 DEF HandleRecords
<1>3. QED
  BY <1>1, <1>2 DEF ValueAt, Alive

\* Java objects that differ from those of the state in marks that were taken away.
Agree(X) ==
    /\ X \in [Handles -> HandleRecords \cup {NoHandle}]
    /\ \A i \in Handles : /\ X[i].key = handle[i].key /\ X[i].of = handle[i].of
                          /\ X[i].called = handle[i].called
                          /\ X[i].destroyed => handle[i].destroyed
                          /\ X[i] = NoHandle <=> handle[i] = NoHandle

\* checkValid of tables takes marks away.
LEMMA ChecksAgree ==
    ASSUME Shape, NEW h \in Handles, handle[h] \in HandleRecords,
           NEW t \in Handles, handle[t] \in HandleRecords
    PROVE  /\ Agree(handle) /\ Agree(Checked(h))
           /\ Agree([handle EXCEPT ![h].destroyed = FALSE, ![t].destroyed = FALSE])
<1> DEFINE D(r) == [r EXCEPT !.destroyed = FALSE]
<1>1. handle \in [Handles -> HandleRecords \cup {NoHandle}]
  BY HandleType
<1>2. NoHandle \notin HandleRecords
  BY GNVConstants DEF NoHandle, HandleRecords
<1>3. \A r \in HandleRecords : /\ D(r) \in HandleRecords /\ D(r).key = r.key /\ D(r).of = r.of
                               /\ D(r).called = r.called /\ ~D(r).destroyed
  BY DEF HandleRecords
<1>4. ASSUME NEW X \in [Handles -> HandleRecords \cup {NoHandle}], NEW g \in Handles,
             Agree(X), X[g] \in HandleRecords, handle[g] \in HandleRecords
      PROVE  Agree([X EXCEPT ![g] = D(X[g])])
  <2>1. [X EXCEPT ![g] = D(X[g])] \in [Handles -> HandleRecords \cup {NoHandle}]
    BY <1>3, <1>4
  <2>2. D(X[g]) # NoHandle /\ handle[g] # NoHandle
    BY <1>2, <1>3, <1>4
  <2>3. QED
    BY <1>3, <1>4, <2>1, <2>2 DEF Agree
<1>5. Agree(handle)
  BY <1>1 DEF Agree
<1>6. Agree([handle EXCEPT ![h] = D(handle[h])])
  BY <1>1, <1>4, <1>5
<1>7. Checked(h) = [handle EXCEPT ![h] = D(handle[h])]
  BY <1>1 DEF Checked
<1> DEFINE X == [handle EXCEPT ![h] = D(handle[h])]
<1>8. X[t] \in HandleRecords /\ X \in [Handles -> HandleRecords \cup {NoHandle}]
  BY <1>1, <1>3
<1>9. Agree([X EXCEPT ![t] = D(X[t])])
  BY <1>4, <1>6, <1>8
<1>10. [handle EXCEPT ![h].destroyed = FALSE, ![t].destroyed = FALSE] = [X EXCEPT ![t] = D(X[t])]
  BY <1>1
<1>11. QED
  BY <1>5, <1>6, <1>7, <1>9, <1>10

\* A new handle takes the place of one that is gone.
LEMMA MadeShape ==
    ASSUME Shape, NEW X, Agree(X), NEW g \in Handles, Fresh(g),
           NEW o \in Values, NEW a \in Addresses,
           handle' = [X EXCEPT ![g] = NewHandle(o, a)], posted' = posted
    PROVE  /\ handle' \in [Handles -> HandleRecords \cup {NoHandle}]
           /\ PostedCalled'
           /\ handle'[g] = NewHandle(o, a)
           /\ \A i \in Handles \ {g} : handle'[i] = X[i]
<1>1. /\ handle' \in [Handles -> HandleRecords \cup {NoHandle}]
      /\ handle'[g] = NewHandle(o, a)
      /\ \A i \in Handles \ {g} : handle'[i] = X[i]
  BY NewHandleShape DEF Agree
<1>2. ASSUME NEW i \in posted PROVE handle'[i] # NoHandle /\ handle'[i].called
  <2>1. i \in Handles \ {g} /\ handle[i] # NoHandle /\ handle[i].called
    BY DEF Shape, TypeOK, PostedCalled, Fresh
  <2>2. QED
    BY <1>1, <2>1 DEF Agree
<1>3. QED
  BY <1>1, <1>2 DEF PostedCalled

----------------------------------------------------------------------------
\* Each action keeps the shape.

LEMMA ShapeInit == ASSUME Init PROVE Shape
<1>1. TypeOK
  <2>1. 0 \in 0..MaxStrong
    BY GNVConstants
  <2>2. count \in [Addresses -> Nat] /\ strong \in [Values -> 0..MaxStrong]
    BY <2>1 DEF Init
  <2>3. handle \in [Handles -> {NoHandle}] /\ place \in [Values -> {"unborn"}]
    BY DEF Init
  <2>4. QED
    BY <2>2, <2>3 DEF Init, TypeOK
<1>2. \A o \in Values : ~Alive(o) /\ meta[o] = Null
  BY GNVConstants DEF Init, Alive
<1>3. QED
  BY <1>1, <1>2 DEF Init, Shape, OneValueEach, LuaAlive, MetaAlive, UnbornBare, PostedCalled

\* Lua creates and forgets values.
LEMMA ShapeCreate ==
    ASSUME Shape, NEW o \in Values, NEW a \in Addresses, Create(o, a)
    PROVE  Shape'
<1>1. NewValue(o, a)
  BY DEF Create
<1>2. /\ place' \in [Values -> Addresses \cup {"unborn", "freed"}] /\ OneValueEach'
      /\ Alive(o)' /\ place[o] = "unborn"
      /\ \A p \in Values : /\ Alive(p) => Alive(p)'
                           /\ p # o => place'[p] = place[p]
  BY <1>1, NewValueShape DEF NewValue
<1>3. TypeOK'
  BY <1>2 DEF Create, Shape, TypeOK
<1>4. LuaAlive'
  BY <1>2 DEF Create, Shape, TypeOK, LuaAlive
<1>5. MetaAlive'
  <2>1. SUFFICES ASSUME NEW p \in Values, Alive(p)', meta[p] # Null
                 PROVE  place'[meta[p]] \in Addresses
    BY DEF MetaAlive, Create, Alive
  <2>2. p # o /\ Alive(p)
    BY <1>2, <2>1 DEF Shape, UnbornBare, Alive
  <2>3. meta[p] \in Values /\ Alive(meta[p])
    BY <2>1, <2>2 DEF Shape, MetaAlive, TypeOK
  <2>4. QED
    BY <1>2, <2>3 DEF Alive
<1>6. UnbornBare'
  BY <1>2, GNVConstants DEF Create, Shape, UnbornBare, Alive
<1>7. PostedCalled'
  BY DEF Create, Shape, PostedCalled
<1>8. QED
  BY <1>2, <1>3, <1>4, <1>5, <1>6, <1>7 DEF Shape

LEMMA ShapeDrop ==
    ASSUME Shape, NEW o \in Values, Drop(o)
    PROVE  Shape'
  BY DEF Drop, Shape, TypeOK, OneValueEach, LuaAlive, MetaAlive, UnbornBare, PostedCalled, Alive

\* The collector frees what nothing reaches.
LEMMA ShapeCollect ==
    ASSUME Shape, NEW o \in Values, Collect(o)
    PROVE  Shape'
<1>1. /\ place' \in [Values -> Addresses \cup {"unborn", "freed"}]
      /\ place'[o] = "freed" /\ \A p \in Values \ {o} : place'[p] = place[p]
  BY DEF Collect, Shape, TypeOK
<1>2. TypeOK'
  BY <1>1 DEF Collect, Shape, TypeOK
<1>3. \A p \in Values : Alive(p)' => p # o /\ Alive(p) /\ place'[p] = place[p]
  BY <1>1, GNVConstants DEF Alive
<1>4. OneValueEach'
  BY <1>1, <1>3 DEF Shape, OneValueEach, Alive
<1>5. LuaAlive'
  BY <1>1 DEF Collect, Reachable, Shape, TypeOK, LuaAlive, Alive
<1>6. MetaAlive'
  <2>1. SUFFICES ASSUME NEW p \in Values, Alive(p)', meta[p] # Null
                 PROVE  place'[meta[p]] \in Addresses
    BY DEF MetaAlive, Collect, Alive
  <2>2. p # o /\ Alive(p)
    BY <1>3, <2>1
  <2>3. meta[p] \in Values /\ Alive(meta[p]) /\ meta[p] # o
    BY <2>1, <2>2 DEF Collect, Reachable, Shape, MetaAlive, TypeOK
  <2>4. QED
    BY <1>1, <2>3 DEF Alive
<1>7. UnbornBare' /\ PostedCalled'
  BY <1>1 DEF Collect, Shape, UnbornBare, PostedCalled
<1>8. QED
  BY <1>2, <1>4, <1>5, <1>6, <1>7 DEF Shape

\* Only counts and strong references change.
LEMMA ShapeRef ==
    ASSUME Shape, NEW o \in Values, RefStrong(o) \/ RefWeak(o)
    PROVE  Shape'
<1>1. place[o] \in Addresses
  BY DEF RefStrong, RefWeak, Shape, LuaAlive, Alive
<1>2. count' \in [Addresses -> Nat]
  BY <1>1, CountTypes DEF RefStrong, RefWeak, Shape, TypeOK
<1>3. strong' \in [Values -> 0..MaxStrong]
  <2>1. strong \in [Values -> 0..MaxStrong] /\ strong[o] \in 0..MaxStrong
    BY DEF Shape, TypeOK
  <2>2. CASE RefStrong(o)
    <3>1. strong[o] + 1 \in 0..MaxStrong
      BY <2>1, <2>2, GNVConstants DEF RefStrong
    <3>2. QED
      BY <2>1, <2>2, <3>1 DEF RefStrong
  <2>3. CASE RefWeak(o)
    <3>1. (IF strong[o] > 0 THEN strong[o] - 1 ELSE 0) \in 0..MaxStrong
      BY <2>1, GNVConstants
    <3>2. QED
      BY <2>1, <2>3, <3>1 DEF RefWeak
  <2>4. QED
    BY <2>2, <2>3
<1>4. UNCHANGED <<vm, handler, place, inLua, meta, handle, posted, lent>>
  BY DEF RefStrong, RefWeak, memory
<1>5. weakened' \in BOOLEAN
  BY DEF RefStrong, RefWeak, Shape, TypeOK
<1>6. QED
  BY <1>2, <1>3, <1>4, <1>5 DEF Shape, TypeOK, OneValueEach, LuaAlive, MetaAlive, UnbornBare,
                          PostedCalled, Alive

\* What the making of a handle for a value leaves when values stay where they are.
LEMMA ShapeMade ==
    ASSUME Shape, NEW X, Agree(X), NEW g \in Handles, Fresh(g),
           NEW o \in Values, NEW a \in Addresses,
           handle' = [X EXCEPT ![g] = NewHandle(o, a)],
           count' \in [Addresses -> Nat], lent' \in BOOLEAN /\ weakened' \in BOOLEAN,
           UNCHANGED <<vm, handler, strong, posted>>,
           place' \in [Values -> Addresses \cup {"unborn", "freed"}], OneValueEach',
           inLua' \subseteq Values, LuaAlive',
           meta' \in [Values -> Values \cup {Null}], MetaAlive', UnbornBare'
    PROVE  Shape'
<1>1. /\ handle' \in [Handles -> HandleRecords \cup {NoHandle}]
      /\ PostedCalled'
  BY MadeShape
<1>2. TypeOK'
  BY <1>1 DEF Shape, TypeOK, HandleRecords
<1>3. QED
  BY <1>1, <1>2 DEF Shape

LEMMA ShapeToJava ==
    ASSUME Shape, NEW o \in Values, NEW h \in Handles, ToJava(o, h)
    PROVE  Shape'
<1>1. place[o] \in Addresses
  BY DEF ToJava, Shape, LuaAlive, Alive
<1>2. count' \in [Addresses -> Nat]
  BY <1>1, CountTypes DEF ToJava, Shape, TypeOK
<1>3. Agree(handle)
  BY HandleType DEF Agree
<1>4. UNCHANGED <<vm, handler, place, inLua, meta, strong, posted, lent, weakened>>
  BY DEF ToJava, memory
<1>5. OneValueEach' /\ LuaAlive' /\ MetaAlive' /\ UnbornBare'
  BY <1>4 DEF Shape, OneValueEach, LuaAlive, MetaAlive, UnbornBare, Alive
<1>6. handle' = [handle EXCEPT ![h] = NewHandle(o, place[o])] /\ Fresh(h)
  BY DEF ToJava
<1>7. QED
  BY <1>1, <1>2, <1>3, <1>4, <1>5, <1>6, ShapeMade DEF Shape, TypeOK

LEMMA ShapeCreateTable ==
    ASSUME Shape, NEW o \in Values, NEW a \in Addresses, NEW h \in Handles,
           CreateTable(o, a, h)
    PROVE  Shape'
<1>1. count' \in [Addresses -> Nat]
  BY CountTypes DEF CreateTable, Shape, TypeOK
<1>2. Agree(handle)
  BY HandleType DEF Agree
<1>3. NewValue(o, a) /\ UNCHANGED <<vm, handler, inLua, meta, strong, posted, lent, weakened>>
  BY DEF CreateTable
<1>4. /\ place' \in [Values -> Addresses \cup {"unborn", "freed"}] /\ OneValueEach'
      /\ Alive(o)' /\ place[o] = "unborn"
      /\ \A p \in Values : /\ Alive(p) => Alive(p)'
                           /\ p # o => place'[p] = place[p]
  BY <1>3, NewValueShape DEF NewValue
<1>5. LuaAlive'
  BY <1>3, <1>4 DEF Shape, TypeOK, LuaAlive
<1>6. MetaAlive'
  <2>1. SUFFICES ASSUME NEW p \in Values, Alive(p)', meta[p] # Null
                 PROVE  place'[meta[p]] \in Addresses
    BY <1>3 DEF MetaAlive, Alive
  <2>2. p # o /\ Alive(p)
    BY <1>4, <2>1 DEF Shape, UnbornBare, Alive
  <2>3. meta[p] \in Values /\ Alive(meta[p])
    BY <2>1, <2>2 DEF Shape, MetaAlive, TypeOK
  <2>4. QED
    BY <1>4, <2>3 DEF Alive
<1>7. UnbornBare'
  BY <1>3, <1>4, GNVConstants DEF Shape, UnbornBare, Alive
<1>8. handle' = [handle EXCEPT ![h] = NewHandle(o, a)] /\ Fresh(h)
  BY DEF CreateTable
<1>9. QED
  BY <1>1, <1>2, <1>3, <1>4, <1>5, <1>6, <1>7, <1>8, ShapeMade DEF Shape, TypeOK

LEMMA ShapeToLua ==
    ASSUME Shape, NEW h \in Handles, ToLua(h)
    PROVE  Shape'
<1>1. handle[h].key \in Addresses
  BY HandleType DEF ToLua, HandleRecords
<1>2. \A o \in ValueAt(handle[h].key) : o \in Values /\ Alive(o)
  BY <1>1 DEF ValueAt, Alive
<1>3. QED
  BY <1>2 DEF ToLua, Shape, TypeOK, OneValueEach, LuaAlive, MetaAlive, UnbornBare,
              PostedCalled, Alive

LEMMA ShapeNewMetatable ==
    ASSUME Shape, NEW h \in Handles, NEW h2 \in Handles, NEW o \in Values,
           NEW a \in Addresses, SetNewMetatable(h, o, a, h2)
    PROVE  Shape'
<1>1. count' \in [Addresses -> Nat]
  BY CountTypes DEF SetNewMetatable, Shape, TypeOK
<1>2. handle[h] \in HandleRecords /\ handle[h].key \in Addresses
  BY ValidHandle DEF SetNewMetatable
<1>3. Agree(Checked(h))
  BY <1>2, ChecksAgree
<1>4. /\ NewValue(o, a) /\ SetMeta(h, o) /\ Fresh(h2)
      /\ handle' = [Checked(h) EXCEPT ![h2] = NewHandle(o, a)]
      /\ UNCHANGED <<vm, handler, inLua, strong, posted, lent, weakened>>
  BY DEF SetNewMetatable
<1>5. /\ place' \in [Values -> Addresses \cup {"unborn", "freed"}] /\ OneValueEach'
      /\ Alive(o)' /\ place[o] = "unborn"
      /\ \A p \in Values : /\ Alive(p) => Alive(p)'
                           /\ p # o => place'[p] = place[p]
  BY <1>4, NewValueShape DEF NewValue
<1>6. inLua' \subseteq Values /\ LuaAlive'
  BY <1>4, <1>5 DEF Shape, TypeOK, LuaAlive
<1>7. meta' \in [Values -> Values \cup {Null}] /\ MetaAlive' /\ UnbornBare'
  BY <1>2, <1>4, <1>5, SetMetaShape
<1>8. lent' \in BOOLEAN /\ weakened' \in BOOLEAN
  BY <1>4 DEF Shape, TypeOK
<1>9. QED
  BY <1>1, <1>3, <1>4, <1>5, <1>6, <1>7, <1>8, ShapeMade

LEMMA ShapeSetMetatable ==
    ASSUME Shape, NEW h \in Handles, NEW t \in Handles, NEW h2 \in Handles,
           SetMetatable(h, t, h2)
    PROVE  Shape'
<1>1. /\ handle[h] \in HandleRecords /\ handle[h].key \in Addresses
      /\ handle[t] \in HandleRecords /\ handle[t].key \in Addresses
      /\ \A o \in ValueAt(handle[t].key) : Alive(o) /\ place[o] = handle[t].key
  BY ValidHandle DEF SetMetatable
<1> DEFINE X == [handle EXCEPT ![h].destroyed = FALSE, ![t].destroyed = FALSE]
<1>2. Agree(X)
  BY <1>1, ChecksAgree
<1>3. PICK o \in ValueAt(handle[t].key) :
         /\ SetMeta(h, o)
         /\ handle' = [handle EXCEPT ![h].destroyed = FALSE, ![t].destroyed = FALSE,
                                     ![h2] = NewHandle(o, place[o])]
  BY DEF SetMetatable
<1>4. handle' = [X EXCEPT ![h2] = NewHandle(o, place[o])]
  BY <1>3
<1>5. o \in Values /\ Alive(o) /\ place[o] \in Addresses /\ Fresh(h2)
  BY <1>1 DEF ValueAt, SetMetatable
<1>6. /\ UNCHANGED <<vm, handler, place, inLua, count, strong, posted, weakened>>
      /\ lent' \in BOOLEAN
  BY DEF SetMetatable
<1>7. OneValueEach' /\ LuaAlive'
  BY <1>6 DEF Shape, OneValueEach, LuaAlive, Alive
<1>8. meta' \in [Values -> Values \cup {Null}] /\ MetaAlive' /\ UnbornBare'
  <2>1. Alive(o)' /\ \A p \in Values : Alive(p) => Alive(p)'
    BY <1>5, <1>6 DEF Alive
  <2>2. QED
    BY <1>1, <1>3, <1>5, <1>6, <2>1, SetMetaShape
<1>9. /\ count' \in [Addresses -> Nat] /\ inLua' \subseteq Values
      /\ place' \in [Values -> Addresses \cup {"unborn", "freed"}]
      /\ UNCHANGED <<vm, handler, strong, posted>> /\ weakened' \in BOOLEAN
  BY <1>6 DEF Shape, TypeOK
<1> HIDE DEF X
<1>10. QED
  BY <1>2, <1>4, <1>5, <1>6, <1>7, <1>8, <1>9, ShapeMade

LEMMA ShapeGetMetatable ==
    ASSUME Shape, NEW h \in Handles, NEW h2 \in Handles, GetMetatable(h, h2)
    PROVE  Shape'
<1>1. /\ handle[h] \in HandleRecords
      /\ \A p \in ValueAt(handle[h].key) : p \in Values /\ Alive(p)
  BY ValidHandle DEF GetMetatable, ValueAt
<1>2. PICK p \in ValueAt(handle[h].key) :
         /\ meta[p] # Null /\ count' = Added(place[meta[p]])
         /\ handle' = [Checked(h) EXCEPT ![h2] = NewHandle(meta[p], place[meta[p]])]
  BY DEF GetMetatable
<1>3. meta[p] \in Values /\ place[meta[p]] \in Addresses
  BY <1>1, <1>2 DEF Shape, TypeOK, MetaAlive, Alive
<1>4. count' \in [Addresses -> Nat]
  BY <1>2, <1>3, CountTypes DEF Shape, TypeOK
<1>5. Agree(Checked(h))
  BY <1>1, ChecksAgree
<1>6. UNCHANGED <<vm, handler, place, inLua, meta, strong, posted, lent, weakened>> /\ Fresh(h2)
  BY DEF GetMetatable, memory
<1>7. OneValueEach' /\ LuaAlive' /\ MetaAlive' /\ UnbornBare'
  BY <1>6 DEF Shape, OneValueEach, LuaAlive, MetaAlive, UnbornBare, Alive
<1>8. QED
  BY <1>2, <1>3, <1>4, <1>5, <1>6, <1>7, ShapeMade DEF Shape, TypeOK

\* Only the Java objects, the counts and the posted handles change.
LEMMA ShapeHandles ==
    ASSUME Shape, UNCHANGED <<vm, handler, place, inLua, meta, strong, lent, weakened>>,
           count' \in [Addresses -> Nat], posted' \subseteq Handles,
           NEW h \in Handles, handle[h] \in HandleRecords, NEW r \in HandleRecords,
           handle' = [handle EXCEPT ![h] = r],
           handle[h].called => r.called,
           \A g \in posted' : g \in posted \/ (g = h /\ r.called)
    PROVE  Shape'
<1>1. handle' \in [Handles -> HandleRecords \cup {NoHandle}]
  BY HandleType
<1>2. NoHandle \notin HandleRecords
  BY GNVConstants DEF NoHandle, HandleRecords
<1>3. PostedCalled'
  BY <1>1, <1>2 DEF PostedCalled, Shape
<1>4. TypeOK'
  BY <1>1 DEF Shape, TypeOK, HandleRecords
<1>5. QED
  BY <1>3, <1>4 DEF Shape, OneValueEach, LuaAlive, MetaAlive, UnbornBare, Alive

LEMMA ShapeCheck ==
    ASSUME Shape, NEW h \in Handles, Check(h)
    PROVE  Shape'
<1>1. handle[h] \in HandleRecords
  BY HandleType DEF Check
<1> DEFINE r == [handle[h] EXCEPT !.destroyed = ~Has(handle[h].key)]
<1>2. r \in HandleRecords /\ r.called = handle[h].called
  BY <1>1 DEF HandleRecords
<1>3. handle' = [handle EXCEPT ![h] = r]
  BY HandleType DEF Check
<1>4. UNCHANGED <<vm, handler, place, inLua, meta, count, strong, posted, lent, weakened>>
  BY DEF Check, memory
<1> HIDE DEF r
<1>5. QED
  BY <1>1, <1>2, <1>3, <1>4, ShapeHandles DEF Shape, TypeOK

LEMMA ShapeDestroy ==
    ASSUME Shape, NEW h \in Handles, NEW sync \in BOOLEAN, Destroy(h, sync)
    PROVE  Shape'
<1>1. handle[h] \in HandleRecords /\ handle[h].key \in Addresses
  BY HandleType DEF Destroy, MayDestroy, HandleRecords
<1>2. PICK r \in HandleRecords : handle' = [handle EXCEPT ![h] = r] /\ r.called
  <2>1. \A b \in BOOLEAN :
           /\ [handle[h] EXCEPT !.called = TRUE] \in HandleRecords
           /\ [handle[h] EXCEPT !.called = TRUE].called
           /\ [[handle[h] EXCEPT !.called = TRUE] EXCEPT !.destroyed = b] \in HandleRecords
           /\ [[handle[h] EXCEPT !.called = TRUE] EXCEPT !.destroyed = b].called
    BY <1>1 DEF HandleRecords
  <2>2. Gone(handle[h].key) \in BOOLEAN
    BY DEF Gone
  <2>3. \/ handle' = [handle EXCEPT ![h] = [handle[h] EXCEPT !.called = TRUE]]
        \/ \E b \in BOOLEAN : handle' = [handle EXCEPT ![h] =
                 [[handle[h] EXCEPT !.called = TRUE] EXCEPT !.destroyed = b]]
    BY <2>2 DEF Destroy
  <2>4. QED
    BY <2>1, <2>3
<1>3. count' \in [Addresses -> Nat]
  BY <1>1, CountTypes DEF Destroy, Shape, TypeOK
<1>4. posted' \subseteq Handles /\ \A g \in posted' : g \in posted \/ g = h
  BY DEF Destroy, Posted, Shape, TypeOK
<1>5. UNCHANGED <<vm, handler, place, inLua, meta, strong, lent, weakened>>
  BY DEF Destroy, memory
<1>6. QED
  BY <1>1, <1>2, <1>3, <1>4, <1>5, ShapeHandles

LEMMA ShapeRunPosted ==
    ASSUME Shape, NEW h \in Handles, RunPosted(h)
    PROVE  Shape'
<1>1. handle[h] \in HandleRecords /\ handle[h].key \in Addresses
  BY HandleType DEF RunPosted, HandleRecords
<1>2. PICK r \in HandleRecords : handle' = [handle EXCEPT ![h] = r] /\ r.called = handle[h].called
  <2> DEFINE r1 == [handle[h] EXCEPT !.destroyed = Gone(handle[h].key)]
  <2>1. r1 \in HandleRecords /\ r1.called = handle[h].called
    <3>1. Gone(handle[h].key) \in BOOLEAN
      BY DEF Gone
    <3>2. QED
      BY <1>1, <3>1 DEF HandleRecords
  <2>2. handle = [handle EXCEPT ![h] = handle[h]]
    BY HandleType
  <2>3. handle' \in {handle, [handle EXCEPT ![h] = r1]}
    BY DEF RunPosted
  <2>4. QED
    BY <1>1, <2>1, <2>2, <2>3
<1>3. count' \in [Addresses -> Nat]
  BY <1>1, CountTypes DEF RunPosted, Shape, TypeOK
<1>4. posted' \subseteq posted /\ posted' \subseteq Handles
  BY DEF RunPosted, Shape, TypeOK
<1>5. UNCHANGED <<vm, handler, place, inLua, meta, strong, lent, weakened>>
  BY DEF RunPosted, memory
<1>6. QED
  BY <1>1, <1>2, <1>3, <1>4, <1>5, ShapeHandles

LEMMA ShapeDestroyVm ==
    ASSUME Shape, DestroyVm
    PROVE  Shape'
<1>1. 0 \in 0..MaxStrong
  BY GNVConstants
<1>2. TypeOK'
  <2>1. count' \in [Addresses -> Nat] /\ strong' \in [Values -> 0..MaxStrong]
    BY <1>1 DEF DestroyVm
  <2>2. /\ place' \in [Values -> Addresses \cup {"unborn", "freed"}]
        /\ meta' \in [Values -> Values \cup {Null}]
    BY DEF DestroyVm
  <2>3. QED
    BY <2>1, <2>2 DEF DestroyVm, Shape, TypeOK
<1>3. \A o \in Values : ~Alive(o)' /\ place'[o] = "freed"
  BY GNVConstants DEF DestroyVm, Alive
<1>4. inLua' = {} /\ UNCHANGED <<handle, posted>>
  BY DEF DestroyVm
<1>5. QED
  BY <1>2, <1>3, <1>4 DEF Shape, OneValueEach, LuaAlive, MetaAlive, UnbornBare, PostedCalled

LEMMA ShapeStep ==
    ASSUME Shape, [Next]_vars
    PROVE  Shape'
<1>1. CASE Lua
  BY <1>1, ShapeCreate, ShapeDrop, ShapeCollect, ShapeRef DEF Lua
<1>2. CASE Cross
  BY <1>2, ShapeToJava, ShapeCreateTable, ShapeToLua, ShapeCheck, ShapeGetMetatable,
     ShapeNewMetatable, ShapeSetMetatable DEF Cross
<1>3. CASE Release
  BY <1>3, ShapeDestroy, ShapeRunPosted DEF Release
<1>4. CASE DestroyVm
  BY <1>4, ShapeDestroyVm
<1>5. CASE UNCHANGED vars
  BY <1>5 DEF vars, memory, Shape, TypeOK, OneValueEach, LuaAlive, MetaAlive, UnbornBare,
              PostedCalled, Alive
<1>6. QED
  BY <1>1, <1>2, <1>3, <1>4, <1>5 DEF Next

----------------------------------------------------------------------------
\* The counts: one lemma for each way in which the two sides change.

LEMMA CountSame ==
    ASSUME Counted, UNCHANGED <<count, handler>>,
           \A b \in Addresses : Holders(b)' = Holders(b) /\ StrongAt(b)' = StrongAt(b)
    PROVE  Counted'
<1>1. SUFFICES ASSUME NEW b \in Addresses PROVE Right(b)'
  BY DEF Counted
<1>2. Held(b)' = Held(b)
  BY DEF Held
<1>3. QED
  BY <1>2 DEF Counted, Right

\* A handle more, and counted.
LEMMA CountUp ==
    ASSUME Shape, Counted, NEW a \in Addresses, count' = Added(a), handler' = handler,
           \A b \in Addresses : StrongAt(b)' = StrongAt(b),
           NEW h, h \notin Holders(a), Holders(a)' = Holders(a) \cup {h},
           \A b \in Addresses : b # a => Holders(b)' = Holders(b)
    PROVE  Counted'
<1>1. SUFFICES ASSUME NEW b \in Addresses PROVE Right(b)'
  BY DEF Counted
<1>2. /\ Right(b) /\ count[b] \in Nat
      /\ Cardinality(Holders(b)) \in Nat /\ StrongAt(b) \in Nat
  BY HoldersFinite, StrongAtType DEF Counted, Shape, TypeOK
<1>3. CASE b = a
  <2>1. Cardinality(Holders(a)') = Cardinality(Holders(a)) + 1
    BY HoldersFinite, FS_AddElement
  <2>2. Held(b)' = Held(b) + 1
    BY <1>2, <1>3, <2>1 DEF Held
  <2>3. count'[b] = count[b] + 1
    BY <1>3, CountTypes DEF Shape, TypeOK
  <2>4. QED
    BY <1>2, <2>2, <2>3 DEF Right, Held
<1>4. CASE b # a
  <2>1. Held(b)' = Held(b)
    BY <1>4 DEF Held
  <2>2. count'[b] = count[b]
    BY <1>4, CountTypes DEF Shape, TypeOK
  <2>3. QED
    BY <1>2, <2>1, <2>2 DEF Right
<1>5. QED
  BY <1>3, <1>4

\* A handle less, and its count taken away.
LEMMA CountDown ==
    ASSUME Shape, Counted, NEW a \in Addresses, count' = Removed(a), handler' = handler,
           \A b \in Addresses : StrongAt(b)' = StrongAt(b),
           NEW h, h \in Holders(a), Holders(a)' = Holders(a) \ {h},
           \A b \in Addresses : b # a => Holders(b)' = Holders(b)
    PROVE  Counted'
<1>1. SUFFICES ASSUME NEW b \in Addresses PROVE Right(b)'
  BY DEF Counted
<1>2. /\ Right(b) /\ count[b] \in Nat
      /\ Cardinality(Holders(b)) \in Nat /\ StrongAt(b) \in Nat
  BY HoldersFinite, StrongAtType DEF Counted, Shape, TypeOK
<1>3. CASE b = a
  <2>1. Cardinality(Holders(a)') = Cardinality(Holders(a)) - 1
    BY HoldersFinite, FS_RemoveElement
  <2>2. Held(b)' = Held(b) - 1
    BY <1>2, <1>3, <2>1 DEF Held
  <2>3. count[b] > 0
    BY <1>2, <1>3, HeldHas DEF Shape, Has
  <2>4. count'[b] = count[b] - 1
    BY <1>3, <2>3, CountTypes DEF Shape, TypeOK
  <2>5. QED
    BY <1>2, <2>2, <2>4 DEF Right, Held
<1>4. CASE b # a
  <2>1. Held(b)' = Held(b)
    BY <1>4 DEF Held
  <2>2. count'[b] = count[b]
    BY <1>4, CountTypes DEF Shape, TypeOK
  <2>3. QED
    BY <1>2, <2>1, <2>2 DEF Right
<1>5. QED
  BY <1>3, <1>4

\* A new value has no strong references, and no address before.
LEMMA StrongNew ==
    ASSUME Shape, Shape', StrongAlive, NEW o \in Values, NEW a \in Addresses,
           NewValue(o, a), strong' = strong
    PROVE  StrongAlive' /\ \A b \in Addresses : StrongAt(b)' = StrongAt(b)
<1>1. /\ ~Alive(o) /\ Alive(o)' /\ place'[o] = a
      /\ \A p \in Values : Alive(p) => Alive(p)' /\ place'[p] = place[p]
      /\ \A p \in Values : p # o => place'[p] = place[p]
  BY NewValueShape
<1>2. StrongAlive'
  BY <1>1 DEF StrongAlive
<1>3. strong[o] = 0
  BY <1>1, GNVConstants DEF StrongAlive, Shape, TypeOK
<1>4. StrongAt(a) = 0
  <2>1. {p \in Values : place[p] = a} = {}
    BY DEF NewValue
  <2>2. QED
    BY <2>1 DEF StrongAt
<1>5. StrongAt(a)' = 0
  <2>1. {p \in Values : place'[p] = a} = {o}
    BY <1>1 DEF NewValue
  <2>2. QED
    BY <1>3, <2>1 DEF StrongAt
<1>6. ASSUME NEW b \in Addresses, b # a PROVE StrongAt(b)' = StrongAt(b)
  <2>1. \A p \in Values : place'[p] = b <=> place[p] = b
    BY <1>1, <1>6 DEF Alive
  <2>2. {p \in Values : place'[p] = b} = {p \in Values : place[p] = b}
    BY <2>1
  <2> DEFINE First(S) == IF S = {} THEN 0 ELSE strong[CHOOSE p \in S : TRUE]
  <2>3. StrongAt(b) = First({p \in Values : place[p] = b})
    BY DEF StrongAt
  <2>4. StrongAt(b)' = First({p \in Values : place'[p] = b})
    BY DEF StrongAt
  <2> HIDE DEF First
  <2>5. QED
    BY <2>2, <2>3, <2>4
<1>7. QED
  BY <1>2, <1>4, <1>5, <1>6

\* A handle is made and counted.
LEMMA SoundMade ==
    ASSUME Shape, Sound, NEW X, Agree(X), NEW g \in Handles, Fresh(g),
           NEW o \in Values, NEW a \in Addresses,
           handle' = [X EXCEPT ![g] = NewHandle(o, a)],
           count' = Added(a), posted' = posted, handler' = handler,
           place'[o] = a, \A p \in Values : Alive(p) => place'[p] = place[p],
           \A b \in Addresses : StrongAt(b)' = StrongAt(b), StrongAlive'
    PROVE  Sound'
<1>1. /\ handle'[g] = NewHandle(o, a)
      /\ \A i \in Handles \ {g} : handle'[i] = X[i]
  BY MadeShape
<1>2. \A i \in Handles \ {g} :
         /\ handle'[i].key = handle[i].key /\ handle'[i].of = handle[i].of
         /\ handle'[i].called = handle[i].called
         /\ handle'[i].destroyed => handle[i].destroyed
  BY <1>1 DEF Agree
<1>3. /\ handle'[g].key = a /\ handle'[g].of = o /\ handle'[g].called = FALSE
      /\ handle'[g].destroyed = FALSE
  <2>1. /\ NewHandle(o, a).key = a /\ NewHandle(o, a).of = o
        /\ NewHandle(o, a).called = FALSE /\ NewHandle(o, a).destroyed = FALSE
    BY NewHandleShape
  <2>2. QED
    BY <1>1, <2>1
<1>4. KeptAlive'
  <2>1. SUFFICES ASSUME NEW i \in Handles, Keeps(i)'
                 PROVE  place'[handle'[i].of] = handle'[i].key
    BY DEF KeptAlive
  <2>2. CASE i = g
    BY <1>3, <2>2
  <2>3. CASE i # g
    <3>1. Keeps(i)
      BY <1>2, <2>1, <2>3 DEF Keeps
    <3>2. handle[i] \in HandleRecords
      BY <3>1, HandleType DEF Keeps
    <3>3. /\ place[handle[i].of] = handle[i].key
          /\ handle[i].of \in Values /\ handle[i].key \in Addresses
      BY <3>1, <3>2 DEF Sound, KeptAlive, HandleRecords
    <3>4. place'[handle[i].of] = place[handle[i].of]
      BY <3>3 DEF Alive
    <3>5. QED
      BY <1>2, <2>3, <3>3, <3>4
  <2>4. QED
    BY <2>2, <2>3
<1>5. NotMarked'
  BY <1>2, <1>3 DEF Sound, NotMarked
<1>6. g \notin Holders(a) /\ Holders(a)' = Holders(a) \cup {g}
  BY <1>2, <1>3 DEF Holders, Fresh
<1>7. ASSUME NEW b \in Addresses, b # a PROVE Holders(b)' = Holders(b)
  BY <1>2, <1>3, <1>7 DEF Holders, Fresh
<1>8. Counted'
  BY <1>6, <1>7, CountUp DEF Sound
<1>9. QED
  BY <1>4, <1>5, <1>8 DEF Sound

\* A handle's marks change, and nothing is counted.
LEMMA SoundMarked ==
    ASSUME Shape, Sound, UNCHANGED <<handler, place, count, strong, posted>>,
           NEW h \in Handles, handle[h] \in HandleRecords,
           handle' = [handle EXCEPT ![h].destroyed = ~Has(handle[h].key)]
    PROVE  Sound'
<1>1. handle[h].key \in Addresses /\ handle \in [Handles -> HandleRecords \cup {NoHandle}]
  BY HandleType DEF HandleRecords
<1>2. /\ \A i \in Handles : /\ handle'[i].key = handle[i].key /\ handle'[i].of = handle[i].of
                            /\ handle'[i].called = handle[i].called
                            /\ i # h => handle'[i].destroyed = handle[i].destroyed
      /\ handle'[h].destroyed = ~Has(handle[h].key)
  <2> DEFINE r == [handle[h] EXCEPT !.destroyed = ~Has(handle[h].key)]
  <2>1. /\ r.key = handle[h].key /\ r.of = handle[h].of /\ r.called = handle[h].called
        /\ r.destroyed = ~Has(handle[h].key)
    BY DEF HandleRecords
  <2>2. handle' = [handle EXCEPT ![h] = r]
    BY <1>1
  <2> HIDE DEF r
  <2>3. QED
    BY <1>1, <2>1, <2>2
<1>3. \A b \in Addresses : Holders(b)' = Holders(b)
  BY <1>2 DEF Holders
<1>4. \A b \in Addresses : StrongAt(b)' = StrongAt(b)
  BY DEF StrongAt
<1>5. Counted'
  BY <1>3, <1>4, CountSame DEF Sound
<1>6. NotMarked'
  <2>1. ASSUME ~handle[h].called PROVE Has(handle[h].key)
    <3>1. h \in Holders(handle[h].key)
      BY <2>1 DEF Holders
    <3>2. QED
      BY <1>1, <3>1, HeldHas DEF Shape, Sound, Counted
  <2>2. QED
    BY <1>2, <2>1 DEF Sound, NotMarked
<1>7. KeptAlive' /\ StrongAlive'
  BY <1>2 DEF Sound, KeptAlive, Keeps, StrongAlive, Alive
<1>8. QED
  BY <1>5, <1>6, <1>7 DEF Sound

\* A handle is given up: its removal is done, or was never to be.
LEMMA SoundReleased ==
    ASSUME Shape, Sound, UNCHANGED <<handler, place, strong>>,
           NEW h \in Handles, handle[h] \in HandleRecords, Keeps(h),
           NEW r \in HandleRecords, r.key = handle[h].key, r.called,
           handle' = [handle EXCEPT ![h] = r],
           posted' = posted \ {h},
           \/ count' = Removed(handle[h].key)
           \/ count' = count /\ ~handler
    PROVE  Sound'
<1>1. handle \in [Handles -> HandleRecords \cup {NoHandle}]
  BY HandleType
<1>a. PICK a \in Addresses : a = handle[h].key
  BY DEF HandleRecords
<1>2. handle'[h] = r /\ \A i \in Handles \ {h} : handle'[i] = handle[i]
  BY <1>1
<1>3. \A b \in Addresses : StrongAt(b)' = StrongAt(b)
  BY DEF StrongAt
<1>4. h \in Holders(a) /\ Holders(a)' = Holders(a) \ {h}
  BY <1>a, <1>2 DEF Holders, Keeps
<1>5. ASSUME NEW b \in Addresses, b # a PROVE Holders(b)' = Holders(b)
  BY <1>a, <1>2, <1>5 DEF Holders
<1>6. Counted'
  <2>1. CASE count' = Removed(a)
    BY <1>3, <1>4, <1>5, <2>1, CountDown DEF Sound
  <2>2. CASE count' = count /\ ~handler
    <3>1. SUFFICES ASSUME NEW b \in Addresses PROVE Right(b)'
      BY DEF Counted
    <3>2. /\ Right(b) /\ count[b] \in Nat
          /\ Cardinality(Holders(b)) \in Nat /\ StrongAt(b) \in Nat
      BY HoldersFinite, StrongAtType DEF Sound, Counted, Shape, TypeOK
    <3>3. \/ Cardinality(Holders(b)') = Cardinality(Holders(b)) - 1
          \/ Holders(b)' = Holders(b)
      BY <1>4, <1>5, HoldersFinite, FS_RemoveElement
    <3>4. Cardinality(Holders(b)') \in Int /\ Cardinality(Holders(b)') <= Cardinality(Holders(b))
      BY <3>2, <3>3
    <3>5. Held(b)' <= Held(b) /\ Held(b)' \in Int /\ Held(b) \in Int
      BY <1>3, <3>2, <3>4 DEF Held
    <3>6. QED
      BY <2>2, <3>2, <3>5 DEF Right
  <2>3. QED
    BY <1>a, <2>1, <2>2
<1>7. KeptAlive'
  BY <1>2 DEF Sound, KeptAlive, Keeps
<1>8. NotMarked' /\ StrongAlive'
  BY <1>2 DEF Sound, NotMarked, StrongAlive, Alive
<1>9. QED
  BY <1>6, <1>7, <1>8 DEF Sound

----------------------------------------------------------------------------
\* Each action keeps a sound table sound.

\* Values come, go and are forgotten.
LEMMA SoundCreate ==
    ASSUME Shape, Shape', Sound, NEW o \in Values, NEW a \in Addresses, Create(o, a)
    PROVE  Sound'
<1>1. NewValue(o, a) /\ UNCHANGED <<vm, handler, count, handle, strong, posted, lent, weakened>>
  BY DEF Create
<1>2. StrongAlive' /\ \A b \in Addresses : StrongAt(b)' = StrongAt(b)
  BY <1>1, StrongNew DEF Sound
<1>3. \A p \in Values : Alive(p) => place'[p] = place[p]
  BY <1>1, NewValueShape
<1>4. Counted'
  BY <1>1, <1>2, CountSame DEF Sound, Holders
<1>5. ASSUME NEW h \in Handles, Keeps(h) PROVE place'[handle[h].of] = handle[h].key
  <2>1. handle[h] \in HandleRecords
    BY <1>5, HandleType DEF Keeps
  <2>2. /\ handle[h].of \in Values /\ handle[h].key \in Addresses
        /\ place[handle[h].of] = handle[h].key
    BY <1>5, <2>1 DEF HandleRecords, Sound, KeptAlive
  <2>3. QED
    BY <1>3, <2>2 DEF Alive
<1>6. KeptAlive' /\ NotMarked'
  BY <1>1, <1>5 DEF KeptAlive, Keeps, NotMarked, Sound
<1>7. QED
  BY <1>2, <1>4, <1>6 DEF Sound

LEMMA SoundCollect ==
    ASSUME Shape, Sound, NEW o \in Values, Collect(o)
    PROVE  Sound'
<1>1. /\ place'[o] = "freed" /\ \A p \in Values \ {o} : place'[p] = place[p]
      /\ UNCHANGED <<vm, handler, count, handle, strong, posted, lent, weakened>>
  BY DEF Collect, Shape, TypeOK
<1>a. PICK a \in Addresses : a = place[o]
  BY DEF Collect, Alive
<1>2. Holders(a) = {} /\ StrongAt(a) = 0
  <2>1. ~Has(a) /\ Right(a)
    BY <1>a DEF Collect, Reachable, Sound, Counted
  <2>2. QED
    BY <2>1, HeldHas, StrongAtType DEF Shape
<1>3. strong[o] = 0
  BY <1>a, <1>2, StrongAtValue DEF Shape, Collect
<1>4. \A b \in Addresses : Holders(b)' = Holders(b)
  BY <1>1 DEF Holders
<1>5. StrongAt(a)' = 0
  <2>1. {p \in Values : place'[p] = a} = {}
    BY <1>1, <1>a, GNVConstants DEF Shape, OneValueEach, Alive
  <2>2. QED
    BY <2>1 DEF StrongAt
<1>6. ASSUME NEW b \in Addresses, b # a PROVE StrongAt(b)' = StrongAt(b)
  <2>1. {p \in Values : place'[p] = b} = {p \in Values : place[p] = b}
    BY <1>1, <1>a, <1>6, GNVConstants
  <2> DEFINE First(S) == IF S = {} THEN 0 ELSE strong[CHOOSE p \in S : TRUE]
  <2>2. StrongAt(b) = First({p \in Values : place[p] = b})
    BY DEF StrongAt
  <2>3. StrongAt(b)' = First({p \in Values : place'[p] = b})
    BY <1>1 DEF StrongAt
  <2> HIDE DEF First
  <2>4. QED
    BY <2>1, <2>2, <2>3
<1>7. Counted'
  BY <1>1, <1>2, <1>4, <1>5, <1>6, CountSame DEF Sound
<1>8. StrongAlive'
  BY <1>1, <1>3 DEF Sound, StrongAlive, Alive
<1>9. ASSUME NEW h \in Handles, Keeps(h) PROVE place'[handle[h].of] = handle[h].key
  <2>1. handle[h] \in HandleRecords
    BY <1>9, HandleType DEF Keeps
  <2>2. handle[h].of \in Values /\ place[handle[h].of] = handle[h].key
    BY <1>9, <2>1 DEF HandleRecords, Sound, KeptAlive
  <2>3. handle[h].key # a
    BY <1>2, <1>9 DEF Holders, Keeps
  <2>4. handle[h].of # o
    BY <1>a, <2>2, <2>3
  <2>5. QED
    BY <1>1, <2>2, <2>4
<1>10. KeptAlive' /\ NotMarked'
  BY <1>1, <1>9 DEF KeptAlive, Keeps, NotMarked, Sound
<1>11. QED
  BY <1>7, <1>8, <1>10 DEF Sound

\* mstrong and mweak change the count and the strong references alike.
LEMMA SoundRef ==
    ASSUME Shape, Shape', Sound, Balanced', NEW o \in Values, RefStrong(o) \/ RefWeak(o)
    PROVE  Sound'
<1>1. /\ UNCHANGED <<handler, place, handle, posted>>
      /\ strong'[o] \in Nat /\ strong[o] \in Nat
      /\ \A p \in Values \ {o} : strong'[p] = strong[p]
      /\ Alive(o)
  BY GNVConstants DEF RefStrong, RefWeak, memory, Shape, TypeOK, LuaAlive
<1>a. PICK a \in Addresses : a = place[o]
  BY <1>1 DEF Alive
<1>2. StrongAt(a) = strong[o]
  BY <1>a, <1>1, StrongAtValue DEF Shape
<1>3. {p \in Values : place[p] = a} = {o}
  BY <1>a, <1>1 DEF Shape, OneValueEach
<1>4. StrongAt(a)' = strong'[o]
  BY <1>1, <1>3 DEF StrongAt
<1>5. ASSUME NEW b \in Addresses, b # a PROVE StrongAt(b)' = StrongAt(b)
  <2>1. CASE {p \in Values : place[p] = b} = {}
    BY <1>1, <2>1 DEF StrongAt
  <2>2. CASE {p \in Values : place[p] = b} # {}
    <3>1. (CHOOSE p \in {p \in Values : place[p] = b} : TRUE) \in Values \ {o}
      BY <1>a, <1>5, <2>2
    <3>2. QED
      BY <1>1, <2>2, <3>1 DEF StrongAt
  <2>3. QED
    BY <2>1, <2>2
<1>6. \A b \in Addresses : Holders(b)' = Holders(b)
  BY <1>1 DEF Holders
<1>7. Counted'
  <2>1. SUFFICES ASSUME NEW b \in Addresses PROVE Right(b)'
    BY DEF Counted
  <2>2. /\ Right(b) /\ count[b] \in Nat
        /\ Cardinality(Holders(b)) \in Nat /\ StrongAt(b) \in Nat
    BY HoldersFinite, StrongAtType DEF Sound, Counted, Shape, TypeOK
  <2>3. CASE b # a
    <3>1. Held(b)' = Held(b)
      BY <1>5, <1>6, <2>3 DEF Held
    <3>2. count'[b] = count[b]
      BY <1>a, <2>3, CountTypes DEF RefStrong, RefWeak, Shape, TypeOK
    <3>3. QED
      BY <1>1, <2>2, <3>1, <3>2 DEF Right
  <2>4. CASE b = a /\ RefStrong(o)
    <3>1. strong'[o] = strong[o] + 1
      BY <2>4 DEF RefStrong, Shape, TypeOK
    <3>2. Held(b)' = Held(b) + 1
      BY <1>1, <1>2, <1>4, <1>6, <2>2, <2>4, <3>1 DEF Held
    <3>3. count'[b] = count[b] + 1
      BY <1>a, <2>4, CountTypes DEF RefStrong, Shape, TypeOK
    <3>4. QED
      BY <1>1, <2>2, <3>2, <3>3 DEF Right, Held
  <2>5. CASE b = a /\ RefWeak(o) /\ strong[o] > 0
    <3>1. strong'[o] = strong[o] - 1 /\ strong[o] > 0
      BY <1>1, <2>5 DEF RefWeak, Shape, TypeOK
    <3>2. Held(b)' = Held(b) - 1
      BY <1>1, <1>2, <1>4, <1>6, <2>2, <2>5, <3>1 DEF Held
    <3>3. count[b] > 0
      BY <1>2, <2>2, <2>5, <3>1, HeldHas DEF Shape, Has
    <3>4. count'[b] = count[b] - 1
      BY <1>a, <2>5, <3>3, CountTypes DEF RefWeak, Shape, TypeOK
    <3>5. QED
      BY <1>1, <2>2, <3>2, <3>4 DEF Right, Held
  <2>6. CASE b = a /\ RefWeak(o) /\ ~(strong[o] > 0)
    <3>1. strong[o] = 0 /\ strong'[o] = 0
      BY <1>1, <2>6 DEF RefWeak, Shape, TypeOK
    <3>2. weakened' = (weakened \/ Has(a))
      BY <1>a, <2>6, <3>1 DEF RefWeak
    <3>a. ~Has(a)
      BY <3>2, Zenon DEF Balanced
    <3>3. count[b] = 0 /\ count'[b] = 0
      <4>1. count[b] = 0
        BY <2>2, <2>6, <3>a DEF Has
      <4>2. count' = Removed(a) /\ count \in [Addresses -> Nat]
        BY <1>a, <2>6 DEF RefWeak, Shape, TypeOK
      <4>3. QED
        BY <2>6, <4>1, <4>2 DEF Removed
    <3>4. Held(b)' = Held(b)
      BY <1>2, <1>4, <1>6, <2>6, <3>1 DEF Held
    <3>5. QED
      BY <1>1, <2>2, <3>3, <3>4 DEF Right
  <2>7. QED
    BY <2>3, <2>4, <2>5, <2>6
<1>8. KeptAlive' /\ NotMarked'
  BY <1>1 DEF Sound, KeptAlive, Keeps, NotMarked
<1>9. StrongAlive'
  BY <1>1 DEF Sound, StrongAlive, Alive
<1>10. QED
  BY <1>7, <1>8, <1>9 DEF Sound

\* Values cross.
LEMMA SoundToJava ==
    ASSUME Shape, Sound, NEW o \in Values, NEW h \in Handles, ToJava(o, h)
    PROVE  Sound'
<1>1. PICK a \in Addresses : a = place[o]
  BY DEF ToJava, Shape, LuaAlive, Alive
<1>2. Agree(handle)
  BY HandleType DEF Agree
<1>3. /\ count' = Added(a) /\ handle' = [handle EXCEPT ![h] = NewHandle(o, a)] /\ Fresh(h)
      /\ UNCHANGED <<handler, place, strong, posted>>
  BY <1>1 DEF ToJava, memory
<1>4. StrongAlive' /\ \A b \in Addresses : StrongAt(b)' = StrongAt(b)
  BY <1>3 DEF Sound, StrongAlive, Alive, StrongAt
<1>5. QED
  BY <1>1, <1>2, <1>3, <1>4, SoundMade

LEMMA SoundCreateTable ==
    ASSUME Shape, Shape', Sound, NEW o \in Values, NEW a \in Addresses, NEW h \in Handles,
           CreateTable(o, a, h)
    PROVE  Sound'
<1>1. /\ count' = Added(a) /\ handle' = [handle EXCEPT ![h] = NewHandle(o, a)] /\ Fresh(h)
      /\ NewValue(o, a) /\ UNCHANGED <<handler, strong, posted>>
  BY DEF CreateTable
<1>2. Agree(handle)
  BY HandleType DEF Agree
<1>3. place'[o] = a /\ \A p \in Values : Alive(p) => place'[p] = place[p]
  BY <1>1, NewValueShape
<1>4. StrongAlive' /\ \A b \in Addresses : StrongAt(b)' = StrongAt(b)
  BY <1>1, StrongNew DEF Sound
<1>5. QED
  BY <1>1, <1>2, <1>3, <1>4, SoundMade

LEMMA SoundNewMetatable ==
    ASSUME Shape, Shape', Sound, NEW h \in Handles, NEW h2 \in Handles, NEW o \in Values,
           NEW a \in Addresses, SetNewMetatable(h, o, a, h2)
    PROVE  Sound'
<1>1. /\ count' = Added(a) /\ handle' = [Checked(h) EXCEPT ![h2] = NewHandle(o, a)]
      /\ Fresh(h2) /\ NewValue(o, a) /\ UNCHANGED <<handler, strong, posted>>
  BY DEF SetNewMetatable
<1>2. Agree(Checked(h))
  BY ValidHandle, ChecksAgree DEF SetNewMetatable
<1>3. place'[o] = a /\ \A p \in Values : Alive(p) => place'[p] = place[p]
  BY <1>1, NewValueShape
<1>4. StrongAlive' /\ \A b \in Addresses : StrongAt(b)' = StrongAt(b)
  BY <1>1, StrongNew DEF Sound
<1>5. QED
  BY <1>1, <1>2, <1>3, <1>4, SoundMade

LEMMA SoundGetMetatable ==
    ASSUME Shape, Sound, NEW h \in Handles, NEW h2 \in Handles, GetMetatable(h, h2)
    PROVE  Sound'
<1>1. /\ handle[h] \in HandleRecords
      /\ \A p \in ValueAt(handle[h].key) : p \in Values /\ Alive(p)
  BY ValidHandle DEF GetMetatable, ValueAt
<1>2. PICK p \in ValueAt(handle[h].key) :
         /\ meta[p] # Null /\ count' = Added(place[meta[p]])
         /\ handle' = [Checked(h) EXCEPT ![h2] = NewHandle(meta[p], place[meta[p]])]
  BY DEF GetMetatable
<1>3. PICK o \in Values : o = meta[p] /\ Alive(o)
  BY <1>1, <1>2 DEF Shape, TypeOK, MetaAlive
<1>4. PICK a \in Addresses : a = place[o]
  BY <1>3 DEF Alive
<1>5. Agree(Checked(h))
  BY <1>1, ChecksAgree
<1>6. /\ count' = Added(a) /\ handle' = [Checked(h) EXCEPT ![h2] = NewHandle(o, a)]
      /\ Fresh(h2) /\ UNCHANGED <<handler, place, strong, posted>>
  BY <1>2, <1>3, <1>4 DEF GetMetatable, memory
<1>7. StrongAlive' /\ \A b \in Addresses : StrongAt(b)' = StrongAt(b)
  BY <1>6 DEF Sound, StrongAlive, Alive, StrongAt
<1>8. QED
  BY <1>4, <1>5, <1>6, <1>7, SoundMade

\* What leaves counts, handles and places alone.
LEMMA SoundQuiet ==
    ASSUME Sound, UNCHANGED <<handler, place, count, handle, strong, posted>>
    PROVE  Sound'
  BY DEF Sound, KeptAlive, Keeps, NotMarked, StrongAlive, Alive, Counted, Right, Held,
         Holders, StrongAt

\* Handles are given back.
LEMMA SoundDestroy ==
    ASSUME Shape, Sound, vm = "open", NEW h \in Handles, NEW sync \in BOOLEAN,
           Destroy(h, sync)
    PROVE  Sound'
<1>1. handle[h] \in HandleRecords /\ handle[h].key \in Addresses
  BY HandleType DEF Destroy, MayDestroy, HandleRecords
<1>2. ~handle[h].called /\ ~handle[h].destroyed /\ Keeps(h) /\ h \notin posted
  BY DEF Destroy, MayDestroy, Keeps, Sound, NotMarked, Shape, PostedCalled
<1>3. UNCHANGED <<handler, place, strong>>
  BY DEF Destroy, memory
<1> DEFINE r(b) == [[handle[h] EXCEPT !.called = TRUE] EXCEPT !.destroyed = b]
<1>4. \A b \in BOOLEAN : r(b) \in HandleRecords /\ r(b).key = handle[h].key
                         /\ r(b).of = handle[h].of /\ r(b).called
  BY <1>1 DEF HandleRecords
<1>5. Gone(handle[h].key) \in BOOLEAN
  BY DEF Gone
<1>6. \/ /\ count' = Removed(handle[h].key) /\ posted' = posted
         /\ handle' = [handle EXCEPT ![h] = r(Gone(handle[h].key))]
      \/ /\ count' = count /\ posted' = Posted(h)
         /\ handle' = [handle EXCEPT ![h] = r(TRUE)]
  BY <1>2 DEF Destroy
<1> HIDE DEF r
<1>7. posted = posted \ {h}
  BY <1>2
<1>8. CASE count' = Removed(handle[h].key) /\ posted' = posted
           /\ handle' = [handle EXCEPT ![h] = r(Gone(handle[h].key))]
  BY <1>1, <1>2, <1>3, <1>4, <1>5, <1>7, <1>8, SoundReleased
<1>9. CASE count' = count /\ posted' = Posted(h) /\ handle' = [handle EXCEPT ![h] = r(TRUE)]
  <2>1. CASE ~handler
    <3>1. posted' = posted \ {h}
      BY <1>7, <1>9, <2>1 DEF Posted
    <3>2. QED
      BY <1>1, <1>2, <1>3, <1>4, <1>9, <2>1, <3>1, SoundReleased
  <2>2. CASE handler
    <3>1. posted' = posted \cup {h}
      BY <1>9, <2>2 DEF Posted
    <3>2. /\ handle'[h] = r(TRUE) /\ \A i \in Handles \ {h} : handle'[i] = handle[i]
      BY <1>9, HandleType
    <3>3. /\ handle'[h].key = handle[h].key /\ handle'[h].of = handle[h].of
          /\ handle'[h].called
      BY <1>4, <3>2
    <3>4. \A b \in Addresses : Holders(b)' = Holders(b)
      BY <1>2, <3>1, <3>2, <3>3 DEF Holders
    <3>5. \A b \in Addresses : StrongAt(b)' = StrongAt(b)
      BY <1>3 DEF StrongAt
    <3>6. Counted'
      BY <1>3, <1>9, <3>4, <3>5, CountSame DEF Sound
    <3>7. KeptAlive'
      BY <1>2, <1>3, <3>1, <3>2, <3>3 DEF Sound, KeptAlive, Keeps
    <3>8. NotMarked' /\ StrongAlive'
      BY <1>3, <3>2, <3>3 DEF Sound, NotMarked, StrongAlive, Alive
    <3>9. QED
      BY <3>6, <3>7, <3>8 DEF Sound
  <2>3. QED
    BY <2>1, <2>2
<1>10. QED
  BY <1>6, <1>8, <1>9

LEMMA SoundRunPosted ==
    ASSUME Shape, Sound, vm = "open", NEW h \in Handles, RunPosted(h)
    PROVE  Sound'
<1>1. handle[h] \in HandleRecords /\ handle[h].key \in Addresses /\ handle[h].called /\ Keeps(h)
  BY HandleType DEF RunPosted, HandleRecords, Keeps, Shape, PostedCalled
<1>2. UNCHANGED <<handler, place, strong>> /\ posted' = posted \ {h}
  BY DEF RunPosted, memory
<1> DEFINE r == [handle[h] EXCEPT !.destroyed = Gone(handle[h].key)]
<1>3. r \in HandleRecords /\ r.key = handle[h].key /\ r.called
  <2>1. Gone(handle[h].key) \in BOOLEAN
    BY DEF Gone
  <2>2. QED
    BY <1>1, <2>1 DEF HandleRecords
<1>4. count' = Removed(handle[h].key) /\ handle' = [handle EXCEPT ![h] = r]
  BY HandleType DEF RunPosted
<1> HIDE DEF r
<1>5. QED
  BY <1>1, <1>2, <1>3, <1>4, SoundReleased

----------------------------------------------------------------------------
\* The invariant.

LEMMA InvariantInit == ASSUME Init PROVE IInv
<1>1. Shape
  BY ShapeInit
<1>2. \A h \in Handles : ~Keeps(h) /\ handle[h].called
  BY DEF Init, Keeps, NoHandle
<1>3. \A a \in Addresses : Right(a)
  <2>1. SUFFICES ASSUME NEW a \in Addresses PROVE Right(a)
    OBVIOUS
  <2>2. Holders(a) = {}
    BY DEF Init, Holders, NoHandle
  <2>3. StrongAt(a) = 0
    BY GNVConstants DEF Init, StrongAt
  <2>4. count[a] = 0 /\ Cardinality({}) = 0
    BY FS_EmptySet DEF Init
  <2>5. QED
    BY <2>2, <2>3, <2>4 DEF Right, Held
<1>4. StrongAlive
  BY DEF Init, StrongAlive
<1>5. QED
  BY <1>1, <1>2, <1>3, <1>4 DEF IInv, Sound, KeptAlive, NotMarked, Counted

\* A VM is not opened again, and what was unbalanced stays so.
LEMMA StaysOpen ==
    ASSUME TypeOK, [Next]_vars, vm' = "open", Balanced'
    PROVE  vm = "open" /\ Balanced
<1> DEFINE Same == UNCHANGED <<vm, lent, weakened>>
<1>1. CASE Lua
  <2>1. PICK o \in Values : \/ \E a \in Addresses : Create(o, a)
                           \/ Drop(o) \/ Collect(o) \/ RefStrong(o) \/ RefWeak(o)
    BY <1>1 DEF Lua
  <2>2. CASE RefWeak(o)
    BY <2>2 DEF RefWeak, Balanced, TypeOK
  <2>3. CASE ~RefWeak(o)
    BY <2>1, <2>3 DEF Create, Drop, Collect, RefStrong, Balanced
  <2>4. QED
    BY <2>2, <2>3
<1>2. CASE Cross
  <2>1. ASSUME NEW h \in Handles, \E o \in Values : ToJava(o, h) PROVE Same
    BY <2>1 DEF ToJava
  <2>2. ASSUME NEW h \in Handles, \E o \in Values, a \in Addresses : CreateTable(o, a, h)
        PROVE  Same
    BY <2>2 DEF CreateTable
  <2>3. ASSUME NEW h \in Handles, ToLua(h) \/ Check(h) PROVE Same
    BY <2>3 DEF ToLua, Check
  <2>4. ASSUME NEW h \in Handles, \E h2 \in Handles : GetMetatable(h, h2)
        PROVE  Same
    BY <2>4 DEF GetMetatable
  <2>5. ASSUME NEW h \in Handles, \E h2 \in Handles, o \in Values, a \in Addresses :
                                     SetNewMetatable(h, o, a, h2)
        PROVE  Same
    BY <2>5 DEF SetNewMetatable
  <2>6. ASSUME NEW h \in Handles, \E h2, t \in Handles : SetMetatable(h, t, h2)
        PROVE  FALSE
    BY <2>6 DEF SetMetatable, Balanced
  <2>7. QED
    BY <1>2, <2>1, <2>2, <2>3, <2>4, <2>5, <2>6 DEF Cross, Balanced
<1>3. CASE Release
  <2>1. ASSUME NEW h \in Handles, RunPosted(h) PROVE Same
    BY <2>1 DEF RunPosted
  <2>2. ASSUME NEW h \in Handles, NEW sync \in BOOLEAN, Destroy(h, sync)
        PROVE  Same
    BY <2>2 DEF Destroy
  <2>3. QED
    BY <1>3, <2>1, <2>2 DEF Release, Balanced
<1>4. CASE DestroyVm
  BY <1>4 DEF DestroyVm
<1>5. CASE UNCHANGED vars
  BY <1>5 DEF vars, Balanced
<1>6. QED
  BY <1>1, <1>2, <1>3, <1>4, <1>5 DEF Next

LEMMA InvariantStep ==
    ASSUME IInv, [Next]_vars
    PROVE  IInv'
<1>1. Shape /\ Shape'
  BY ShapeStep DEF IInv
<1>2. SUFFICES ASSUME vm' = "open", Balanced' PROVE Sound'
  BY <1>1 DEF IInv
<1>3. vm = "open" /\ Balanced
  BY <1>1, <1>2, StaysOpen DEF Shape
<1>4. Sound
  BY <1>3 DEF IInv
<1>5. CASE Lua
  <2>1. ASSUME NEW o \in Values, Drop(o) PROVE Sound'
    BY <1>4, <2>1, SoundQuiet DEF Drop
  <2>2. QED
    BY <1>1, <1>2, <1>4, <1>5, <2>1, SoundCreate, SoundCollect, SoundRef DEF Lua
<1>6. CASE Cross
  <2>1. ASSUME NEW h \in Handles, ToLua(h) PROVE Sound'
    BY <1>4, <2>1, SoundQuiet DEF ToLua
  <2>2. ASSUME NEW h \in Handles, Check(h) PROVE Sound'
    <3>1. handle[h] \in HandleRecords
      BY <1>1, <2>2, HandleType DEF Check
    <3>2. /\ UNCHANGED <<handler, place, count, strong, posted>>
          /\ handle' = [handle EXCEPT ![h].destroyed = ~Has(handle[h].key)]
      BY <2>2 DEF Check, memory
    <3>3. QED
      BY <1>1, <1>4, <3>1, <3>2, SoundMarked
  <2>3. ASSUME NEW h \in Handles, NEW t \in Handles, NEW h2 \in Handles,
               SetMetatable(h, t, h2)
        PROVE  FALSE
    BY <1>2, <2>3 DEF SetMetatable, Balanced
  <2>4. QED
    BY <1>1, <1>4, <1>6, <2>1, <2>2, <2>3, SoundToJava, SoundCreateTable,
       SoundGetMetatable, SoundNewMetatable DEF Cross
<1>7. CASE Release
  BY <1>1, <1>3, <1>4, <1>7, SoundDestroy, SoundRunPosted DEF Release
<1>8. CASE DestroyVm
  BY <1>2, <1>8 DEF DestroyVm
<1>9. CASE UNCHANGED vars
  BY <1>4, <1>9, SoundQuiet DEF vars, memory
<1>10. QED
  BY <1>5, <1>6, <1>7, <1>8, <1>9 DEF Next

\* The invariant holds in every state of every behaviour.
THEOREM Invariance == Spec => []IInv
<1>1. Init => IInv
  BY InvariantInit
<1>2. IInv /\ [Next]_vars => IInv'
  BY InvariantStep
<1>3. QED
  BY <1>1, <1>2, PTL DEF Spec

\* Every variable of cache.c and of the handles keeps its type; in particular
\* removeValueFromGNV never takes a count below zero.
THEOREM TypeCorrect == Spec => []TypeOK
<1>1. IInv => TypeOK
  BY DEF IInv, Shape
<1>2. QED
  BY <1>1, Invariance, PTL

\* The counts of copyValueToGNV and removeValueFromGNV are the handles and
\* strong references there are, whatever crosses, is collected or given back, as
\* long as setMetatalbe is called without a table and a script calls mweak on a
\* value Java holds no more often than mstrong.
THEOREM CountsAreRight == Spec => []CountIsHolders
<1>1. IInv => CountIsHolders
  BY DEF IInv, Sound, Counted, CountIsHolders
<1>2. QED
  BY <1>1, Invariance, PTL

\* A handle that destroy was not called for finds its entry, and the entry has
\* the value the handle was made for although addresses are reused, with the same
\* two exceptions.
THEOREM HandlesReachValues == Spec => []HandleReachesValue
<1>1. ASSUME IInv, vm = "open", Balanced, NEW h \in Handles, ~handle[h].called
      PROVE  Has(handle[h].key) /\ place[handle[h].of] = handle[h].key
  <2>1. Keeps(h) /\ handle[h] \in HandleRecords
    BY <1>1, HandleType DEF Keeps, IInv
  <2>2. PICK a \in Addresses : a = handle[h].key
    BY <2>1 DEF HandleRecords
  <2>3. h \in Holders(a)
    BY <2>1, <2>2 DEF Holders, Keeps
  <2>4. Has(a)
    BY <1>1, <2>3, HeldHas DEF IInv, Shape, Sound, Counted
  <2>5. QED
    BY <1>1, <2>1, <2>2, <2>4 DEF IInv, Sound, KeptAlive
<1>2. IInv => HandleReachesValue
  BY <1>1 DEF HandleReachesValue
<1>3. QED
  BY <1>2, Invariance, PTL
=============================================================================
