------------------------- MODULE UserdataCacheProofs -------------------------
(***************************************************************************)
(* Theorems of the userdata cache, for any set of objects and blocks: what *)
(* is in use is cached, the references are the blocks, and a strong object *)
(* finds its block.                                                        *)
(*                                                                         *)
(* The inductive invariant adds that refCount is never below the number of *)
(* blocks, also after a lapse (or the collector could count below zero),   *)
(* that an object whose entry is about to be given back still has it, that *)
(* nothing refers to an object that is not there, and that no block that   *)
(* seems strong stands for an object that lapsed.                          *)
(***************************************************************************)
EXTENDS UserdataCacheProps, FiniteSetTheorems, TLAPS

BlockRecords == [ud : Uds \cup {Null}, strong : BOOLEAN, skey : BOOLEAN, passed : -1..MaxPass]
Counted      == {"java", "plain", "strong"}

\* Of every state.
Lives ==
    \A u \in Uds :
       /\ u \in held \cup cached \cup soft => Live(u)
       /\ kind[u] = "unborn" => BlocksOf(u) = {} /\ refCount[u] = 0 /\ javaRefCount[u] = 0
       /\ u \in posted => kind[u] \in {"strong", "finalized"} /\ called[u]
BlocksUsed == \A b \in Blocks : block[b] # Free \/ b \in inLua \cup gnv => block[b].ud \in Uds

Shape == TypeOK /\ Lives /\ BlocksUsed

\* Of a VM that is open.
RefsAt(u) ==
    /\ Live(u) => refCount[u] >= Cardinality(BlocksOf(u))
    /\ u \notin lapsed /\ kind[u] \in Counted => refCount[u] = Cardinality(BlocksOf(u))
    /\ u \notin lapsed /\ (BlocksOf(u) # {} \/ javaRefCount[u] > 0) => u \in cached
EntryAt(u) ==
    (kind[u] = "strong" /\ ~called[u]) \/ u \in posted => key[u] \in gnv /\ block[key[u]].ud = u
PassedOnce == \A b \in gnv : block[b].passed >= 0

Refs    == \A u \in Uds : RefsAt(u)
Entries == (\A u \in Uds : EntryAt(u)) /\ PassedOnce

IInv == Shape /\ (vm = "open" => Refs /\ Entries)

\* What keeps copyUDToGNV from missing its object.
StrongUnlapsed ==
    /\ vm # "crashed"
    /\ \A u \in lapsed : kind[u] # "unborn"
    /\ vm = "open" => \A b \in Blocks : block[b].strong => block[b].ud \notin lapsed

----------------------------------------------------------------------------
\* Facts about the operators.

LEMMA FreeRecord == Free \in BlockRecords /\ Free.ud = Null /\ Free.passed = 0 /\ Free.ud \notin Uds
  BY UserdataConstants DEF Free, BlockRecords

LEMMA BlocksFinite ==
    ASSUME NEW u \in Uds
    PROVE  /\ IsFiniteSet(BlocksOf(u)) /\ Cardinality(BlocksOf(u)) \in Nat
           /\ Cardinality(BlocksOf(u)) = 0 <=> BlocksOf(u) = {}
<1>1. IsFiniteSet(BlocksOf(u))
  BY UserdataConstants, FS_Subset DEF BlocksOf
<1>2. QED
  BY <1>1, FS_CardinalityType, FS_EmptySet

\* A step that changes one block.
LEMMA OneBlock ==
    ASSUME TypeOK, NEW b \in Blocks, NEW r \in BlockRecords, block' = [block EXCEPT ![b] = r]
    PROVE  /\ block' \in [Blocks -> BlockRecords] /\ block'[b] = r
           /\ \A c \in Blocks \ {b} : block'[c] = block[c]
           /\ \A u \in Uds : BlocksOf(u)' = IF r.ud = u THEN BlocksOf(u) \cup {b}
                                                        ELSE BlocksOf(u) \ {b}
<1>1. block \in [Blocks -> BlockRecords]
  BY DEF TypeOK, BlockRecords
<1>2. /\ block' \in [Blocks -> BlockRecords] /\ block'[b] = r
      /\ \A c \in Blocks \ {b} : block'[c] = block[c]
  BY <1>1
<1>3. QED
  BY <1>2 DEF BlocksOf

\* A block that is used anew.
LEMMA BlockTaken ==
    ASSUME TypeOK, NEW u \in Uds, NEW b \in Blocks, block[b] = Free, NEW r \in BlockRecords,
           r.ud = u, block' = [block EXCEPT ![b] = r]
    PROVE  /\ BlocksOf(u)' = BlocksOf(u) \cup {b}
           /\ Cardinality(BlocksOf(u)') = Cardinality(BlocksOf(u)) + 1
           /\ \A v \in Uds \ {u} : BlocksOf(v)' = BlocksOf(v)
<1>1. \A v \in Uds : b \notin BlocksOf(v)
  BY FreeRecord DEF BlocksOf
<1>2. \A v \in Uds : BlocksOf(v)' = IF r.ud = v THEN BlocksOf(v) \cup {b} ELSE BlocksOf(v) \ {b}
  BY OneBlock
<1>3. \A v \in Uds : BlocksOf(v) \ {b} = BlocksOf(v)
  BY <1>1
<1>4. /\ BlocksOf(u)' = BlocksOf(u) \cup {b}
      /\ \A v \in Uds \ {u} : BlocksOf(v)' = BlocksOf(v)
  BY <1>2, <1>3
<1>5. QED
  BY <1>1, <1>4, BlocksFinite, FS_AddElement

\* A step that changes what a block knows, not whose it is.
LEMMA SameOwner ==
    ASSUME TypeOK, NEW b \in Blocks, NEW r \in BlockRecords, r.ud = block[b].ud,
           block' = [block EXCEPT ![b] = r]
    PROVE  \A u \in Uds : BlocksOf(u)' = BlocksOf(u)
<1>1. \A u \in Uds : b \in BlocksOf(u) <=> r.ud = u
  BY DEF BlocksOf
<1>2. \A u \in Uds : BlocksOf(u)' = IF r.ud = u THEN BlocksOf(u) \cup {b} ELSE BlocksOf(u) \ {b}
  BY OneBlock
<1>3. QED
  BY <1>1, <1>2

\* An object of which nothing changes keeps its references.
LEMMA SameRefs ==
    ASSUME NEW u \in Uds, RefsAt(u), kind'[u] = kind[u], refCount'[u] = refCount[u],
           javaRefCount'[u] = javaRefCount[u], BlocksOf(u)' = BlocksOf(u),
           u \in cached => u \in cached', u \in lapsed => u \in lapsed'
    PROVE  RefsAt(u)'
  BY DEF RefsAt, Live

----------------------------------------------------------------------------
\* Each action keeps the invariant.

LEMMA InvariantInit == Init => IInv
<1> SUFFICES ASSUME Init PROVE IInv
  OBVIOUS
<1>1. \A u \in Uds : BlocksOf(u) = {}
  BY FreeRecord DEF Init, BlocksOf
<1>2. TypeOK
  BY UserdataConstants DEF Init, TypeOK, Free
<1>3. Lives /\ BlocksUsed
  BY <1>1 DEF Init, Lives, BlocksUsed
<1>4. Refs /\ Entries
  BY <1>1, FS_EmptySet DEF Init, Refs, RefsAt, Entries, EntryAt, PassedOnce, Live, Counted
<1>5. QED
  BY <1>2, <1>3, <1>4 DEF IInv, Shape

LEMMA CreateInJavaStep ==
    ASSUME IInv, NEW u \in Uds, CreateInJava(u)
    PROVE  IInv'
<1> USE DEF CreateInJava, Born, lua, counts
<1>1. \A v \in Uds : BlocksOf(v)' = BlocksOf(v)
  BY DEF BlocksOf
<1>2. TypeOK'
  BY DEF IInv, Shape, TypeOK
<1>3. Lives'
  BY <1>1 DEF IInv, Shape, TypeOK, Lives, Live
<1>4. BlocksUsed'
  BY DEF IInv, Shape, BlocksUsed
<1>5. Refs'
  <2>1. RefsAt(u)'
    <3>1. BlocksOf(u)' = {} /\ Cardinality(BlocksOf(u)') = 0 /\ javaRefCount'[u] = 0
      BY <1>1, FS_EmptySet DEF IInv, Shape, Lives
    <3>2. /\ kind'[u] = "java" /\ u \in cached' /\ refCount'[u] = 0
      BY DEF IInv, Shape, TypeOK, Lives
    <3>3. QED
      BY <3>1, <3>2 DEF RefsAt, Counted
  <2>2. ASSUME NEW v \in Uds \ {u} PROVE RefsAt(v)'
    <3>1. RefsAt(v) /\ BlocksOf(v)' = BlocksOf(v)
      BY <1>1 DEF IInv, Refs
    <3>2. /\ kind'[v] = kind[v] /\ refCount'[v] = refCount[v]
          /\ javaRefCount'[v] = javaRefCount[v]
          /\ (v \in cached => v \in cached') /\ (v \in lapsed => v \in lapsed')
      BY DEF IInv, Shape, TypeOK
    <3>3. QED
      BY <3>1, <3>2, SameRefs
  <2>3. QED
    BY <2>1, <2>2 DEF Refs
<1>6. Entries'
  BY DEF IInv, Shape, TypeOK, Lives, Entries, EntryAt, PassedOnce
<1>7. QED
  BY <1>2, <1>3, <1>4, <1>5, <1>6 DEF IInv, Shape

LEMMA ConstructorThrowsStep ==
    ASSUME IInv, NEW u \in Uds, ConstructorThrows(u)
    PROVE  IInv'
<1> USE DEF ConstructorThrows, Born, lua
<1>1. \A v \in Uds : BlocksOf(v)' = BlocksOf(v)
  BY DEF BlocksOf
<1>2. TypeOK'
  BY UserdataConstants DEF IInv, Shape, TypeOK
<1>3. Lives'
  BY <1>1 DEF IInv, Shape, TypeOK, Lives, Live
<1>4. BlocksUsed'
  BY DEF IInv, Shape, BlocksUsed
<1>5. Refs'
  <2>1. RefsAt(u)'
    <3>1. BlocksOf(u)' = {} /\ Cardinality(BlocksOf(u)') = 0 /\ javaRefCount'[u] = 0
      BY <1>1, FS_EmptySet DEF IInv, Shape, Lives
    <3>2. /\ kind'[u] = "broken" /\ u \in cached' /\ refCount'[u] = 1
      BY DEF IInv, Shape, TypeOK
    <3>3. QED
      BY <3>1, <3>2 DEF RefsAt, Counted
  <2>2. ASSUME NEW v \in Uds \ {u} PROVE RefsAt(v)'
    <3>1. RefsAt(v) /\ BlocksOf(v)' = BlocksOf(v)
      BY <1>1 DEF IInv, Refs
    <3>2. /\ kind'[v] = kind[v] /\ refCount'[v] = refCount[v]
          /\ javaRefCount'[v] = javaRefCount[v]
          /\ (v \in cached => v \in cached') /\ (v \in lapsed => v \in lapsed')
      BY DEF IInv, Shape, TypeOK
    <3>3. QED
      BY <3>1, <3>2, SameRefs
  <2>3. QED
    BY <2>1, <2>2 DEF Refs
<1>6. Entries'
  BY DEF IInv, Shape, TypeOK, Lives, Entries, EntryAt, PassedOnce
<1>7. QED
  BY <1>2, <1>3, <1>4, <1>5, <1>6 DEF IInv, Shape

\* new_java_obj up to the key and the entry of a strong block.
LEMMA InstantiateStep ==
    ASSUME IInv, NEW u \in Uds, NEW b \in Blocks, NEW k \in {"plain", "strong"},
           NEW flags \in [strong : BOOLEAN, skey : BOOLEAN], Instantiate(u, b, k, flags),
           \/ k = "plain" /\ UNCHANGED <<key, gnv>>
           \/ k = "strong" /\ key' = [key EXCEPT ![u] = b] /\ gnv' = gnv \cup {b}
    PROVE  IInv'
<1> USE DEF Instantiate, Born
<1> DEFINE r == [ud |-> u, strong |-> flags.strong, skey |-> flags.skey, passed |-> 0]
<1>1. r \in BlockRecords /\ r.ud = u /\ r.passed = 0
  BY UserdataConstants DEF BlockRecords
<1>2. block' = [block EXCEPT ![b] = r] /\ block[b] = Free
  OBVIOUS
<1> HIDE DEF r
<1>3. /\ block' \in [Blocks -> BlockRecords] /\ block'[b] = r
      /\ \A c \in Blocks \ {b} : block'[c] = block[c]
  BY <1>1, <1>2, OneBlock DEF IInv, Shape
<1>4. /\ Cardinality(BlocksOf(u)') = Cardinality(BlocksOf(u)) + 1
      /\ \A v \in Uds \ {u} : BlocksOf(v)' = BlocksOf(v)
  <2>1. TypeOK
    BY DEF IInv, Shape
  <2>2. QED
    BY ONLY <1>1, <1>2, <2>1, BlockTaken
<1>5. TypeOK'
  <2>1. /\ kind' \in [Uds -> {"unborn", "java", "plain", "strong", "broken", "finalized"}]
        /\ cached' \subseteq Uds /\ refCount' \in [Uds -> -1..MaxRef]
        /\ key' \in [Uds -> Blocks \cup {"none", "global"}]
        /\ inLua' \subseteq Blocks /\ gnv' \subseteq Blocks
    BY UserdataConstants DEF IInv, Shape, TypeOK
  <2>2. QED
    BY <1>3, <2>1 DEF IInv, Shape, TypeOK, BlockRecords
<1>6. Lives'
  <2>1. kind'[u] = k /\ \A v \in Uds \ {u} : kind'[v] = kind[v]
    BY DEF IInv, Shape, TypeOK
  <2>2. QED
    BY <1>4, <2>1 DEF IInv, Shape, Lives, Live
<1>7. BlocksUsed'
  BY <1>1, <1>3 DEF IInv, Shape, BlocksUsed
<1>8. Refs'
  <2>1. Cardinality(BlocksOf(u)') = 1
    <3>1. BlocksOf(u) = {}
      BY DEF IInv, Shape, Lives
    <3>2. QED
      BY <1>4, <3>1, FS_EmptySet
  <2>2. RefsAt(u)'
    BY <2>1 DEF IInv, Shape, TypeOK, RefsAt, Refs
  <2>3. ASSUME NEW v \in Uds \ {u} PROVE RefsAt(v)'
    <3>1. RefsAt(v) /\ BlocksOf(v)' = BlocksOf(v)
      BY <1>4 DEF IInv, Refs
    <3>2. /\ kind'[v] = kind[v] /\ refCount'[v] = refCount[v]
          /\ javaRefCount'[v] = javaRefCount[v]
          /\ (v \in cached => v \in cached') /\ (v \in lapsed => v \in lapsed')
      BY DEF IInv, Shape, TypeOK
    <3>3. QED
      BY <3>1, <3>2, SameRefs
  <2>4. QED
    BY <2>2, <2>3 DEF Refs
<1>9. Entries'
  <2>1. \A v \in Uds : v # u /\ EntryAt(v) => EntryAt(v)'
    BY <1>3, FreeRecord DEF IInv, Shape, TypeOK, EntryAt
  <2>2. EntryAt(u)'
    BY <1>1, <1>3 DEF IInv, Shape, TypeOK, Lives, EntryAt
  <2>3. PassedOnce'
    BY <1>1, <1>3 DEF IInv, Entries, PassedOnce
  <2>4. QED
    BY <2>1, <2>2, <2>3 DEF IInv, Entries
<1>10. QED
  BY <1>5, <1>6, <1>7, <1>8, <1>9 DEF IInv, Shape

\* The script and Java forget, or Java passes a key: only the roots change.
LEMMA RootsStep ==
    ASSUME IInv, vm' = vm, mode' = mode, held' \subseteq held, inLua' \subseteq inLua \cup gnv,
           UNCHANGED <<kind, caches, counts, key, called, posted, block, gnv, lapsed>>
    PROVE  IInv'
<1> USE DEF caches, counts
<1>1. \A v \in Uds : BlocksOf(v)' = BlocksOf(v)
  BY DEF BlocksOf
<1>2. Shape'
  BY <1>1 DEF IInv, Shape, TypeOK, Lives, Live, BlocksUsed
<1>3. vm = "open" => Refs'
  BY <1>1 DEF IInv, Refs, RefsAt, Live
<1>4. vm = "open" => Entries'
  BY DEF IInv, Entries, EntryAt, PassedOnce
<1>5. QED
  BY <1>2, <1>3, <1>4 DEF IInv

\* The object of a block that is or seems strong is found.
LEMMA StrongIsFound ==
    ASSUME IInv, StrongUnlapsed, vm = "open", NEW b \in Blocks, block[b].strong
    PROVE  block[b].ud \in Uds \cap cached
<1>1. block[b] # Free
  BY DEF Free
<1>2. block[b].ud \in Uds
  BY <1>1 DEF IInv, Shape, BlocksUsed
<1>3. PICK u \in Uds : u = block[b].ud
  BY <1>2
<1>4. b \in BlocksOf(u) /\ u \notin lapsed
  BY <1>3 DEF BlocksOf, StrongUnlapsed
<1>5. QED
  BY <1>3, <1>4 DEF IInv, Refs, RefsAt

LEMMA ToJavaStep ==
    ASSUME IInv, StrongUnlapsed, NEW b \in Blocks, ToJava(b)
    PROVE  IInv'
<1> DEFINE u    == block[b].ud
           keep == block[b].strong /\ ~block[b].skey
           r    == [block[b] EXCEPT !.passed = @ + 1, !.skey = @ \/ keep]
<1>1. block[b] \in BlockRecords /\ u \in Uds /\ block[b].passed < MaxPass
  BY DEF IInv, Shape, TypeOK, BlocksUsed, BlockRecords, ToJava
<1>2. r \in BlockRecords /\ r.ud = u /\ r.passed = block[b].passed + 1
  <2> DEFINE s == block[b].skey \/ keep
             n == block[b].passed + 1
             o == block[b]
  <2>1. s \in BOOLEAN
    BY <1>1 DEF BlockRecords
  <2>2. n \in -1..MaxPass
    BY <1>1, UserdataConstants DEF BlockRecords
  <2>3. r = [o EXCEPT !.passed = n, !.skey = s] /\ o \in BlockRecords
    BY <1>1
  <2> HIDE DEF s, n, o, r
  <2>4. r \in BlockRecords /\ r.ud = o.ud /\ r.passed = n
    BY <2>1, <2>2, <2>3 DEF BlockRecords
  <2>5. QED
    BY <2>4 DEF o, n
<1>3. block' = [block EXCEPT ![b] = r]
  BY DEF ToJava, IInv, Shape, TypeOK
<1>a. vm' = vm
  <2>1. keep => Found(u)
    BY StrongIsFound DEF ToJava, Found
  <2>2. QED
    BY <2>1 DEF ToJava
<1>4. /\ vm = "open" /\ vm' = vm /\ mode' = mode
      /\ held' = IF Found(u) THEN held \cup {u} ELSE held
      /\ \/ keep /\ gnv' = gnv \cup {b} /\ key' = [key EXCEPT ![u] = b]
         \/ ~keep /\ gnv' = gnv /\ key' = key
      /\ UNCHANGED <<kind, cached, soft, refCount, javaRefCount, called, posted, inLua, lapsed>>
  BY <1>a DEF ToJava, caches, counts
<1> HIDE DEF r, keep
<1>5. /\ block' \in [Blocks -> BlockRecords] /\ block'[b] = r
      /\ \A c \in Blocks \ {b} : block'[c] = block[c]
  BY <1>2, <1>3, OneBlock DEF IInv, Shape
<1>6. \A v \in Uds : BlocksOf(v)' = BlocksOf(v)
  <2>1. TypeOK /\ r.ud = block[b].ud
    BY <1>2 DEF IInv, Shape
  <2>2. QED
    BY ONLY <1>2, <1>3, <2>1, SameOwner
<1>7. TypeOK'
  <2>1. /\ held' \subseteq Uds /\ gnv' \subseteq Blocks
        /\ key' \in [Uds -> Blocks \cup {"none", "global"}]
    BY <1>1, <1>4 DEF IInv, Shape, TypeOK
  <2>2. QED
    BY <1>4, <1>5, <2>1 DEF IInv, Shape, TypeOK, BlockRecords
<1>8. Lives'
  BY <1>1, <1>4, <1>6 DEF IInv, Shape, Lives, Live, Found
<1>9. BlocksUsed'
  BY <1>1, <1>2, <1>4, <1>5 DEF IInv, Shape, BlocksUsed
<1>10. Refs'
  BY <1>4, <1>6 DEF IInv, Refs, RefsAt, Live
<1>11. Entries'
  <2>1. \A c \in Blocks : block'[c].ud = block[c].ud
    BY <1>2, <1>5
  <2>2. \A v \in Uds : EntryAt(v)'
    BY <1>1, <1>4, <2>1 DEF IInv, Shape, TypeOK, Entries, EntryAt
  <2>3. block[b].passed + 1 >= 0
    BY <1>1 DEF BlockRecords
  <2>4. PassedOnce'
    BY <1>1, <1>2, <1>4, <1>5, <2>3 DEF IInv, Shape, TypeOK, Entries, PassedOnce, BlockRecords
  <2>5. QED
    BY <2>2, <2>4 DEF Entries
<1>12. QED
  BY <1>7, <1>8, <1>9, <1>10, <1>11 DEF IInv, Shape

LEMMA ToLuaNewStep ==
    ASSUME IInv, NEW u \in Uds, NEW b \in Blocks, ToLuaNew(u, b)
    PROVE  IInv'
<1> DEFINE r == [Free EXCEPT !.ud = u]
<1>1. r \in BlockRecords /\ r.ud = u /\ r.passed = 0
  <2> DEFINE o == Free
  <2>1. r = [o EXCEPT !.ud = u] /\ o \in BlockRecords /\ o.passed = 0
    BY FreeRecord
  <2> HIDE DEF o, r
  <2>2. QED
    BY <2>1 DEF BlockRecords
<1>2. /\ block' = [block EXCEPT ![b] = r] /\ block[b] = Free
      /\ vm = "open" /\ u \in held /\ refCount[u] < MaxRef
      /\ refCount' = [refCount EXCEPT ![u] = @ + 1]
      /\ inLua' = inLua \cup {b} /\ lapsed' = lapsed \cup ({u} \ cached)
      /\ UNCHANGED <<vm, mode, kind, held, cached, soft, javaRefCount, key, called, posted, gnv>>
  BY DEF ToLuaNew, AddRef, caches
<1> HIDE DEF r
<1>3. /\ block' \in [Blocks -> BlockRecords] /\ block'[b] = r
      /\ \A c \in Blocks \ {b} : block'[c] = block[c]
  BY <1>1, <1>2, OneBlock DEF IInv, Shape
<1>4. /\ Cardinality(BlocksOf(u)') = Cardinality(BlocksOf(u)) + 1
      /\ \A v \in Uds \ {u} : BlocksOf(v)' = BlocksOf(v)
  <2>1. TypeOK
    BY DEF IInv, Shape
  <2>2. QED
    BY ONLY <1>1, <1>2, <2>1, BlockTaken
<1>5. TypeOK'
  <2>1. /\ refCount' \in [Uds -> -1..MaxRef] /\ inLua' \subseteq Blocks /\ lapsed' \subseteq Uds
    BY <1>2, UserdataConstants DEF IInv, Shape, TypeOK
  <2>2. QED
    BY <1>2, <1>3, <2>1 DEF IInv, Shape, TypeOK, BlockRecords
<1>6. Lives'
  <2>1. kind[u] # "unborn"
    BY <1>2 DEF IInv, Shape, Lives, Live
  <2>2. \A v \in Uds \ {u} : refCount'[v] = refCount[v]
    BY <1>2 DEF IInv, Shape, TypeOK
  <2>3. QED
    BY <1>2, <1>4, <2>1, <2>2 DEF IInv, Shape, Lives, Live
<1>7. BlocksUsed'
  BY <1>1, <1>2, <1>3 DEF IInv, Shape, BlocksUsed
<1>8. Refs'
  <2>1. /\ refCount'[u] = refCount[u] + 1 /\ refCount[u] \in Int
        /\ \A v \in Uds \ {u} : refCount'[v] = refCount[v]
    BY <1>2 DEF IInv, Shape, TypeOK
  <2>2. RefsAt(u)'
    BY <1>2, <1>4, <2>1, BlocksFinite DEF IInv, Refs, RefsAt, Live
  <2>3. ASSUME NEW v \in Uds \ {u} PROVE RefsAt(v)'
    <3>1. RefsAt(v) /\ BlocksOf(v)' = BlocksOf(v)
      BY <1>2, <1>4 DEF IInv, Refs
    <3>2. /\ kind'[v] = kind[v] /\ refCount'[v] = refCount[v]
          /\ javaRefCount'[v] = javaRefCount[v]
          /\ (v \in cached => v \in cached') /\ (v \in lapsed => v \in lapsed')
      BY <1>2, <2>1
    <3>3. QED
      BY <3>1, <3>2, SameRefs
  <2>4. QED
    BY <2>2, <2>3 DEF Refs
<1>9. Entries'
  <2>1. \A v \in Uds : EntryAt(v)'
    BY <1>2, <1>3, FreeRecord DEF IInv, Shape, TypeOK, Entries, EntryAt
  <2>2. PassedOnce'
    BY <1>1, <1>2, <1>3 DEF IInv, Entries, PassedOnce
  <2>3. QED
    BY <2>1, <2>2 DEF Entries
<1>10. QED
  BY <1>5, <1>6, <1>7, <1>8, <1>9 DEF IInv, Shape

LEMMA OnJavaRefStep ==
    ASSUME IInv, NEW u \in Uds, OnJavaRef(u)
    PROVE  IInv'
<1> USE DEF OnJavaRef, caches, lua
<1>1. \A v \in Uds : BlocksOf(v)' = BlocksOf(v)
  BY DEF BlocksOf
<1>2. javaRefCount' \in [Uds -> 0..MaxJavaRef] /\ lapsed' \subseteq Uds
  BY UserdataConstants DEF IInv, Shape, TypeOK
<1>3. \A v \in Uds \ {u} : javaRefCount'[v] = javaRefCount[v]
  BY DEF IInv, Shape, TypeOK
<1>4. Shape'
  BY <1>1, <1>2, <1>3 DEF IInv, Shape, TypeOK, Lives, Live, BlocksUsed
<1>5. vm = "open" => Refs'
  BY <1>1, <1>3 DEF IInv, Refs, RefsAt, Live
<1>6. vm = "open" => Entries'
  BY DEF IInv, Entries, EntryAt, PassedOnce
<1>7. QED
  BY <1>4, <1>5, <1>6 DEF IInv

\* onUserdataGc of an object that nothing uses.
LEMMA GcShape ==
    ASSUME TypeOK, NEW u \in Uds, OnUserdataGc(u) \/ UNCHANGED caches
    PROVE  /\ cached' \subseteq cached /\ cached \ {u} \subseteq cached'
           /\ soft' \subseteq soft \cup {u} /\ soft' \subseteq Uds
           /\ UNCHANGED caches => cached' = cached
  BY DEF OnUserdataGc, caches, TypeOK

LEMMA OnJavaRecycleStep ==
    ASSUME IInv, NEW u \in Uds, OnJavaRecycle(u)
    PROVE  IInv'
<1> USE DEF OnJavaRecycle, lua
<1>1. \A v \in Uds : BlocksOf(v)' = BlocksOf(v)
  BY DEF BlocksOf
<1>2. /\ javaRefCount' \in [Uds -> 0..MaxJavaRef] /\ javaRefCount'[u] \in Nat
      /\ refCount[u] \in Int
      /\ \A v \in Uds \ {u} : javaRefCount'[v] = javaRefCount[v]
  BY UserdataConstants DEF IInv, Shape, TypeOK
<1>3. /\ cached' \subseteq cached /\ cached \ {u} \subseteq cached'
      /\ soft' \subseteq soft \cup {u} /\ soft' \subseteq Uds
  BY GcShape DEF IInv, Shape
<1>4. Shape'
  <2>1. TypeOK'
    BY <1>2, <1>3 DEF IInv, Shape, TypeOK
  <2>2. Lives'
    BY <1>1, <1>2, <1>3 DEF IInv, Shape, Lives, Live
  <2>3. BlocksUsed'
    BY DEF IInv, Shape, BlocksUsed
  <2>4. QED
    BY <2>1, <2>2, <2>3 DEF Shape
<1>5. ASSUME vm = "open" PROVE Refs'
  <2>1. u \in cached /\ u \notin cached' => refCount[u] <= 0 /\ javaRefCount'[u] = 0
    <3>1. \/ cached' = cached
          \/ ~InUse(refCount[u], javaRefCount'[u])
      BY <1>5 DEF caches
    <3>2. QED
      BY ONLY <1>2, <3>1 DEF InUse
  <2>2. RefsAt(u) /\ Live(u)
    BY <1>5 DEF IInv, Shape, Lives, Refs
  <2>3. u \in cached /\ u \notin cached' => BlocksOf(u) = {}
    BY <1>2, <2>1, <2>2, BlocksFinite DEF RefsAt
  <2>4. javaRefCount'[u] > 0 => javaRefCount[u] > 0
    OBVIOUS
  <2>5. RefsAt(u)'
    BY <1>1, <2>1, <2>2, <2>3, <2>4 DEF RefsAt, Live
  <2>6. ASSUME NEW v \in Uds \ {u} PROVE RefsAt(v)'
    <3>1. RefsAt(v) /\ BlocksOf(v)' = BlocksOf(v)
      BY <1>1, <1>5 DEF IInv, Refs
    <3>2. /\ kind'[v] = kind[v] /\ refCount'[v] = refCount[v]
          /\ javaRefCount'[v] = javaRefCount[v]
          /\ (v \in cached => v \in cached') /\ (v \in lapsed => v \in lapsed')
      BY <1>2, <1>3
    <3>3. QED
      BY <3>1, <3>2, SameRefs
  <2>7. QED
    BY <2>5, <2>6 DEF Refs
<1>6. vm = "open" => Entries'
  BY DEF IInv, Entries, EntryAt, PassedOnce
<1>7. QED
  BY <1>4, <1>5, <1>6 DEF IInv

LEMMA LuaGcStep ==
    ASSUME IInv, NEW b \in Blocks, LuaGc(b)
    PROVE  IInv'
<1>1. PICK u \in Uds : u = block[b].ud
  BY DEF LuaGc, IInv, Shape, BlocksUsed
<1>2. /\ vm = "open" /\ b \notin inLua \cup gnv /\ block' = [block EXCEPT ![b] = Free]
      /\ UNCHANGED <<vm, mode, kind, held, javaRefCount, key, called, posted, inLua, gnv, lapsed>>
      /\ \/ ~Found(u) /\ UNCHANGED <<refCount, caches>>
         \/ /\ Found(u) /\ refCount' = [refCount EXCEPT ![u] = @ - 1]
            /\ \/ UNCHANGED caches
               \/ ~InUse(refCount'[u], javaRefCount[u]) /\ OnUserdataGc(u)
  BY <1>1 DEF LuaGc
<1>3. /\ block' \in [Blocks -> BlockRecords] /\ block'[b] = Free
      /\ \A c \in Blocks \ {b} : block'[c] = block[c]
      /\ BlocksOf(u)' = BlocksOf(u) \ {b} /\ b \in BlocksOf(u)
      /\ \A v \in Uds \ {u} : BlocksOf(v)' = BlocksOf(v)
  <2>1. TypeOK
    BY DEF IInv, Shape
  <2>2. /\ block' \in [Blocks -> BlockRecords] /\ block'[b] = Free
        /\ \A c \in Blocks \ {b} : block'[c] = block[c]
        /\ \A v \in Uds : BlocksOf(v)' = IF Free.ud = v THEN BlocksOf(v) \cup {b}
                                                          ELSE BlocksOf(v) \ {b}
    BY ONLY <1>2, <2>1, OneBlock, FreeRecord
  <2>3. \A v \in Uds : BlocksOf(v)' = BlocksOf(v) \ {b}
    BY <2>2, FreeRecord
  <2>4. \A v \in Uds : b \in BlocksOf(v) <=> v = u
    BY <1>1 DEF BlocksOf
  <2>5. QED
    BY <2>2, <2>3, <2>4
<1>4. /\ Cardinality(BlocksOf(u)) \in Nat \ {0}
      /\ Cardinality(BlocksOf(u)') = Cardinality(BlocksOf(u)) - 1
  BY <1>1, <1>3, BlocksFinite, FS_RemoveElement
<1>5. /\ cached' \subseteq cached /\ cached \ {u} \subseteq cached'
      /\ soft' \subseteq soft \cup {u} /\ soft' \subseteq Uds
      /\ ~Found(u) => cached' = cached /\ soft' = soft
  BY <1>1, <1>2, GcShape DEF IInv, Shape, caches
<1>6. RefsAt(u) /\ (Found(u) => Live(u)) /\ kind[u] # "unborn"
  BY <1>1, <1>2, <1>3 DEF IInv, Shape, Lives, Refs, Found
<1>7. /\ refCount' \in [Uds -> -1..MaxRef]
      /\ \A v \in Uds \ {u} : refCount'[v] = refCount[v]
      /\ refCount[u] \in Int /\ javaRefCount[u] \in Nat
      /\ refCount'[u] = IF Found(u) THEN refCount[u] - 1 ELSE refCount[u]
  <2>1. refCount \in [Uds -> -1..MaxRef] /\ javaRefCount[u] \in Nat
    BY UserdataConstants DEF IInv, Shape, TypeOK
  <2>2. refCount[u] \in Int
    BY <2>1, UserdataConstants
  <2>3. Found(u) => refCount[u] >= 1
    BY <1>4, <1>6, <2>2 DEF RefsAt
  <2>4. QED
    BY <1>2, <2>1, <2>2, <2>3, UserdataConstants
<1>8. Shape'
  <2>1. TypeOK'
    BY <1>2, <1>3, <1>5, <1>7 DEF IInv, Shape, TypeOK, BlockRecords
  <2>2. Lives'
    <3>1. \A v \in Uds : v \in held' \cup cached' \cup soft' => Live(v)'
      BY <1>2, <1>5, <1>6 DEF IInv, Shape, Lives, Live
    <3>2. \A v \in Uds : kind[v] = "unborn" => BlocksOf(v)' = {} /\ refCount'[v] = 0
      BY <1>3, <1>6, <1>7 DEF IInv, Shape, Lives
    <3>3. QED
      BY <1>2, <3>1, <3>2 DEF IInv, Shape, Lives
  <2>3. BlocksUsed'
    BY <1>2, <1>3 DEF IInv, Shape, BlocksUsed
  <2>4. QED
    BY <2>1, <2>2, <2>3 DEF Shape
<1>9. Refs'
  <2>1. u \notin lapsed => u \in cached /\ Found(u)
    BY <1>3, <1>6 DEF RefsAt, Found
  <2>2. Found(u) /\ u \in cached /\ u \notin cached' => refCount'[u] <= 0 /\ javaRefCount[u] = 0
    BY <1>2, <1>7 DEF InUse, caches
  <2>3. Live(u) => refCount'[u] >= Cardinality(BlocksOf(u)')
    BY <1>4, <1>6, <1>7 DEF RefsAt
  <2>4. u \notin lapsed /\ kind[u] \in Counted => refCount'[u] = Cardinality(BlocksOf(u)')
    BY <1>4, <1>6, <1>7, <2>1 DEF RefsAt
  <2>5. Found(u) /\ refCount'[u] <= 0 => BlocksOf(u)' = {}
    <3>1. Cardinality(BlocksOf(u)') = 0 => BlocksOf(u)' = {}
      <4>1. IsFiniteSet(BlocksOf(u)')
        BY <1>1, <1>3, BlocksFinite, FS_RemoveElement
      <4>2. QED
        BY <4>1, FS_EmptySet
    <3>2. QED
      BY <1>4, <1>6, <1>7, <2>3, <3>1
  <2>6. RefsAt(u)'
    BY <1>2, <1>5, <2>1, <2>2, <2>3, <2>4, <2>5 DEF RefsAt, Live
  <2>7. ASSUME NEW v \in Uds \ {u} PROVE RefsAt(v)'
    <3>1. RefsAt(v) /\ BlocksOf(v)' = BlocksOf(v)
      BY <1>2, <1>3 DEF IInv, Refs
    <3>2. /\ kind'[v] = kind[v] /\ refCount'[v] = refCount[v]
          /\ javaRefCount'[v] = javaRefCount[v]
          /\ (v \in cached => v \in cached') /\ (v \in lapsed => v \in lapsed')
      BY <1>2, <1>5, <1>7
    <3>3. QED
      BY <3>1, <3>2, SameRefs
  <2>8. QED
    BY <2>6, <2>7 DEF Refs
<1>10. Entries'
  <2>1. \A c \in gnv : c \in Blocks \ {b}
    BY <1>2 DEF IInv, Shape, TypeOK
  <2>2. QED
    BY <1>2, <1>3, <2>1 DEF IInv, Entries, EntryAt, PassedOnce
<1>11. QED
  BY <1>8, <1>9, <1>10 DEF IInv

LEMMA FinalizeStep ==
    ASSUME IInv, NEW u \in Uds, Finalize(u)
    PROVE  IInv'
<1> USE DEF Finalize, lua
<1>1. \A v \in Uds : BlocksOf(v)' = BlocksOf(v)
  BY DEF BlocksOf
<1>2. /\ kind'[u] = "finalized" /\ javaRefCount'[u] = 0
      /\ \A v \in Uds \ {u} : /\ kind'[v] = kind[v] /\ refCount'[v] = refCount[v]
                              /\ javaRefCount'[v] = javaRefCount[v] /\ called'[v] = called[v]
      /\ \A v \in Uds : called[v] => called'[v]
  BY DEF IInv, Shape, TypeOK
<1>3. TypeOK'
  <2>1. /\ kind' \in [Uds -> {"unborn", "java", "plain", "strong", "broken", "finalized"}]
        /\ cached' \subseteq Uds /\ soft' \subseteq Uds /\ posted' \subseteq Uds
        /\ called' \in [Uds -> BOOLEAN]
    BY DEF IInv, Shape, TypeOK
  <2>2. refCount' \in [Uds -> -1..MaxRef] /\ javaRefCount' \in [Uds -> 0..MaxJavaRef]
    BY UserdataConstants DEF IInv, Shape, TypeOK
  <2>3. QED
    BY <2>1, <2>2 DEF IInv, Shape, TypeOK
<1>4. Lives'
  <2>1. \A v \in Uds : v \in posted' => v = u \/ v \in posted
    OBVIOUS
  <2>2. u \in posted' => called'[u]
    BY DEF IInv, Shape, TypeOK
  <2>3. QED
    BY <1>1, <1>2, <2>1, <2>2 DEF IInv, Shape, Lives, Live
<1>5. BlocksUsed'
  BY DEF IInv, Shape, BlocksUsed
<1>6. ASSUME vm = "open" PROVE Refs'
  <2>1. u \notin lapsed => BlocksOf(u) = {}
    BY <1>6 DEF IInv, Refs, RefsAt
  <2>2. RefsAt(u)'
    BY <1>1, <1>2, <2>1 DEF RefsAt, Live, Counted
  <2>3. ASSUME NEW v \in Uds \ {u} PROVE RefsAt(v)'
    <3>1. RefsAt(v) /\ BlocksOf(v)' = BlocksOf(v)
      BY <1>1, <1>6 DEF IInv, Refs
    <3>2. /\ kind'[v] = kind[v] /\ refCount'[v] = refCount[v]
          /\ javaRefCount'[v] = javaRefCount[v]
          /\ (v \in cached => v \in cached') /\ (v \in lapsed => v \in lapsed')
      BY <1>2
    <3>3. QED
      BY <3>1, <3>2, SameRefs
  <2>4. QED
    BY <2>2, <2>3 DEF Refs
<1>7. ASSUME vm = "open" PROVE Entries'
  <2>1. \A v \in Uds : EntryAt(v)'
    BY <1>2, <1>7 DEF IInv, Entries, EntryAt
  <2>2. QED
    BY <1>7, <2>1 DEF IInv, Entries, PassedOnce
<1>8. QED
  BY <1>3, <1>4, <1>5, <1>6, <1>7 DEF IInv, Shape

\* removeValueFromGNV takes one entry and changes the owner of no block.
LEMMA RemovedShape ==
    ASSUME TypeOK, PassedOnce, NEW b \in gnv, Removed(b)
    PROVE  /\ block' \in [Blocks -> BlockRecords]
           /\ \A c \in Blocks : block'[c].ud = block[c].ud
           /\ \A c \in Blocks \ {b} : block'[c] = block[c]
           /\ \A u \in Uds : BlocksOf(u)' = BlocksOf(u)
           /\ gnv' \subseteq gnv /\ gnv \ {b} \subseteq gnv' /\ PassedOnce'
<1> DEFINE o    == block[b]
           n    == block[b].passed - 1
           last == block[b].passed <= 1
           k    == block[b].skey /\ ~last
           r    == [o EXCEPT !.passed = n, !.skey = k]
<1>1. b \in Blocks /\ o \in BlockRecords /\ block[b].passed \in Nat
  BY DEF TypeOK, BlockRecords, PassedOnce
<1>2. n \in -1..MaxPass /\ (~last => n >= 0)
  BY <1>1, UserdataConstants DEF BlockRecords
<1>3. k \in BOOLEAN
  BY <1>1 DEF BlockRecords
<1>4. /\ block' = [block EXCEPT ![b] = r]
      /\ gnv' = IF last THEN gnv \ {b} ELSE gnv
  BY DEF Removed, TypeOK
<1> HIDE DEF n, k, o
<1>5. r \in BlockRecords /\ r.ud = o.ud /\ r.passed = n
  BY <1>1, <1>2, <1>3 DEF BlockRecords
<1> HIDE DEF r
<1>6. /\ block' \in [Blocks -> BlockRecords] /\ block'[b] = r
      /\ \A c \in Blocks \ {b} : block'[c] = block[c]
  BY ONLY <1>1, <1>4, <1>5, TypeOK, OneBlock
<1>7. \A u \in Uds : BlocksOf(u)' = BlocksOf(u)
  <2>1. r.ud = block[b].ud
    BY <1>5 DEF o
  <2>2. QED
    BY ONLY <1>1, <1>4, <1>5, <2>1, TypeOK, SameOwner
<1>8. PassedOnce'
  BY <1>2, <1>4, <1>5, <1>6 DEF PassedOnce, TypeOK
<1>9. QED
  BY <1>4, <1>5, <1>6, <1>7, <1>8 DEF o

LEMMA DestroyStep ==
    ASSUME IInv, NEW u \in Uds, NEW sync \in BOOLEAN, Destroy(u, sync)
    PROVE  IInv'
<1>1. /\ u \in held /\ kind[u] = "strong" /\ ~called[u]
      /\ called' = [called EXCEPT ![u] = TRUE]
      /\ \/ gnv' = gnv /\ block' = block /\ posted' \subseteq posted \cup {u}
         \/ vm = "open" /\ Removed(key[u]) /\ posted' = posted
      /\ UNCHANGED <<vm, mode, kind, held, cached, soft, refCount, javaRefCount, key, inLua, lapsed>>
  BY DEF Destroy, caches, counts
<1>2. /\ called' \in [Uds -> BOOLEAN] /\ called'[u]
      /\ \A v \in Uds \ {u} : called'[v] = called[v]
      /\ posted' \subseteq Uds /\ u \notin posted
  BY <1>1 DEF IInv, Shape, TypeOK, Lives
<1>3. \/ gnv' = gnv /\ block' = block
      \/ /\ vm = "open" /\ key[u] \in gnv /\ posted' = posted
         /\ Removed(key[u]) /\ block[key[u]].ud = u
  BY <1>1 DEF IInv, Entries, EntryAt
<1>4. /\ block' \in [Blocks -> BlockRecords]
      /\ \A c \in Blocks : block'[c].ud = block[c].ud
      /\ \A v \in Uds : BlocksOf(v)' = BlocksOf(v)
      /\ gnv' \subseteq gnv /\ \A c \in gnv : block[c].ud # u => c \in gnv'
      /\ \A c \in Blocks : block'[c] = block[c] \/ c \in gnv
      /\ vm = "open" => PassedOnce'
  <2>1. CASE gnv' = gnv /\ block' = block
    BY <2>1 DEF IInv, Shape, TypeOK, BlockRecords, BlocksOf, Entries, PassedOnce
  <2>2. CASE vm = "open" /\ key[u] \in gnv /\ Removed(key[u]) /\ block[key[u]].ud = u
    <3>1. TypeOK /\ PassedOnce
      BY <2>2 DEF IInv, Shape, Entries
    <3>2. PICK b \in gnv : b = key[u] /\ Removed(b) /\ block[b].ud = u
      BY <2>2
    <3>3. QED
      BY <3>1, <3>2, RemovedShape
  <2>3. QED
    BY <1>3, <2>1, <2>2
<1>5. Shape'
  <2>1. TypeOK'
    BY <1>1, <1>2, <1>4 DEF IInv, Shape, TypeOK, BlockRecords
  <2>2. Lives'
    BY <1>1, <1>2, <1>3, <1>4 DEF IInv, Shape, Lives, Live
  <2>3. BlocksUsed'
    BY <1>1, <1>4 DEF IInv, Shape, BlocksUsed
  <2>4. QED
    BY <2>1, <2>2, <2>3 DEF Shape
<1>6. vm = "open" => Refs'
  BY <1>1, <1>4 DEF IInv, Refs, RefsAt, Live
<1>7. ASSUME vm = "open" PROVE Entries'
  <2>1. \A v \in Uds : EntryAt(v)'
    BY <1>1, <1>2, <1>3, <1>4, <1>7 DEF IInv, Shape, TypeOK, Entries, EntryAt
  <2>2. QED
    BY <1>4, <1>7, <2>1 DEF Entries
<1>8. QED
  BY <1>1, <1>5, <1>6, <1>7 DEF IInv

LEMMA RunPostedStep ==
    ASSUME IInv, NEW u \in Uds, RunPosted(u)
    PROVE  IInv'
<1>1. /\ u \in posted /\ posted' = posted \ {u}
      /\ \/ vm # "open" /\ gnv' = gnv /\ block' = block
         \/ vm = "open" /\ key[u] \in gnv /\ Removed(key[u]) /\ block[key[u]].ud = u
      /\ UNCHANGED <<vm, mode, kind, held, cached, soft, refCount, javaRefCount, key, called, inLua, lapsed>>
  BY DEF RunPosted, caches, counts, IInv, Entries, EntryAt
<1>2. /\ block' \in [Blocks -> BlockRecords]
      /\ \A c \in Blocks : block'[c].ud = block[c].ud
      /\ \A v \in Uds : BlocksOf(v)' = BlocksOf(v)
      /\ gnv' \subseteq gnv /\ \A c \in gnv : block[c].ud # u => c \in gnv'
      /\ \A c \in Blocks : block'[c] = block[c] \/ c \in gnv
      /\ vm = "open" => PassedOnce'
  <2>1. CASE vm # "open" /\ gnv' = gnv /\ block' = block
    BY <2>1 DEF IInv, Shape, TypeOK, BlockRecords, BlocksOf
  <2>2. CASE vm = "open" /\ key[u] \in gnv /\ Removed(key[u]) /\ block[key[u]].ud = u
    <3>1. TypeOK /\ PassedOnce
      BY <2>2 DEF IInv, Shape, Entries
    <3>2. PICK b \in gnv : b = key[u] /\ Removed(b) /\ block[b].ud = u
      BY <2>2
    <3>3. QED
      BY <3>1, <3>2, RemovedShape
  <2>3. QED
    BY <1>1, <2>1, <2>2
<1>3. Shape'
  <2>1. TypeOK'
    BY <1>1, <1>2 DEF IInv, Shape, TypeOK, BlockRecords
  <2>2. Lives'
    BY <1>1, <1>2 DEF IInv, Shape, Lives, Live
  <2>3. BlocksUsed'
    BY <1>1, <1>2 DEF IInv, Shape, BlocksUsed
  <2>4. QED
    BY <2>1, <2>2, <2>3 DEF Shape
<1>4. vm = "open" => Refs'
  BY <1>1, <1>2 DEF IInv, Refs, RefsAt, Live
<1>5. ASSUME vm = "open" PROVE Entries'
  <2>1. called[u]
    BY <1>1 DEF IInv, Shape, Lives
  <2>2. \A v \in Uds : EntryAt(v)'
    BY <1>1, <1>2, <1>5, <2>1 DEF IInv, Shape, TypeOK, Entries, EntryAt
  <2>3. QED
    BY <1>2, <1>5, <2>2 DEF Entries
<1>6. QED
  BY <1>1, <1>3, <1>4, <1>5 DEF IInv

LEMMA DestroyVmStep ==
    ASSUME IInv, DestroyVm
    PROVE  IInv'
<1> USE DEF DestroyVm
<1>1. /\ block' \in [Blocks -> BlockRecords]
      /\ \A b \in Blocks : block'[b] = Free
      /\ \A v \in Uds : BlocksOf(v)' = {}
  BY FreeRecord DEF BlocksOf
<1>2. ASSUME NEW u \in Uds
      PROVE  /\ refCount'[u] \in -1..MaxRef
             /\ kind[u] = "unborn" => refCount'[u] = refCount[u]
  <2> DEFINE n == Cardinality(BlocksOf(u))
             x == IF Found(u) THEN n ELSE 0
             y == IF u \in cached THEN 1 ELSE 0
  <2>1. n \in Nat /\ refCount[u] \in -1..MaxRef
    BY BlocksFinite DEF IInv, Shape, TypeOK
  <2>2. Found(u) => Live(u) /\ refCount[u] >= n
    BY DEF IInv, Shape, Lives, Refs, RefsAt, Found
  <2>3. u \in cached => Found(u)
    BY DEF Found
  <2>4. refCount'[u] = refCount[u] - x - y
    OBVIOUS
  <2> HIDE DEF n
  <2>5. refCount'[u] \in -1..MaxRef
    BY ONLY <2>1, <2>2, <2>3, <2>4, UserdataConstants
  <2>6. ~Found(u) => refCount'[u] = refCount[u]
    BY ONLY <2>1, <2>3, <2>4
  <2>7. QED
    BY <2>2, <2>5, <2>6 DEF Live
<1>3. TypeOK'
  BY <1>1, <1>2 DEF IInv, Shape, TypeOK, BlockRecords
<1>4. Lives'
  BY <1>1, <1>2 DEF IInv, Shape, Lives, Live
<1>5. BlocksUsed'
  BY <1>1 DEF BlocksUsed
<1>6. QED
  BY <1>3, <1>4, <1>5 DEF IInv, Shape

\* A lapse makes no strong block miss its object: that object was not cached.
LEMMA LapseStep ==
    ASSUME IInv, StrongUnlapsed, vm = "open", NEW u \in Uds
    PROVE  \A b \in Blocks : block[b].strong => block[b].ud \notin lapsed \cup ({u} \ cached)
  BY StrongIsFound DEF StrongUnlapsed

LEMMA RemovedStrong ==
    ASSUME IInv, NEW a \in Blocks \cup {"none", "global"}, Removed(a), NEW b \in Blocks
    PROVE  block'[b].strong = block[b].strong /\ block'[b].ud = block[b].ud
<1>1. CASE a \notin gnv
  BY <1>1 DEF Removed
<1>2. CASE a \in gnv
  <2>1. a \in Blocks /\ block \in [Blocks -> BlockRecords]
    BY <1>2 DEF IInv, Shape, TypeOK, BlockRecords
  <2> DEFINE n == block[a].passed - 1
             k == block[a].skey /\ ~(block[a].passed <= 1)
             r == [block[a] EXCEPT !.passed = n, !.skey = k]
  <2>2. block' = [block EXCEPT ![a] = r]
    BY <1>2, <2>1 DEF Removed
  <2>3. block[a] \in BlockRecords
    BY <2>1
  <2> HIDE DEF n, k
  <2>4. r.strong = block[a].strong /\ r.ud = block[a].ud
    BY <2>3 DEF BlockRecords
  <2> HIDE DEF r
  <2>5. QED
    BY <2>1, <2>2, <2>4
<1>3. QED
  BY <1>1, <1>2

LEMMA UnlapsedStep == IInv /\ StrongUnlapsed /\ [Next]_vars => StrongUnlapsed'
<1> SUFFICES ASSUME IInv, StrongUnlapsed, [Next]_vars PROVE StrongUnlapsed'
  OBVIOUS
<1>1. CASE Create
  <2>1. ASSUME NEW u \in Uds, CreateInJava(u) \/ ConstructorThrows(u) PROVE StrongUnlapsed'
    BY <2>1 DEF CreateInJava, ConstructorThrows, Born, lua, StrongUnlapsed, IInv, Shape, TypeOK
  <2>2. ASSUME NEW u \in Uds, NEW b \in Blocks, NEW k \in {"plain", "strong"}, NEW f,
               Instantiate(u, b, k, f)
        PROVE  StrongUnlapsed'
    <3>1. \A c \in Blocks : c # b => block'[c] = block[c]
      BY <2>2 DEF Instantiate, IInv, Shape, TypeOK
    <3>2. block'[b].ud = u /\ u \notin lapsed
      BY <2>2 DEF Instantiate, Born, IInv, Shape, TypeOK, StrongUnlapsed
    <3>3. QED
      BY <2>2, <3>1, <3>2 DEF Instantiate, Born, IInv, Shape, TypeOK, StrongUnlapsed
  <2>3. QED
    BY <1>1, <2>1, <2>2 DEF Create, NewStrong, NewPlain
<1>2. CASE Cross
  <2>1. ASSUME NEW b \in Blocks, ToJava(b) PROVE StrongUnlapsed'
    <3>1. block \in [Blocks -> BlockRecords]
      BY DEF IInv, Shape, TypeOK, BlockRecords
    <3>2. PICK n, s : block' = [block EXCEPT ![b] = [block[b] EXCEPT !.passed = n, !.skey = s]]
      BY <2>1, <3>1 DEF ToJava
    <3>3. \A c \in Blocks : block'[c].strong = block[c].strong /\ block'[c].ud = block[c].ud
      BY <3>1, <3>2 DEF BlockRecords
    <3>4. vm = "open" /\ vm' = vm
      BY <2>1, StrongIsFound DEF ToJava, Found
    <3>5. kind' = kind /\ lapsed' = lapsed
      BY <2>1 DEF ToJava
    <3>6. QED
      BY <3>3, <3>4, <3>5 DEF StrongUnlapsed
  <2>2. ASSUME NEW u \in Uds, ToLuaAgain(u) \/ JavaDrops(u) \/ OnJavaRecycle(u)
        PROVE  StrongUnlapsed'
    BY <2>2 DEF ToLuaAgain, JavaDrops, OnJavaRecycle, lua, StrongUnlapsed
  <2>3. ASSUME NEW b \in Blocks, LuaDrops(b) PROVE StrongUnlapsed'
    BY <2>3 DEF LuaDrops, StrongUnlapsed
  <2>4. ASSUME NEW u \in Uds, OnJavaRef(u) PROVE StrongUnlapsed'
    <3>1. kind[u] # "unborn" /\ lapsed' = lapsed \cup ({u} \ cached)
          /\ UNCHANGED <<vm, kind, block>>
      BY <2>4 DEF OnJavaRef, lua, IInv, Shape, Lives, Live
    <3>2. QED
      BY <3>1, LapseStep DEF StrongUnlapsed
  <2>5. ASSUME NEW u \in Uds, NEW b \in Blocks, ToLuaNew(u, b) PROVE StrongUnlapsed'
    <3>1. /\ kind[u] # "unborn" /\ lapsed' = lapsed \cup ({u} \ cached)
          /\ vm = "open" /\ UNCHANGED <<vm, kind>>
      BY <2>5 DEF ToLuaNew, IInv, Shape, Lives, Live
    <3>2. /\ \A c \in Blocks : c # b => block'[c] = block[c]
          /\ ~block'[b].strong
      BY <2>5 DEF ToLuaNew, Free, IInv, Shape, TypeOK
    <3>3. QED
      BY <3>1, <3>2, LapseStep DEF StrongUnlapsed
  <2>6. QED
    BY <1>2, <2>1, <2>2, <2>3, <2>4, <2>5 DEF Cross
<1>3. CASE Release
  <2>1. ASSUME NEW b \in Blocks, LuaGc(b) PROVE StrongUnlapsed'
    <3>1. /\ \A c \in Blocks : c # b => block'[c] = block[c]
          /\ ~block'[b].strong
      BY <2>1 DEF LuaGc, Free, IInv, Shape, TypeOK
    <3>2. QED
      BY <2>1, <3>1 DEF LuaGc, StrongUnlapsed
  <2>2. ASSUME NEW u \in Uds, Finalize(u) PROVE StrongUnlapsed'
    BY <2>2 DEF Finalize, lua, StrongUnlapsed, IInv, Shape, TypeOK
  <2>3. ASSUME NEW u \in Uds, RunPosted(u) \/ \E sync \in BOOLEAN : Destroy(u, sync)
        PROVE  StrongUnlapsed'
    <3>1. key[u] \in Blocks \cup {"none", "global"} /\ UNCHANGED <<vm, kind, lapsed>>
      BY <2>3 DEF RunPosted, Destroy, IInv, Shape, TypeOK
    <3>2. Removed(key[u]) \/ block' = block
      BY <2>3 DEF RunPosted, Destroy
    <3>3. QED
      BY <3>1, <3>2, RemovedStrong DEF StrongUnlapsed
  <2>4. QED
    BY <1>3, <2>1, <2>2, <2>3 DEF Release
<1>4. CASE DestroyVm
  BY <1>4 DEF DestroyVm, StrongUnlapsed
<1>5. CASE UNCHANGED vars
  BY <1>5 DEF vars, lua, StrongUnlapsed
<1>6. QED
  BY <1>1, <1>2, <1>3, <1>4, <1>5 DEF Next

LEMMA InvariantStep == IInv /\ StrongUnlapsed /\ [Next]_vars => IInv'
<1> SUFFICES ASSUME IInv, StrongUnlapsed, [Next]_vars PROVE IInv'
  OBVIOUS
<1>1. CASE Create
  <2>1. ASSUME NEW u \in Uds, CreateInJava(u) \/ ConstructorThrows(u) PROVE IInv'
    BY <2>1, CreateInJavaStep, ConstructorThrowsStep
  <2>2. ASSUME NEW u \in Uds, NEW b \in Blocks, NewStrong(u, b) PROVE IInv'
    <3>1. [strong |-> TRUE, skey |-> TRUE] \in [strong : BOOLEAN, skey : BOOLEAN]
      OBVIOUS
    <3>2. QED
      BY <2>2, <3>1, InstantiateStep DEF NewStrong
  <2>3. ASSUME NEW u \in Uds, NEW b \in Blocks, NEW f \in StrayFlags, NewPlain(u, b, f) PROVE IInv'
    <3>1. f \in [strong : BOOLEAN, skey : BOOLEAN]
      BY DEF StrayFlags
    <3>2. QED
      BY <2>3, <3>1, InstantiateStep DEF NewPlain
  <2>4. QED
    BY <1>1, <2>1, <2>2, <2>3 DEF Create
<1>2. CASE Cross
  <2>1. ASSUME NEW b \in Blocks, ToJava(b) PROVE IInv'
    BY <2>1, ToJavaStep
  <2>2. ASSUME NEW u \in Uds, ToLuaAgain(u) \/ JavaDrops(u) PROVE IInv'
    <3>1. CASE ToLuaAgain(u)
      BY <3>1, RootsStep DEF ToLuaAgain, caches, counts
    <3>2. CASE JavaDrops(u)
      BY <3>2, RootsStep DEF JavaDrops, caches, counts, lua
    <3>3. QED
      BY <2>2, <3>1, <3>2
  <2>3. ASSUME NEW b \in Blocks, LuaDrops(b) PROVE IInv'
    BY <2>3, RootsStep DEF LuaDrops, caches, counts
  <2>4. ASSUME NEW u \in Uds, OnJavaRef(u) \/ OnJavaRecycle(u) PROVE IInv'
    BY <2>4, OnJavaRefStep, OnJavaRecycleStep
  <2>5. ASSUME NEW u \in Uds, NEW b \in Blocks, ToLuaNew(u, b) PROVE IInv'
    BY <2>5, ToLuaNewStep
  <2>6. QED
    BY <1>2, <2>1, <2>2, <2>3, <2>4, <2>5 DEF Cross
<1>3. CASE Release
  BY <1>3, LuaGcStep, FinalizeStep, RunPostedStep, DestroyStep DEF Release
<1>4. CASE DestroyVm
  BY <1>4, DestroyVmStep
<1>5. CASE UNCHANGED vars
  BY <1>5, RootsStep DEF vars, lua, caches, counts
<1>6. QED
  BY <1>1, <1>2, <1>3, <1>4, <1>5 DEF Next

\* The invariant holds in every reachable state.
THEOREM Invariance == Spec => [](IInv /\ StrongUnlapsed)
<1>1. Init => StrongUnlapsed
  BY DEF Init, Free, StrongUnlapsed
<1>2. QED
  BY <1>1, InvariantInit, InvariantStep, UnlapsedStep, PTL DEF Spec

\* Counts stay within their bounds: refCount never falls below -1 (the VM's end
\* takes one more than there were blocks, LuaUserdata.java), whatever calls it.
THEOREM TypeCorrect == Spec => []TypeOK
<1>1. IInv => TypeOK
  BY DEF IInv, Shape
<1>2. QED
  BY <1>1, Invariance, PTL

\* Neither collector takes an object out of the cache that a block of Lua stands
\* for or that Java asked to keep (onUserdataGc, __onLuaGc, onJavaRecycle).
THEOREM UsedIsCached == Spec => []InUseIsCached
<1>1. IInv => InUseIsCached
  BY DEF IInv, Refs, RefsAt, InUseIsCached
<1>2. QED
  BY <1>1, Invariance, PTL

\* refCount is the number of blocks (addRef, __onLuaGc).
THEOREM RefsAreCounted == Spec => []RefCountIsBlocks
<1>1. IInv => RefCountIsBlocks
  BY DEF IInv, Refs, RefsAt, RefCountIsBlocks, Counted
<1>2. QED
  BY <1>1, Invariance, PTL

\* The entry of a strong object that was not destroyed is there, and its key has
\* not become the address of another block (copyUDToGNV, removeValueFromGNV); and
\* copyUDToGNV always finds the object whose key it writes.
THEOREM StrongKeepsBlock == Spec => []StrongIsReached
<1>1. IInv /\ StrongUnlapsed => StrongIsReached
  BY DEF IInv, Entries, EntryAt, StrongUnlapsed, StrongIsReached
<1>2. QED
  BY <1>1, Invariance, PTL
=============================================================================
