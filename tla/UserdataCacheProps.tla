------------------------- MODULE UserdataCacheProps -------------------------
(***************************************************************************)
(* Correctness of the userdata cache: a block of Lua reaches its object    *)
(* whatever the two collectors do, the count of references is the number   *)
(* of blocks, and what nobody uses leaves the cache.                       *)
(***************************************************************************)
EXTENDS UserdataCache

\* Every variable has a value of its type; refCount is below zero only when
\* onDestroy took one more than there were blocks.
TypeOK ==
    /\ vm \in {"open", "destroyed", "crashed"} /\ mode \in Modes
    /\ kind \in [Uds -> {"unborn", "java", "plain", "strong", "broken", "finalized"}]
    /\ held \subseteq Uds /\ cached \subseteq Uds /\ soft \subseteq Uds
    /\ posted \subseteq Uds /\ lapsed \subseteq Uds
    /\ refCount \in [Uds -> -1..MaxRef] /\ javaRefCount \in [Uds -> 0..MaxJavaRef]
    /\ key \in [Uds -> Blocks \cup {"none", "global"}] /\ called \in [Uds -> BOOLEAN]
    /\ block \in [Blocks -> [ud : Uds \cup {Null}, strong : BOOLEAN, skey : BOOLEAN,
                             passed : -1..MaxPass]]
    /\ inLua \subseteq Blocks /\ gnv \subseteq Blocks

\* The object of every block, and one that Java asked to keep, is in the cache:
\* neither collector takes it.  (Not after a lapse: addRef and onJavaRef of an
\* object that had left the cache only count, they do not put it back.)
InUseIsCached ==
    vm = "open" => \A u \in Uds \ lapsed :
        BlocksOf(u) # {} \/ javaRefCount[u] > 0 => u \in cached

\* refCount is the number of blocks: addRef and __onLuaGc are paired.
\* (Not for an object whose constructor threw: it counts a block it never got.)
RefCountIsBlocks ==
    vm = "open" => \A u \in Uds \ lapsed :
        kind[u] \in {"java", "plain", "strong"} => refCount[u] = Cardinality(BlocksOf(u))

\* A strong object that was not destroyed is at its key: the entry is there, and
\* the block is the one the object was made with or passed with.  Passing any block
\* that is or seems strong finds its object: copyUDToGNV never writes into null.
StrongIsReached ==
    /\ vm # "crashed"
    /\ vm = "open" => \A u \in Uds :
          kind[u] = "strong" /\ ~called[u] => key[u] \in gnv /\ block[key[u]].ud = u

\* An object that a script created leaves the cache when the script and Java do
\* not use it any more, unless it is kept on purpose (TYPE_NONE, a strong one).
Unused(u) == kind[u] = "plain" /\ javaRefCount[u] = 0 /\ mode # "none"
             /\ BlocksOf(u) \cap (inLua \cup gnv) = {}
UnusedIsReleased ==
    \A u \in Uds : Unused(u) ~> (u \notin cached \/ ~Unused(u))
=============================================================================
