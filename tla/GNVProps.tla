------------------------------ MODULE GNVProps ------------------------------
(***************************************************************************)
(* Correctness of the table GNV: its counts are the handles and strong     *)
(* references there are, a handle that was not destroyed reaches the value *)
(* it was made for, and what nobody holds is released.                     *)
(***************************************************************************)
EXTENDS GNV

\* Every variable has a value of its type.
TypeOK ==
    /\ vm \in {"open", "destroyed"} /\ handler \in BOOLEAN
    /\ place \in [Values -> Addresses \cup {"unborn", "freed"}]
    /\ inLua \subseteq Values /\ meta \in [Values -> Values \cup {Null}]
    /\ count \in [Addresses -> Nat]
    /\ handle \in [Handles -> [key : Addresses, of : Values, called : BOOLEAN,
                               destroyed : BOOLEAN] \cup {NoHandle}]
    /\ strong \in [Values -> 0..MaxStrong]
    /\ posted \subseteq Handles /\ lent \in BOOLEAN /\ weakened \in BOOLEAN

\* The handles an entry is kept for: not given back, or on their way.
Holders(a) == {h \in Handles : handle[h].key = a /\ (~handle[h].called \/ h \in posted)}

StrongAt(a) == LET here == {o \in Values : place[o] = a}
               IN  IF here = {} THEN 0 ELSE strong[CHOOSE o \in here : TRUE]

\* What the two properties below except: setMetatalbe(t) made a handle that is not
\* counted (see EveryHandleIsCounted), or a script called mweak on a value Java
\* holds more often than mstrong.  Either takes the count of another handle.
Balanced == ~lent /\ ~weakened

\* The count of an entry is the number of handles and strong references of its
\* value; in a VM without a Handler, handles the finalizer gave back stay
\* counted.
Held(a)  == Cardinality(Holders(a)) + StrongAt(a)
Right(a) == count[a] >= Held(a) /\ (handler => count[a] = Held(a))

CountIsHolders == vm = "open" /\ Balanced => \A a \in Addresses : Right(a)

\* A handle that was not destroyed reaches the value it was made for: that was
\* not collected, and its address does not mean another value.
HandleReachesValue ==
    vm = "open" /\ Balanced =>
       \A h \in Handles : ~handle[h].called =>
          Has(handle[h].key) /\ place[handle[h].of] = handle[h].key

\* An entry nobody holds any more is removed, if the VM has a Handler.
Unheld(a) == Holders(a) \subseteq posted /\ StrongAt(a) = 0
EntriesReleased ==
    \A a \in Addresses : handler /\ Unheld(a) ~> (~Has(a) \/ ~Unheld(a))

\* cache.c:59, [GNV_NIDX] is the reference count of a value: each LuaTable that
\* Java holds is counted, also the one setMetatalbe returns, as long as the script
\* calls mweak no more often than mstrong.
EveryHandleIsCounted ==
    vm = "open" /\ ~weakened => \A h \in Handles : ~handle[h].called => Has(handle[h].key)
=============================================================================
