-------------------------------- MODULE CList --------------------------------
(***************************************************************************)
(* The list of japi/list.c without autoRelist, as the data binding makes   *)
(* it: list_remove leaves a gap (Null) behind and size counts the rest.    *)
(* arr is the used part of the array, len what is allocated.               *)
(***************************************************************************)
EXTENDS Naturals, Sequences, FiniteSets

CONSTANT Null  \* the content of a gap

\* A list never counts more elements than it has slots, nor has more slots than
\* memory.
Lists(Values) ==
    {l \in [arr : Seq(Values \cup {Null}), size : Nat, len : Nat] :
        l.size <= Len(l.arr) /\ Len(l.arr) <= l.len}

NewList(len) == [arr |-> << >>, size |-> 0, len |-> len]

list_size(l) == l.size

InUse(l) == {l.arr[i] : i \in DOMAIN l.arr} \ {Null}

HasGap(l) == \E i \in DOMAIN l.arr : l.arr[i] = Null

\* The target of a move starts at the first slot and advances only when
\* something moves: the n-th element behind the first slot goes to slot n, and
\* an element in the first slot is written over.
Behind(l) == {i \in 2 .. Len(l.arr) : l.arr[i] # Null}
Moved(l, n) == {i \in Behind(l) : Cardinality({j \in Behind(l) : j <= i}) = n}

WrittenOver(l) == IF Behind(l) # {} THEN {l.arr[1]} \ {Null} ELSE {}

SlotAfter(l, n) ==
    CASE Moved(l, n) # {}           -> l.arr[CHOOSE i \in Moved(l, n) : TRUE]
      [] Moved(l, n) = {} /\ n = 1 -> l.arr[1]
      [] OTHER                      -> Null

list_relist(l) == [l EXCEPT !.arr = [n \in 1 .. l.size |-> SlotAfter(l, n)]]

\* Mutant of Grown: the memory grows, its length is not noted.
GrownUnnoted(l) == l

\* resize() grows by load_factor, three quarters, and by one at least.
Grown(l) == LET len == (7 * l.len) \div 4
            IN [l EXCEPT !.len = IF len > @ THEN len ELSE @ + 1]

IsFull(l) == Len(l.arr) >= l.len

Relists(l) == IsFull(l) /\ Len(l.arr) > l.size

list_add(l, v) ==
    LET room == IF Relists(l) THEN list_relist(l)
                ELSE IF IsFull(l) THEN Grown(l) ELSE l
    IN [room EXCEPT !.arr = Append(@, v), !.size = @ + 1]

Slots(l, v) == {i \in DOMAIN l.arr : l.arr[i] = v}

FirstSlot(l, v) == CHOOSE i \in Slots(l, v) : \A j \in Slots(l, v) : i <= j

\* Counted from zero, size + 1 when v is not there: its callers compare it
\* with the size, which gaps make smaller than the index of a last element.
list_index(l, v) == IF Slots(l, v) = {} THEN l.size + 1 ELSE FirstSlot(l, v) - 1

IsIn(l, v) == list_index(l, v) < list_size(l)

\* A list of strings compares with strcmp: it reads through the gaps it
\* passes on the way to v.
ReadsGap(l, v) == \E i \in Slots(l, Null) : \A j \in Slots(l, v) : i < j

\* list_remove_obj; with the slot known, list_remove.
list_remove_obj(l, v) ==
    IF Slots(l, v) = {} THEN l
    ELSE [l EXCEPT !.arr[FirstSlot(l, v)] = Null, !.size = @ - 1]
=============================================================================
