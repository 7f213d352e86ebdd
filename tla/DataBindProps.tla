----------------------------- MODULE DataBindProps -----------------------------
(* What the data binding promises to the pages that share it. *)
EXTENDS DataBind

Frames ==
    [key : Keys, holders : SUBSET Keys, altered : SUBSET Keys, pos : Nat, vm : VMs \cup {Null},
     stage : {"list", "key", "tree"}, at : Keys, calling : BOOLEAN, todo : SUBSET Keys,
     nilAfter : Keys \cup {<< >>}, listFreed : BOOLEAN, walkFreed : BOOLEAN, owed : SUBSET (VMs \X Keys)]

\* The shape of the maps, of their lists and of the stack of assignments.
TypeOK ==
    /\ key_observable \in [Roots -> VMs \cup {Null}]
    /\ key_observer \in [Keys -> Lists(VMs) \cup {Null}]
    /\ vm_key \in [VMs -> Lists(Keys) \cup {Null}]
    /\ open \subseteq VMs
    /\ oatk \in [VMs -> SUBSET Roots]
    /\ otk \in [VMs -> SUBSET Keys] /\ typed \in [VMs -> SUBSET Keys]
    /\ nodes \in [VMs -> SUBSET Keys] /\ room \in [VMs -> [Keys \cup {<< >>} -> Nat]]
    /\ frames \in Seq(Frames) /\ Len(frames) <= MaxDepth
    /\ fault \in {"none", "null key", "empty node", "closed VM", "freed list", "freed node"}
    /\ calls \in 0 .. MaxCalls
    /\ hist \in [{"unwatched", "refused", "doubled", "displaced", "grown", "missed"} -> SUBSET VMs]

----------------------------------------------------------------------------

Refers(v) ==
    \/ \E r \in Roots : key_observable[r] = v
    \/ \E k \in Keys : key_observer[k] # Null /\ v \in InUse(key_observer[k])
    \/ vm_key[v] # Null

\* DB_Close "clears all that is cached about the VM" (databindengine.h:32):
\* nothing leads to a closed VM, whose memory is gone.  The code keeps this for
\* a VM that never unwatched a key, was never refused one, and was never put
\* twice in a list (by a second watch after another watcher left a gap).
ClosedForgotten ==
    \A v \in VMs \ (open \cup hist.unwatched \cup hist.refused \cup hist.doubled) : ~Refers(v)

\* An assignment calls the functions of every VM that watched the key, or a
\* key below it whose holder is a table in the value, before the assignment
\* began, whatever the functions called on the way do, unless that VM unwatched
\* something, list_relist wrote over it, a function's watch made list_relist
\* move it to a slot already visited, or its own watch in a function made a
\* node grow that the walk was in.  What is below a key that a function
\* assigns to is the new assignment's.
WatchersHear == hist.missed \subseteq hist.unwatched \cup hist.displaced \cup hist.grown

\* As long as no page unwatches, is refused a key, watches one again after
\* another page left, or in a function one that makes a node grow which the
\* walk is in, nothing freed is used and no gap is compared: watchers that
\* bind, watch and assign in their functions otherwise, and pages that close,
\* are safe.  What remains is find() in a node that never had arrays.
NoFault ==
    hist.unwatched \cup hist.refused \cup hist.doubled \cup hist.grown = {}
        => fault \in {"none", "empty node"}
=============================================================================
