---------------------------- MODULE IsolateProofs ----------------------------
(***************************************************************************)
(* Theorems about isolates, for any set of threads, names and arguments    *)
(* and whatever the scripts may call: a name resolves to an isolate that   *)
(* lives, and a copied argument has one owner and is freed once.           *)
(*                                                                         *)
(* The inductive invariant adds where each argument may be (Owned), that   *)
(* nothing is posted twice, and what is known of a thread that started.    *)
(***************************************************************************)
EXTENDS IsolateProps, FiniteSetTheorems, SequenceTheorems, TLAPS

USE IsolateConstants

\* A thread that started has a name and, of a once isolate, a creator.
Started ==
    /\ \A v \in Vms : vm[v] = "open" => name[v] \in Names
    /\ \A t \in Global \cup Once : pc[t] # "none" => name[t] \in Names
    /\ \A g \in Global : pc[g] = "unnamed" => vm[g] = "open"
    /\ \A o \in Once : pc[o] # "none" => parent[o] \in Refs

\* A pointer into the map points to a global isolate.
PointsRight(r) == r.type = "global" => r.vm \in Global
RefsGood ==
    /\ \A o \in Once : PointsRight(parent[o])
    /\ \A j \in Jobs : PointsRight(job[j].parent)

\* The count of children is at least the number of their names.
ChildrenFit ==
    \A v \in Boxes : /\ IsFiniteSet(children[v].names)
                     /\ Cardinality(children[v].names) <= children[v].num

Control == TypeOK /\ Started /\ RefsGood /\ RegistryAlive /\ ChildrenFit

\* Where an argument is, and how often it was freed.
At(m, q, t, p, f) == Queued(m) = q /\ Taken(m) = t /\ Pending(m) = p /\ freed[m] = f
InQueue(m) == (\E v \in Boxes : At(m, {v}, {}, {}, 0)) /\ ~Leaked(m)
InLoop(m)  == (\E v \in Boxes : At(m, {}, {v}, {}, 0)) /\ ~Leaked(m)
InPost(m)  == (\E v \in Vms : At(m, {}, {}, {v}, 0)) /\ ~Leaked(m)
Settled(m) == At(m, {}, {}, {}, 1) \/ (At(m, {}, {}, {}, 0) /\ Leaked(m))
Nowhere(m) == At(m, {}, {}, {}, 0) /\ ~Leaked(m)

OneOwner(m) ==
    /\ Allocated(m) => InQueue(m) \/ InLoop(m) \/ InPost(m) \/ Settled(m)
    /\ ~Allocated(m) => Nowhere(m)

Distinct(s) == \A i, j \in 1..Len(s) : i # j => s[i] # s[j]

Owned ==
    /\ \A m \in Msgs : OneOwner(m)
    /\ \A v \in Boxes : Distinct(box[v])
    /\ \A m \in done : m[1] \in {"save", "remove", "action"} => freed[m] = 1

IInv == Control /\ Owned

----------------------------------------------------------------------------
\* Facts about messages, sequences and pointers.

LEMMA MessageShape ==
    /\ \A m \in Msgs :
         /\ m = <<m[1], m[2]>> /\ m # NoMsg
         /\ m[1] \in {"save", "remove", "action", "callback", "reply"}
         /\ m[1] \in {"save", "remove"} => m[2] \in Once
         /\ m[1] \in {"action", "callback", "reply"} => m[2] \in Jobs
    /\ \A o \in Once : <<"save", o>> \in Msgs /\ <<"remove", o>> \in Msgs
    /\ \A j \in Jobs : /\ <<"action", j>> \in Msgs /\ <<"callback", j>> \in Msgs
                       /\ <<"reply", j>> \in Msgs
  BY DEF Msgs, NoMsg

LEMMA AppendContains ==
    ASSUME NEW s \in Seq(Msgs), NEW e \in Msgs
    PROVE  /\ Append(s, e) \in Seq(Msgs)
           /\ \A m \in Msgs : Contains(Append(s, e), m) <=> Contains(s, m) \/ m = e
           /\ Distinct(s) /\ ~Contains(s, e) => Distinct(Append(s, e))
<1>1. /\ Append(s, e) \in Seq(Msgs) /\ Len(Append(s, e)) = Len(s) + 1 /\ Len(s) \in Nat
      /\ \A i \in 1..Len(s) : Append(s, e)[i] = s[i]
      /\ Append(s, e)[Len(s) + 1] = e
  BY AppendProperties
<1>2. 1..Len(s) + 1 = 1..Len(s) \cup {Len(s) + 1}
  BY <1>1
<1>3. \A m \in Msgs : Contains(Append(s, e), m) <=> Contains(s, m) \/ m = e
  BY <1>1, <1>2 DEF Contains
<1>4. ASSUME Distinct(s), ~Contains(s, e) PROVE Distinct(Append(s, e))
  BY <1>1, <1>2, <1>4 DEF Distinct, Contains
<1>5. QED
  BY <1>1, <1>3, <1>4

LEMMA TailContains ==
    ASSUME NEW s \in Seq(Msgs), s # <<>>, Distinct(s)
    PROVE  /\ Head(s) \in Msgs /\ Contains(s, Head(s)) /\ Tail(s) \in Seq(Msgs)
           /\ \A m \in Msgs : Contains(Tail(s), m) <=> Contains(s, m) /\ m # Head(s)
           /\ Distinct(Tail(s))
<1>1. /\ Head(s) \in Msgs /\ Head(s) = s[1] /\ Tail(s) \in Seq(Msgs)
      /\ Len(Tail(s)) = Len(s) - 1 /\ Len(s) \in Nat \ {0}
      /\ \A i \in 1..Len(Tail(s)) : Tail(s)[i] = s[i + 1]
  BY HeadTailProperties, EmptySeq
<1>2. Contains(s, Head(s))
  BY <1>1 DEF Contains
<1>3. ASSUME NEW m \in Msgs PROVE Contains(Tail(s), m) <=> Contains(s, m) /\ m # Head(s)
  <2>1. ASSUME NEW i \in 1..Len(Tail(s)), Tail(s)[i] = m
        PROVE  Contains(s, m) /\ m # Head(s)
    <3>1. i + 1 \in 1..Len(s) /\ 1 \in 1..Len(s) /\ i + 1 # 1 /\ s[i + 1] = m
      BY <1>1, <2>1
    <3>2. QED
      BY <1>1, <3>1 DEF Contains, Distinct
  <2>2. ASSUME NEW i \in 1..Len(s), s[i] = m, m # Head(s) PROVE Contains(Tail(s), m)
    <3>1. i - 1 \in 1..Len(Tail(s)) /\ Tail(s)[i - 1] = s[(i - 1) + 1] /\ (i - 1) + 1 = i
      BY <1>1, <2>2
    <3>2. QED
      BY <2>2, <3>1 DEF Contains
  <2>3. QED
    BY <2>1, <2>2 DEF Contains
<1>4. Distinct(Tail(s))
  <2>1. ASSUME NEW i \in 1..Len(Tail(s)), NEW j \in 1..Len(Tail(s)), i # j
        PROVE  Tail(s)[i] # Tail(s)[j]
    <3>1. i + 1 \in 1..Len(s) /\ j + 1 \in 1..Len(s) /\ i + 1 # j + 1
      BY <1>1, <2>1
    <3>2. QED
      BY <1>1, <3>1 DEF Distinct
  <2>2. QED
    BY <2>1 DEF Distinct
<1>5. QED
  BY <1>1, <1>2, <1>3, <1>4

LEMMA InsertTypes ==
    ASSUME NEW s \in Seq(Global), NEW g \in Global, NEW i \in 1..Len(s) + 1
    PROVE  InsertAt(s, i, g) \in Seq(Global)
<1>1. SubSeq(s, 1, i - 1) \in Seq(Global) /\ SubSeq(s, i, Len(s)) \in Seq(Global)
  OBVIOUS
<1>2. QED
  BY <1>1 DEF InsertAt

\* The pointer a running script gets of its own isolate.
LEMMA CurrentIsGood ==
    ASSUME TypeOK, Started, NEW v \in Vms, vm[v] = "open"
    PROVE  CurrentIsolate(v) \in Refs /\ PointsRight(CurrentIsolate(v))
<1>1. registry[name[v]] \in Global \cup {Null} /\ Null \notin Global
  BY DEF TypeOK, Started, Vms
<1>2. QED
  BY <1>1 DEF CurrentIsolate, Refs, PointsRight, Vms

LEMMA PostOutcome ==
    ASSUME TypeOK, NEW r \in Refs, PointsRight(r)
    PROVE  /\ Outcome(r) \in {"posted", "before", "inside"}
           /\ Outcome(r) = "posted" => r.vm \in Boxes
<1>1. r.type \in {"main", "once", "global"}
  BY DEF Refs
<1>2. QED
  BY <1>1 DEF Outcome, PointsRight, Boxes

\* What a post does with m, which is in no queue: it is in one now, or freed.
LEMMA SendKeeps ==
    ASSUME TypeOK, \A v \in Boxes : Distinct(box[v]),
           NEW r \in Refs, PointsRight(r), NEW m \in Msgs, Queued(m) = {},
           NEW f \in [Msgs -> Nat], f[m] = 0, Send(r, m, f)
    PROVE  /\ box' \in [Boxes -> Seq(Msgs)] /\ freed' \in [Msgs -> Nat]
           /\ \A k \in Msgs \ {m} : Queued(k)' = Queued(k) /\ freed'[k] = f[k]
           /\ \A v \in Boxes : Distinct(box[v])'
           /\ \/ \E v \in Boxes : Queued(m)' = {v} /\ freed'[m] = 0
              \/ Queued(m)' = {} /\ freed'[m] = 1
<1> DEFINE out == Outcome(r)
<1>1. out \in {"posted", "before", "inside"} /\ (out = "posted" => r.vm \in Boxes)
  BY PostOutcome
<1>2. /\ box' = IF out = "posted" THEN [box EXCEPT ![r.vm] = Append(@, m)] ELSE box
      /\ freed' = [f EXCEPT ![m] = @ + Frees(out)]
  BY DEF Send, Enqueue
<1>3. Frees(out) = IF out = "posted" THEN 0 ELSE 1
  BY <1>1 DEF Frees, CallerFrees
<1> HIDE DEF out
<1>4. freed' \in [Msgs -> Nat] /\ \A k \in Msgs \ {m} : freed'[k] = f[k]
  BY <1>2, <1>3
<1>5. CASE out # "posted"
  <2>1. freed'[m] = 1 /\ box' = box
    BY <1>2, <1>3, <1>5
  <2>2. QED
    BY <1>4, <2>1 DEF TypeOK, Queued
<1>6. CASE out = "posted"
  <2>1. freed'[m] = 0
    BY <1>2, <1>3, <1>6
  <2>2. PICK w \in Boxes : w = r.vm
    BY <1>1, <1>6
  <2>3. /\ box[w] \in Seq(Msgs) /\ Distinct(box[w]) /\ box \in [Boxes -> Seq(Msgs)]
        /\ \A v \in Boxes : ~Contains(box[v], m)
    BY DEF TypeOK, Queued
  <2>4. /\ box' = [box EXCEPT ![w] = Append(box[w], m)]
        /\ Append(box[w], m) \in Seq(Msgs) /\ Distinct(Append(box[w], m))
        /\ \A k \in Msgs : Contains(Append(box[w], m), k) <=> Contains(box[w], k) \/ k = m
    BY <1>2, <1>6, <2>2, <2>3, AppendContains
  <2>5. /\ box' \in [Boxes -> Seq(Msgs)] /\ box'[w] = Append(box[w], m)
        /\ \A v \in Boxes \ {w} : box'[v] = box[v]
    BY <2>3, <2>4
  <2>6. \A v \in Boxes : Distinct(box[v])'
    <3>1. \A v \in Boxes : Distinct(box'[v])
      BY <2>4, <2>5
    <3>2. QED
      BY <3>1 DEF Distinct
  <2>7. \A v \in Boxes, k \in Msgs :
           Contains(box'[v], k) <=> Contains(box[v], k) \/ (v = w /\ k = m)
    BY <2>4, <2>5
  <2>8. /\ \A k \in Msgs \ {m} : Queued(k)' = Queued(k)
        /\ Queued(m)' = {w}
    BY <2>3, <2>7 DEF Queued
  <2>9. QED
    BY <1>4, <2>1, <2>5, <2>6, <2>8
<1>7. QED
  BY <1>5, <1>6

\* An argument that no step touches stays where it is.
LEMMA SamePlace ==
    ASSUME NEW m \in Msgs, OneOwner(m), Allocated(m)' <=> Allocated(m),
           Queued(m)' = Queued(m), Taken(m)' = Taken(m), Pending(m)' = Pending(m),
           freed'[m] = freed[m], m \in done' <=> m \in done
    PROVE  OneOwner(m)'
<1>1. Leaked(m)' <=> Leaked(m)
  BY DEF Leaked
<1>2. QED
  BY <1>1 DEF OneOwner, InQueue, InLoop, InPost, Settled, Nowhere, At

\* Steps that move no argument.
LEMMA NothingMoves ==
    ASSUME Owned, UNCHANGED <<box, cur, op, done, freed>>,
           \A m \in Msgs : Allocated(m)' <=> Allocated(m)
    PROVE  Owned'
<1>1. ASSUME NEW m \in Msgs PROVE OneOwner(m)'
  <2>1. Queued(m)' = Queued(m) /\ Taken(m)' = Taken(m) /\ Pending(m)' = Pending(m)
    BY DEF Queued, Taken, Pending
  <2>2. QED
    BY <2>1, SamePlace DEF Owned
<1>2. QED
  BY <1>1 DEF Owned, Distinct

\* Nothing else happens when the program ends in a fault.
LEMMA CrashStep ==
    ASSUME IInv, NEW f \in Faults, Crash(f)
    PROVE  IInv'
<1> USE DEF Crash, threads, shared, queues, tables
<1>1. Control'
  <2>1. TypeOK'
    BY DEF IInv, Control, TypeOK
  <2>2. Started' /\ RefsGood' /\ RegistryAlive' /\ ChildrenFit'
    BY DEF IInv, Control, Started, RefsGood, PointsRight, RegistryAlive, ChildrenFit
  <2>3. QED
    BY <2>1, <2>2 DEF Control
<1>2. \A m \in Msgs : Allocated(m)' <=> Allocated(m)
  BY DEF Allocated
<1>3. QED
  BY <1>1, <1>2, NothingMoves DEF IInv

----------------------------------------------------------------------------
\* What scripts do.

LEMMA InvariantInit == Init => IInv
<1> SUFFICES ASSUME Init PROVE IInv
  OBVIOUS
<1>1. TypeOK
  <2>1. NoRef.type = "none" /\ MainName \in Names
    BY DEF NoRef
  <2>2. QED
    BY <2>1 DEF Init, TypeOK, Vms, Boxes, NoOp, NoJob, Faults
<1>2. Started
  BY DEF Init, Started, Vms
<1>3. RefsGood /\ RegistryAlive
  BY DEF Init, RefsGood, PointsRight, RegistryAlive, NoRef, NoJob
<1>4. ChildrenFit
  <2>1. IsFiniteSet({}) /\ Cardinality({}) = 0
    BY FS_EmptySet
  <2>2. \A v \in Boxes : children[v].names = {} /\ children[v].num = 0
    BY DEF Init
  <2>3. ASSUME NEW v \in Boxes
        PROVE  IsFiniteSet(children[v].names) /\ Cardinality(children[v].names) = 0
    BY <2>1, <2>2
  <2>4. QED
    BY <2>2, <2>3 DEF ChildrenFit
<1>5. Owned
  <2>1. ASSUME NEW m \in Msgs PROVE OneOwner(m)
    <3>1. Queued(m) = {} /\ Taken(m) = {} /\ Pending(m) = {} /\ freed[m] = 0
      BY MessageShape DEF Init, Queued, Taken, Pending, Contains, NoOp
    <3>2. ~Allocated(m) /\ ~Leaked(m)
      BY MessageShape DEF Init, Allocated, Leaked, NoJob
    <3>3. QED
      BY <3>1, <3>2 DEF OneOwner, Nowhere, At
  <2>2. QED
    BY <2>1 DEF Owned, Init, Distinct
<1>6. QED
  BY <1>1, <1>2, <1>3, <1>4, <1>5 DEF IInv, Control

LEMMA CreateStep ==
    ASSUME IInv, NEW v \in Vms, Create(v)
    PROVE  IInv'
<1> USE DEF shared, queues, tables
<1>1. PICK o \in Once, n \in Names :
         /\ pc[o] = "none"
         /\ pc' = [pc EXCEPT ![o] = "start"]
         /\ name' = [name EXCEPT ![o] = n]
         /\ parent' = [parent EXCEPT ![o] = CurrentIsolate(v)]
  BY DEF Create
<1>2. vm[v] = "open"
  BY DEF Create, MayCall
<1>3. PICK r \in Refs : r = CurrentIsolate(v) /\ PointsRight(r)
  BY <1>2, CurrentIsGood DEF IInv, Control
<1>4. o \notin Global /\ o \in Vms
  BY DEF Vms
<1>5. TypeOK'
  BY <1>1, <1>3, <1>4 DEF Create, IInv, Control, TypeOK
<1>6. Started' /\ RefsGood'
  BY <1>1, <1>3, <1>4 DEF Create, IInv, Control, TypeOK, Started, RefsGood, PointsRight
<1>7. RegistryAlive'
  BY <1>1, <1>4 DEF Create, IInv, Control, TypeOK, RegistryAlive, Vms
<1>8. ChildrenFit'
  BY DEF Create, IInv, Control, ChildrenFit
<1>9. Owned'
  <2>1. \A m \in Msgs : Allocated(m)' <=> Allocated(m)
    BY <1>1 DEF Create, Allocated, IInv, Control, TypeOK
  <2>2. QED
    BY <2>1, NothingMoves DEF Create, IInv
<1>10. QED
  BY <1>5, <1>6, <1>7, <1>8, <1>9 DEF IInv, Control

LEMMA OpenGlobalStep ==
    ASSUME IInv, NEW v \in Vms, OpenGlobal(v)
    PROVE  IInv'
<1> USE DEF OpenGlobal, shared, queues, tables
<1>1. PICK g \in Global, n \in Names :
         /\ pc[g] = "none"
         /\ pc' = [pc EXCEPT ![g] = "start"]
         /\ name' = [name EXCEPT ![g] = n]
  OBVIOUS
<1>2. g \notin Once /\ g \in Vms
  BY DEF Vms
<1>3. TypeOK'
  BY <1>1, <1>2 DEF IInv, Control, TypeOK
<1>4. Started' /\ RefsGood'
  BY <1>1, <1>2 DEF IInv, Control, TypeOK, Started, RefsGood, PointsRight
<1>5. RegistryAlive'
  BY <1>1, <1>2 DEF IInv, Control, TypeOK, RegistryAlive, Vms
<1>6. ChildrenFit'
  BY DEF IInv, Control, ChildrenFit
<1>7. Owned'
  <2>1. \A m \in Msgs : Allocated(m)' <=> Allocated(m)
    BY <1>1, <1>2, MessageShape DEF Allocated, IInv, Control, TypeOK
  <2>2. QED
    BY <2>1, NothingMoves DEF IInv
<1>8. QED
  BY <1>3, <1>4, <1>5, <1>6, <1>7 DEF IInv, Control

LEMMA CloseSelfStep ==
    ASSUME IInv, NEW v \in Vms, CloseSelf(v)
    PROVE  IInv'
<1> USE DEF CloseSelf, threads, shared, tables
<1>1. TypeOK'
  BY DEF IInv, Control, TypeOK
<1>2. Started' /\ RefsGood' /\ ChildrenFit'
  BY DEF IInv, Control, Started, RefsGood, PointsRight, ChildrenFit
<1>3. RegistryAlive'
  BY DEF IInv, Control, TypeOK, RegistryAlive
<1>4. \A m \in Msgs : Allocated(m)' <=> Allocated(m)
  BY DEF Allocated
<1>5. QED
  BY <1>1, <1>2, <1>3, <1>4, NothingMoves DEF IInv, Control

LEMMA RegisterStep ==
    ASSUME IInv, NEW v \in Vms, RegisterCallback(v)
    PROVE  IInv'
<1> USE DEF RegisterCallback, threads, shared, queues
<1>1. TypeOK'
  BY DEF IInv, Control, TypeOK
<1>2. Started' /\ RefsGood' /\ ChildrenFit' /\ RegistryAlive'
  BY DEF IInv, Control, Started, RefsGood, PointsRight, ChildrenFit, RegistryAlive
<1>3. \A m \in Msgs : Allocated(m)' <=> Allocated(m)
  BY DEF Allocated
<1>4. QED
  BY <1>1, <1>2, <1>3, NothingMoves DEF IInv, Control

LEMMA DestroyMainStep ==
    ASSUME IInv, DestroyMain
    PROVE  IInv'
<1> USE DEF DestroyMain, shared, queues, tables
<1>1. Main \notin Global /\ vm' = [vm EXCEPT ![Main] = "closed"]
  OBVIOUS
<1>2. TypeOK'
  BY <1>1 DEF IInv, Control, TypeOK
<1>3. Started' /\ RefsGood' /\ ChildrenFit' /\ RegistryAlive'
  BY <1>1 DEF IInv, Control, TypeOK, Started, RefsGood, PointsRight, ChildrenFit, RegistryAlive, Vms
<1>4. \A m \in Msgs : Allocated(m)' <=> Allocated(m)
  BY DEF Allocated
<1>5. QED
  BY <1>2, <1>3, <1>4, NothingMoves DEF IInv, Control

----------------------------------------------------------------------------
\* What threads do that move no argument.

LEMMA StartOnceStep ==
    ASSUME IInv, NEW o \in Once, StartOnce(o)
    PROVE  IInv'
<1> USE DEF shared, queues, tables
<1>1. CASE \E f \in {"freed_isolate", "no_globals"} : Crash(f)
  BY <1>1, CrashStep DEF Faults
<1>2. CASE /\ pc[o] = "start" /\ vm' = [vm EXCEPT ![o] = "open"]
           /\ pc' = [pc EXCEPT ![o] = "save"]
           /\ UNCHANGED <<name, parent, shared, queues, op, job, tables, done, freed, fault>>
  <2>1. o \notin Global /\ o \in Vms
    BY DEF Vms
  <2>2. TypeOK'
    BY <1>2, <2>1 DEF IInv, Control, TypeOK
  <2>3. Started' /\ RefsGood' /\ ChildrenFit'
    BY <1>2, <2>1 DEF IInv, Control, TypeOK, Started, RefsGood, PointsRight, ChildrenFit
  <2>4. RegistryAlive'
    BY <1>2, <2>1 DEF IInv, Control, TypeOK, RegistryAlive
  <2>5. \A m \in Msgs : Allocated(m)' <=> Allocated(m)
    BY <1>2, MessageShape DEF Allocated, IInv, Control, TypeOK
  <2>6. QED
    BY <1>2, <2>2, <2>3, <2>4, <2>5, NothingMoves DEF IInv, Control
<1>3. QED
  BY <1>1, <1>2 DEF StartOnce

LEMMA EndOnceStep ==
    ASSUME IInv, NEW o \in Once, EndOnce(o)
    PROVE  IInv'
<1> USE DEF EndOnce, shared, queues, tables
<1>1. o \notin Global /\ o \in Vms
  BY DEF Vms
<1>2. TypeOK'
  BY <1>1 DEF IInv, Control, TypeOK
<1>3. Started' /\ RefsGood' /\ ChildrenFit'
  BY <1>1 DEF IInv, Control, TypeOK, Started, RefsGood, PointsRight, ChildrenFit
<1>4. RegistryAlive'
  BY <1>1 DEF IInv, Control, TypeOK, RegistryAlive
<1>5. \A m \in Msgs : Allocated(m)' <=> Allocated(m)
  BY MessageShape DEF Allocated, IInv, Control, TypeOK
<1>6. QED
  BY <1>2, <1>3, <1>4, <1>5, NothingMoves DEF IInv, Control

LEMMA StartGlobalStep ==
    ASSUME IInv, NEW g \in Global, StartGlobal(g)
    PROVE  IInv'
<1> USE DEF StartGlobal, queues, tables
<1>1. g \notin Once /\ g \in Vms
  BY DEF Vms
<1>2. javaVms' \in Seq(Global)
  BY InsertTypes DEF IInv, Control, TypeOK
<1>3. TypeOK'
  BY <1>1, <1>2 DEF IInv, Control, TypeOK
<1>4. Started' /\ RefsGood' /\ ChildrenFit'
  BY <1>1 DEF IInv, Control, TypeOK, Started, RefsGood, PointsRight, ChildrenFit
<1>5. RegistryAlive'
  BY <1>1 DEF IInv, Control, TypeOK, RegistryAlive
<1>6. \A m \in Msgs : Allocated(m)' <=> Allocated(m)
  BY <1>1, MessageShape DEF Allocated, IInv, Control, TypeOK
<1>7. QED
  BY <1>3, <1>4, <1>5, <1>6, NothingMoves DEF IInv, Control

\* A name that is taken twice resolves to the isolate that came last.
LEMMA SaveGlobalStep ==
    ASSUME IInv, NEW g \in Global, SaveGlobal(g)
    PROVE  IInv'
<1> USE DEF SaveGlobal, tables
<1>1. g \notin Once /\ g \in Vms /\ name[g] \in Names /\ vm[g] = "open"
  BY DEF Vms, IInv, Control, Started
<1>2. TypeOK'
  BY <1>1 DEF IInv, Control, TypeOK
<1>3. Started' /\ RefsGood' /\ ChildrenFit'
  BY <1>1 DEF IInv, Control, TypeOK, Started, RefsGood, PointsRight, ChildrenFit
<1>4. RegistryAlive'
  BY <1>1 DEF IInv, Control, TypeOK, RegistryAlive
<1>5. \A m \in Msgs : Allocated(m)' <=> Allocated(m)
  BY <1>1, MessageShape DEF Allocated, IInv, Control, TypeOK
<1>6. QED
  BY <1>2, <1>3, <1>4, <1>5, NothingMoves DEF IInv, Control

LEMMA LeaveLoopStep ==
    ASSUME IInv, NEW g \in Global, LeaveLoop(g)
    PROVE  IInv'
<1> USE DEF LeaveLoop, shared, tables
<1>1. g \notin Once /\ g \in Vms
  BY DEF Vms
<1>2. TypeOK'
  BY <1>1 DEF IInv, Control, TypeOK
<1>3. Started' /\ RefsGood' /\ ChildrenFit'
  BY <1>1 DEF IInv, Control, TypeOK, Started, RefsGood, PointsRight, ChildrenFit
<1>4. RegistryAlive'
  BY <1>1 DEF IInv, Control, TypeOK, RegistryAlive
<1>5. \A m \in Msgs : Allocated(m)' <=> Allocated(m)
  BY <1>1, MessageShape DEF Allocated, IInv, Control, TypeOK
<1>6. QED
  BY <1>2, <1>3, <1>4, <1>5, NothingMoves DEF IInv, Control

\* remove_global_isolate frees the struct of its own name; isolates that are
\* registered under others have others.
LEMMA RemoveGlobalStep ==
    ASSUME IInv, NEW g \in Global, RemoveGlobal(g)
    PROVE  IInv'
<1> USE DEF RemoveGlobal, Unregister, queues, tables
<1>1. g \notin Once /\ g \in Vms /\ name[g] \in Names
  BY DEF Vms, IInv, Control, Started
<1>2. TypeOK'
  BY <1>1 DEF IInv, Control, TypeOK
<1>3. Started' /\ RefsGood' /\ ChildrenFit'
  BY <1>1 DEF IInv, Control, TypeOK, Started, RefsGood, PointsRight, ChildrenFit
<1>4. RegistryAlive'
  <2>1. ASSUME NEW n \in Names, registry'[n] # Null
        PROVE  /\ n # name[g] /\ registry'[n] = registry[n]
               /\ registry[n] # g /\ registry[n] # registry[name[g]] /\ registry[n] \in Global
    BY <1>1, <2>1 DEF IInv, Control, TypeOK, RegistryAlive
  <2>2. QED
    BY <1>1, <2>1 DEF IInv, Control, TypeOK, RegistryAlive
<1>5. \A m \in Msgs : Allocated(m)' <=> Allocated(m)
  BY <1>1, MessageShape DEF Allocated, IInv, Control, TypeOK
<1>6. QED
  BY <1>2, <1>3, <1>4, <1>5, NothingMoves DEF IInv, Control

LEMMA CloseGlobalStep ==
    ASSUME IInv, NEW g \in Global, CloseGlobal(g)
    PROVE  IInv'
<1> USE DEF shared, queues, tables
<1>1. CASE Crash("closed_twice")
  BY <1>1, CrashStep DEF Faults
<1>2. CASE /\ pc[g] = "close" /\ vm' = [vm EXCEPT ![g] = "closed"]
           /\ pc' = [pc EXCEPT ![g] = "exit"]
           /\ UNCHANGED <<name, parent, shared, queues, op, job, tables, done, freed, fault>>
  <2>1. g \notin Once /\ g \in Vms
    BY DEF Vms
  <2>2. TypeOK'
    BY <1>2, <2>1 DEF IInv, Control, TypeOK
  <2>3. Started' /\ RefsGood' /\ ChildrenFit'
    BY <1>2, <2>1 DEF IInv, Control, TypeOK, Started, RefsGood, PointsRight, ChildrenFit
  <2>4. RegistryAlive'
    BY <1>2, <2>1 DEF IInv, Control, TypeOK, RegistryAlive
  <2>5. \A m \in Msgs : Allocated(m)' <=> Allocated(m)
    BY <1>2, <2>1, MessageShape DEF Allocated, IInv, Control, TypeOK
  <2>6. QED
    BY <1>2, <2>2, <2>3, <2>4, <2>5, NothingMoves DEF IInv, Control
<1>3. QED
  BY <1>1, <1>2 DEF CloseGlobal

----------------------------------------------------------------------------
\* What moves arguments.

\* An argument that is copied and posted in one step.
LEMMA PostedAnew ==
    ASSUME IInv, NEW r \in Refs, PointsRight(r), NEW m \in Msgs, Send(r, m, freed),
           ~Allocated(m), Allocated(m)',
           \A k \in Msgs \ {m} : Allocated(k)' <=> Allocated(k),
           UNCHANGED <<cur, op, done>>
    PROVE  Owned' /\ box' \in [Boxes -> Seq(Msgs)] /\ freed' \in [Msgs -> Nat]
<1>1. /\ Queued(m) = {} /\ Taken(m) = {} /\ Pending(m) = {} /\ freed[m] = 0 /\ ~Leaked(m)
      /\ freed \in [Msgs -> Nat] /\ TypeOK /\ \A v \in Boxes : Distinct(box[v])
  BY DEF IInv, Control, TypeOK, Owned, OneOwner, Nowhere, At
<1>2. /\ box' \in [Boxes -> Seq(Msgs)] /\ freed' \in [Msgs -> Nat]
      /\ \A k \in Msgs \ {m} : Queued(k)' = Queued(k) /\ freed'[k] = freed[k]
      /\ \A v \in Boxes : Distinct(box[v])'
      /\ \/ \E v \in Boxes : Queued(m)' = {v} /\ freed'[m] = 0
         \/ Queued(m)' = {} /\ freed'[m] = 1
  BY <1>1, SendKeeps
<1>3. \A k \in Msgs : Taken(k)' = Taken(k) /\ Pending(k)' = Pending(k)
  BY DEF Taken, Pending
<1>4. ASSUME NEW k \in Msgs \ {m} PROVE OneOwner(k)'
  BY <1>2, <1>3, SamePlace DEF IInv, Owned
<1>5. OneOwner(m)'
  <2>1. Taken(m)' = {} /\ Pending(m)' = {}
    BY <1>1, <1>3
  <2>2. freed'[m] = 0 => ~Leaked(m)'
    BY <1>1 DEF Leaked
  <2>3. QED
    BY <1>2, <2>1, <2>2 DEF OneOwner, InQueue, Settled, At
<1>6. \A k \in done' : k[1] \in {"save", "remove", "action"} => freed'[k] = 1
  BY <1>1, <1>2 DEF IInv, Control, TypeOK, Owned
<1>7. QED
  BY <1>2, <1>4, <1>5, <1>6 DEF Owned

\* The argument a loop is executing is nowhere else.
LEMMA InHand ==
    ASSUME IInv, NEW v \in Boxes, NEW m \in Msgs, cur[v] = m
    PROVE  /\ Allocated(m) /\ Queued(m) = {} /\ Taken(m) = {v} /\ Pending(m) = {}
           /\ freed[m] = 0 /\ m \notin done
<1>1. v \in Taken(m) /\ OneOwner(m)
  BY DEF Taken, IInv, Owned
<1>2. Allocated(m) /\ InLoop(m)
  BY <1>1 DEF OneOwner, InQueue, InLoop, InPost, Settled, Nowhere, At
<1>3. Queued(m) = {} /\ Taken(m) = {v} /\ Pending(m) = {} /\ freed[m] = 0 /\ ~Leaked(m)
  BY <1>1, <1>2 DEF InLoop, At
<1>4. m \notin done
  BY <1>3, MessageShape DEF IInv, Owned, Leaked
<1>5. QED
  BY <1>2, <1>3, <1>4

\* A loop puts down the argument it executed.
LEMMA PutDown ==
    ASSUME IInv, NEW v \in Boxes, NEW m \in Msgs, cur[v] = m, Finish(v)
    PROVE  /\ cur' \in [Boxes -> Msgs \cup {NoMsg}] /\ done' = done \cup {m}
           /\ Taken(m)' = {} /\ \A k \in Msgs \ {m} : Taken(k)' = Taken(k)
<1>1. cur \in [Boxes -> Msgs \cup {NoMsg}] /\ NoMsg \notin Msgs /\ Taken(m) = {v}
  BY InHand, MessageShape DEF IInv, Control, TypeOK
<1>2. QED
  BY <1>1 DEF Finish, Taken

\* A step that only moves arguments leaves the rest alone.
LEMMA ControlKept ==
    ASSUME IInv, TypeOK', UNCHANGED <<threads, shared, mode, children, job>>
    PROVE  Control'
BY DEF IInv, Control, Started, RefsGood, PointsRight, RegistryAlive, ChildrenFit, threads, shared

LEMMA PostLookupStep ==
    ASSUME IInv, NEW v \in Vms, PostLookup(v)
    PROVE  IInv'
<1> USE DEF threads, shared, queues, tables
<1>1. PICK n \in Names, j \in Jobs, acb \in BOOLEAN :
         /\ MayCall(v, IF acb THEN "post_acb" ELSE "post")
         /\ registry[n] # Null /\ job[j] = NoJob
         /\ op' = [op EXCEPT ![v] = [to |-> registry[n], msg |-> <<"action", j>>]]
         /\ job' = [job EXCEPT ![j] = [kind |-> "action", from |-> v,
                        parent |-> IF acb THEN CurrentIsolate(v) ELSE NoRef]]
  BY DEF PostLookup
<1>2. PICK r \in Refs \cup {NoRef} :
         r = (IF acb THEN CurrentIsolate(v) ELSE NoRef) /\ PointsRight(r)
  <2>1. PointsRight(NoRef)
    BY DEF PointsRight, NoRef
  <2>2. QED
    BY <1>1, <2>1, CurrentIsGood DEF IInv, Control, MayCall
<1>3. PICK m \in Msgs : m = <<"action", j>>
  BY MessageShape
<1>4. registry[n] \in Global /\ op[v] = NoOp
  BY <1>1 DEF IInv, Control, TypeOK, MayCall
<1>5. job' = [job EXCEPT ![j] = [kind |-> "action", from |-> v, parent |-> r]]
  BY <1>1, <1>2
<1>6. TypeOK'
  <2>1. [kind |-> "action", from |-> v, parent |-> r] \in
           [kind : {"action", "callback"}, from : Vms, parent : Refs \cup {NoRef}]
    OBVIOUS
  <2>2. job' \in [Jobs -> [kind : {"action", "callback"}, from : Vms,
                           parent : Refs \cup {NoRef}] \cup {NoJob}]
    BY <1>5, <2>1 DEF IInv, Control, TypeOK
  <2>3. op' \in [Vms -> [to : Global, msg : {"action"} \X Jobs] \cup {NoOp}]
    BY <1>1, <1>4 DEF IInv, Control, TypeOK
  <2>4. QED
    BY <2>2, <2>3 DEF IInv, Control, TypeOK, PostLookup
<1>7. Started' /\ RegistryAlive' /\ ChildrenFit'
  BY DEF PostLookup, IInv, Control, Started, RegistryAlive, ChildrenFit
<1>8. RefsGood'
  BY <1>2, <1>5 DEF PostLookup, IInv, Control, TypeOK, RefsGood, PointsRight
<1>9. ~Allocated(m)
  BY <1>1, <1>3 DEF Allocated, NoJob
<1>10. /\ Queued(m) = {} /\ Taken(m) = {} /\ Pending(m) = {} /\ freed[m] = 0 /\ ~Leaked(m)
       /\ m \notin done
  <2>1. Nowhere(m)
    BY <1>9 DEF IInv, Owned, OneOwner
  <2>2. QED
    BY <1>3, <2>1 DEF Nowhere, At, IInv, Owned
<1>11. /\ job'[j].kind = "action" /\ job'[j].parent = r
       /\ \A i \in Jobs \ {j} : job'[i] = job[i]
  BY <1>5 DEF IInv, Control, TypeOK
<1>12. OneOwner(m)'
  <2>1. Pending(m)' = {v}
    <3>1. op'[v].msg = m /\ \A w \in Vms \ {v} : op'[w] = op[w]
      BY <1>1, <1>3 DEF IInv, Control, TypeOK
    <3>2. \A w \in Vms : op[w].msg # m
      BY <1>10 DEF Pending
    <3>3. QED
      BY <3>1, <3>2 DEF Pending
  <2>2. Queued(m)' = {} /\ Taken(m)' = {} /\ freed'[m] = 0 /\ ~Leaked(m)' /\ Allocated(m)'
    BY <1>3, <1>10, <1>11 DEF PostLookup, Queued, Taken, Leaked, Allocated
  <2>3. QED
    BY <2>1, <2>2 DEF OneOwner, InPost, At
<1>13. ASSUME NEW k \in Msgs \ {m} PROVE OneOwner(k)'
  <2>1. Allocated(k)' <=> Allocated(k)
    <3>1. CASE k[1] \in {"save", "remove"}
      BY <3>1 DEF PostLookup, Allocated
    <3>2. CASE k[1] \in {"action", "callback", "reply"} /\ k[2] # j
      BY <1>11, <3>2, MessageShape DEF PostLookup, Allocated
    <3>3. CASE k[1] \in {"callback", "reply"} /\ k[2] = j
      BY <1>1, <1>3, <1>10, <1>11, <3>3 DEF PostLookup, Allocated, NoJob, NoRef
    <3>4. QED
      BY <1>3, <3>1, <3>2, <3>3, MessageShape
  <2>2. Pending(k)' = Pending(k)
    BY <1>1, <1>3, <1>4, MessageShape DEF Pending, NoOp, IInv, Control, TypeOK
  <2>3. Queued(k)' = Queued(k) /\ Taken(k)' = Taken(k)
    BY DEF PostLookup, Queued, Taken
  <2>4. QED
    BY <2>1, <2>2, <2>3, SamePlace DEF PostLookup, IInv, Owned
<1>14. Owned'
  BY <1>12, <1>13 DEF PostLookup, IInv, Owned, Distinct
<1>15. QED
  BY <1>6, <1>7, <1>8, <1>14 DEF IInv, Control

LEMMA CallbackStep ==
    ASSUME IInv, NEW v \in Vms, Callback(v)
    PROVE  IInv'
<1> USE DEF threads, shared, queues, tables
<1>1. CASE \E f \in Faults : Crash(f)
  BY <1>1, CrashStep
<1>2. ASSUME NEW j \in Jobs, v \in Once, pc[v] = "body", job[j] = NoJob,
             job' = [job EXCEPT ![j] = [kind |-> "callback", from |-> v, parent |-> NoRef]],
             Send(parent[v], <<"callback", j>>, freed),
             UNCHANGED <<threads, shared, mode, cur, op, tables, done, fault>>
      PROVE  IInv'
  <2>1. PICK m \in Msgs : m = <<"callback", j>>
    BY MessageShape
  <2>2. PICK r \in Refs : r = parent[v] /\ PointsRight(r)
    BY <1>2 DEF IInv, Control, Started, RefsGood
  <2>3. /\ job'[j].kind = "callback" /\ job'[j].parent = NoRef
        /\ \A i \in Jobs \ {j} : job'[i] = job[i]
    BY <1>2 DEF IInv, Control, TypeOK
  <2>4. ~Allocated(m) /\ Allocated(m)'
    BY <1>2, <2>1, <2>3 DEF Allocated, NoJob
  <2>5. ASSUME NEW k \in Msgs \ {m} PROVE Allocated(k)' <=> Allocated(k)
    <3>1. CASE k[1] \in {"save", "remove"}
      BY <1>2, <3>1 DEF Allocated
    <3>2. CASE k[1] \in {"action", "callback", "reply"} /\ k[2] # j
      BY <1>2, <2>3, <3>2, MessageShape DEF Allocated
    <3>3. CASE k[1] \in {"action", "reply"} /\ k[2] = j
      BY <1>2, <2>3, <3>3 DEF Allocated, NoJob, NoRef
    <3>4. QED
      BY <2>1, <3>1, <3>2, <3>3, MessageShape
  <2>6. Owned' /\ box' \in [Boxes -> Seq(Msgs)] /\ freed' \in [Msgs -> Nat]
    <3>1. Send(r, m, freed) /\ UNCHANGED <<cur, op, done>>
      BY <1>2, <2>1, <2>2
    <3>2. QED
      BY <2>2, <2>4, <2>5, <3>1, PostedAnew
  <2>7. TypeOK'
    <3>1. [kind |-> "callback", from |-> v, parent |-> NoRef] \in
             [kind : {"action", "callback"}, from : Vms, parent : Refs \cup {NoRef}]
      OBVIOUS
    <3>2. job' \in [Jobs -> [kind : {"action", "callback"}, from : Vms,
                             parent : Refs \cup {NoRef}] \cup {NoJob}]
      BY <1>2, <3>1 DEF IInv, Control, TypeOK
    <3>3. QED
      BY <1>2, <2>6, <3>2 DEF IInv, Control, TypeOK
  <2>8. Started' /\ RegistryAlive' /\ ChildrenFit'
    BY <1>2 DEF IInv, Control, Started, RegistryAlive, ChildrenFit
  <2>9. RefsGood'
    BY <1>2, <2>3 DEF IInv, Control, RefsGood, PointsRight, NoRef
  <2>10. QED
    BY <2>6, <2>7, <2>8, <2>9 DEF IInv, Control
<1>3. \/ \E f \in Faults : Crash(f)
      \/ \E j \in Jobs :
           /\ v \in Once /\ pc[v] = "body" /\ job[j] = NoJob
           /\ job' = [job EXCEPT ![j] = [kind |-> "callback", from |-> v, parent |-> NoRef]]
           /\ Send(parent[v], <<"callback", j>>, freed)
           /\ UNCHANGED <<threads, shared, mode, cur, op, tables, done, fault>>
  BY DEF Callback, LooperFault, Faults, MayCall
<1>4. QED
  BY <1>1, <1>2, <1>3

LEMMA PostSendStep ==
    ASSUME IInv, NEW v \in Vms, PostSend(v)
    PROVE  IInv'
<1> USE DEF threads, shared, queues, tables
<1> DEFINE r == [type |-> "global", vm |-> op[v].to]
<1>1. CASE \E f \in Faults : Crash(f)
  BY <1>1, CrashStep
<1>2. CASE /\ op[v] # NoOp /\ Send(r, op[v].msg, freed) /\ op' = [op EXCEPT ![v] = NoOp]
           /\ UNCHANGED <<threads, shared, mode, cur, job, tables, done, fault>>
  <2>1. op[v].to \in Global /\ op[v].msg \in {"action"} \X Jobs
    BY <1>2 DEF IInv, Control, TypeOK
  <2>2. PICK m \in Msgs : m = op[v].msg /\ m[1] = "action"
    BY <2>1, MessageShape DEF Msgs
  <2>3. r \in Refs /\ PointsRight(r)
    BY <2>1 DEF Refs, PointsRight, Vms
  <2>4. /\ Allocated(m) /\ Queued(m) = {} /\ Taken(m) = {} /\ Pending(m) = {v}
        /\ freed[m] = 0 /\ ~Leaked(m)
    <3>1. v \in Pending(m) /\ OneOwner(m)
      BY <2>2 DEF Pending, IInv, Owned
    <3>2. Allocated(m) /\ InPost(m)
      BY <3>1 DEF OneOwner, InQueue, InLoop, InPost, Settled, Nowhere, At
    <3>3. QED
      BY <3>1, <3>2 DEF InPost, At
  <2>5. /\ box' \in [Boxes -> Seq(Msgs)] /\ freed' \in [Msgs -> Nat]
        /\ \A k \in Msgs \ {m} : Queued(k)' = Queued(k) /\ freed'[k] = freed[k]
        /\ \A w \in Boxes : Distinct(box[w])'
        /\ \/ \E w \in Boxes : Queued(m)' = {w} /\ freed'[m] = 0
           \/ Queued(m)' = {} /\ freed'[m] = 1
    <3>1. Send(r, m, freed) /\ freed \in [Msgs -> Nat] /\ TypeOK
      BY <1>2, <2>2 DEF IInv, Control, TypeOK
    <3>2. QED
      BY <2>3, <2>4, <3>1, SendKeeps DEF IInv, Owned
  <2>6. op'[v] = NoOp /\ \A w \in Vms \ {v} : op'[w] = op[w]
    BY <1>2 DEF IInv, Control, TypeOK
  <2>7. Pending(m)' = {} /\ \A k \in Msgs \ {m} : Pending(k)' = Pending(k)
    BY <2>2, <2>4, <2>6, MessageShape DEF Pending, NoOp
  <2>8. \A k \in Msgs : Taken(k)' = Taken(k) /\ (Allocated(k)' <=> Allocated(k))
    BY <1>2 DEF Taken, Allocated
  <2>9. OneOwner(m)'
    <3>1. Taken(m)' = {} /\ Allocated(m)' /\ ~Leaked(m)'
      BY <2>2, <2>4, <2>8 DEF Leaked
    <3>2. QED
      BY <2>5, <2>7, <3>1 DEF OneOwner, InQueue, Settled, At
  <2>10. ASSUME NEW k \in Msgs \ {m} PROVE OneOwner(k)'
    BY <1>2, <2>5, <2>7, <2>8, SamePlace DEF IInv, Owned
  <2>11. \A k \in done' : k[1] \in {"save", "remove", "action"} => freed'[k] = 1
    BY <1>2, <2>2, <2>4, <2>5 DEF IInv, Control, TypeOK, Owned
  <2>12. TypeOK'
    BY <1>2, <2>5 DEF IInv, Control, TypeOK
  <2>13. QED
    BY <1>2, <2>5, <2>9, <2>10, <2>11, <2>12, ControlKept DEF IInv, Owned
<1>3. \/ \E f \in Faults : Crash(f)
      \/ /\ op[v] # NoOp /\ Send(r, op[v].msg, freed) /\ op' = [op EXCEPT ![v] = NoOp]
         /\ UNCHANGED <<threads, shared, mode, cur, job, tables, done, fault>>
  BY DEF PostSend, PointerFault, LooperFault, FreeFault, Faults
<1>4. QED
  BY <1>1, <1>2, <1>3

\* The messages that tell a creator of its child.
LEMMA TellParentStep ==
    ASSUME IInv, NEW o \in Once, NEW kind \in {"save", "remove"},
           NEW next \in {"body", "gone"}, pc[o] \in {"save", "remove"},
           TellParent(o, kind, next), structs' = structs,
           kind = "save" <=> pc[o] = "save", kind = "save" <=> next = "body"
    PROVE  IInv'
<1> USE DEF threads, shared, queues, tables
<1> DEFINE r == parent[o]
<1>1. CASE \E f \in Faults : Crash(f)
  BY <1>1, CrashStep
<1>2. CASE /\ Send(r, <<kind, o>>, freed) /\ pc' = [pc EXCEPT ![o] = next]
           /\ UNCHANGED <<vm, name, parent, registry, javaVms, mode, cur, op, job,
                          tables, done, fault>>
  <2>1. PICK m \in Msgs : m = <<kind, o>>
    BY MessageShape
  <2>2. r \in Refs /\ PointsRight(r)
    BY DEF IInv, Control, Started, RefsGood
  <2>3. o \notin Global /\ pc'[o] = next /\ \A t \in (Global \cup Once) \ {o} : pc'[t] = pc[t]
    BY <1>2 DEF IInv, Control, TypeOK
  <2>4. ~Allocated(m) /\ Allocated(m)'
    BY <2>1, <2>3 DEF Allocated
  <2>5. ASSUME NEW k \in Msgs \ {m} PROVE Allocated(k)' <=> Allocated(k)
    <3>1. CASE k[1] \in {"save", "remove"} /\ k[2] # o
      BY <2>3, <3>1, MessageShape DEF Allocated
    <3>2. CASE k[1] \in {"save", "remove"} /\ k[2] = o
      <4>1. k[1] # kind
        BY <2>1, <3>2, MessageShape
      <4>2. QED
        BY <2>3, <3>2, <4>1 DEF Allocated
    <3>3. CASE k[1] \in {"action", "callback", "reply"}
      BY <1>2, <3>3 DEF Allocated
    <3>4. QED
      BY <3>1, <3>2, <3>3, MessageShape
  <2>6. Owned' /\ box' \in [Boxes -> Seq(Msgs)] /\ freed' \in [Msgs -> Nat]
    <3>1. Send(r, m, freed) /\ UNCHANGED <<cur, op, done>>
      BY <1>2, <2>1
    <3>2. QED
      BY <2>2, <2>4, <2>5, <3>1, PostedAnew
  <2>7. TypeOK'
    BY <1>2, <2>6 DEF IInv, Control, TypeOK
  <2>8. Started' /\ RefsGood' /\ ChildrenFit'
    BY <1>2, <2>3 DEF IInv, Control, Started, RefsGood, PointsRight, ChildrenFit
  <2>9. RegistryAlive'
    BY <1>2, <2>3 DEF IInv, Control, TypeOK, RegistryAlive
  <2>10. QED
    BY <2>6, <2>7, <2>8, <2>9 DEF IInv, Control
<1>3. QED
  BY <1>1, <1>2 DEF TellParent, PointerFault, LooperFault, Faults

LEMMA PostSaveStep ==
    ASSUME IInv, NEW o \in Once, PostSave(o)
    PROVE  IInv'
  BY TellParentStep DEF PostSave

LEMMA PostRemoveStep ==
    ASSUME IInv, NEW o \in Once, PostRemove(o)
    PROVE  IInv'
  BY TellParentStep DEF PostRemove, FreeRef

\* A thread that ends moves nothing.
LEMMA ExitKeeps ==
    ASSUME IInv, NEW g \in Global, pc[g] = "exit",
           NEW x \in {"exit", "gone"}, pc' = [pc EXCEPT ![g] = x],
           fault' \in {fault, "freed_node"},
           UNCHANGED <<vm, name, parent, shared, mode, cur, op, job, tables, done>>
    PROVE  /\ Started' /\ RefsGood' /\ ChildrenFit' /\ RegistryAlive'
           /\ box' \in [Boxes -> Seq(Msgs)] /\ freed' \in [Msgs -> Nat] => TypeOK'
           /\ \A m \in Msgs : Taken(m)' = Taken(m) /\ Pending(m)' = Pending(m)
           /\ \A m \in Msgs : Allocated(m)' <=> Allocated(m)
<1> USE DEF threads, shared, queues, tables
<1>1. g \notin Once /\ pc'[g] = x /\ \A t \in Global \cup Once : t # g => pc'[t] = pc[t]
  BY DEF IInv, Control, TypeOK
<1>2. Started' /\ RefsGood' /\ ChildrenFit'
  BY <1>1 DEF IInv, Control, TypeOK, Started, RefsGood, PointsRight, ChildrenFit
<1>3. RegistryAlive'
  BY <1>1 DEF IInv, Control, TypeOK, RegistryAlive
<1>4. \A m \in Msgs : Taken(m)' = Taken(m) /\ Pending(m)' = Pending(m)
  BY DEF Taken, Pending
<1>5. \A m \in Msgs : Allocated(m)' <=> Allocated(m)
  BY <1>1, MessageShape DEF Allocated
<1>6. box' \in [Boxes -> Seq(Msgs)] /\ freed' \in [Msgs -> Nat] => TypeOK'
  BY <1>1 DEF IInv, Control, TypeOK, Faults
<1>7. QED
  BY <1>2, <1>3, <1>4, <1>5, <1>6

\* The destructor frees the argument of the first message that is left, and no
\* other.
LEMMA FreeLooperStep ==
    ASSUME IInv, NEW g \in Global, FreeLooper(g)
    PROVE  IInv'
<1> USE DEF shared, queues, tables
<1>1. CASE Crash("freed_isolate")
  BY <1>1, CrashStep DEF Faults
<1>2. g \in Boxes /\ box[g] \in Seq(Msgs) /\ Distinct(box[g])
  BY DEF Boxes, IInv, Control, TypeOK, Owned
<1>3. CASE ~Crash("freed_isolate")
  <2>1. /\ pc[g] = "exit" /\ fault' \in {fault, "freed_node"}
        /\ pc' = [pc EXCEPT ![g] = "gone"] \/ pc' = pc
        /\ freed' = Discarded(g)
        /\ box' = [box EXCEPT ![g] = IF @ = <<>> THEN @ ELSE Tail(@)]
        /\ UNCHANGED <<vm, name, parent, shared, mode, cur, op, job, tables, done>>
    BY <1>3 DEF FreeLooper
  <2>2. PICK x \in {"exit", "gone"} : pc' = [pc EXCEPT ![g] = x]
    BY <2>1 DEF IInv, Control, TypeOK
  <2>3. /\ Started' /\ RefsGood' /\ ChildrenFit' /\ RegistryAlive'
        /\ box' \in [Boxes -> Seq(Msgs)] /\ freed' \in [Msgs -> Nat] => TypeOK'
        /\ \A m \in Msgs : Taken(m)' = Taken(m) /\ Pending(m)' = Pending(m)
        /\ \A m \in Msgs : Allocated(m)' <=> Allocated(m)
    BY <2>1, <2>2, ExitKeeps
  <2>4. CASE box[g] = <<>>
    <3>1. UNCHANGED <<freed, box>>
      BY <1>2, <2>1, <2>4 DEF Discarded, IInv, Control, TypeOK
    <3>2. UNCHANGED <<box, cur, op, done, freed>> /\ Owned
      BY <2>1, <3>1 DEF IInv
    <3>3. Owned'
      BY <2>3, <3>2, NothingMoves
    <3>4. QED
      BY <2>3, <3>1, <3>3 DEF IInv, Control, TypeOK
  <2>5. CASE box[g] # <<>>
    <3>0. PICK h \in Msgs : h = Head(box[g])
      BY <1>2, <2>5, TailContains
    <3>1. /\ h \in Msgs /\ Contains(box[g], h) /\ Tail(box[g]) \in Seq(Msgs)
          /\ \A m \in Msgs : Contains(Tail(box[g]), m) <=> Contains(box[g], m) /\ m # h
          /\ Distinct(Tail(box[g]))
      BY <1>2, <2>5, <3>0, TailContains
    <3>2. /\ freed' \in [Msgs -> Nat] /\ box' \in [Boxes -> Seq(Msgs)]
          /\ freed'[h] = freed[h] + 1 /\ \A m \in Msgs \ {h} : freed'[m] = freed[m]
          /\ box'[g] = Tail(box[g]) /\ \A v \in Boxes \ {g} : box'[v] = box[v]
      BY <1>2, <2>1, <2>5, <3>0, <3>1 DEF Discarded, IInv, Control, TypeOK
    <3>3. /\ Queued(h)' = Queued(h) \ {g} /\ g \in Queued(h)
          /\ \A m \in Msgs \ {h} : Queued(m)' = Queued(m)
      BY <1>2, <3>1, <3>2 DEF Queued
    <3>4. /\ Allocated(h) /\ Queued(h) = {g} /\ Taken(h) = {} /\ Pending(h) = {}
          /\ freed[h] = 0
      <4>1. OneOwner(h)
        BY <3>1 DEF IInv, Owned
      <4>2. QED
        BY <3>3, <4>1 DEF OneOwner, InQueue, InLoop, InPost, Settled, Nowhere, At
    <3>5. ASSUME NEW m \in Msgs PROVE OneOwner(m)'
      <4>1. CASE m = h
        <5>1. /\ Allocated(m)' /\ Queued(m)' = {} /\ Taken(m)' = {} /\ Pending(m)' = {}
              /\ freed'[m] = 1
          BY <2>3, <3>1, <3>2, <3>3, <3>4, <4>1
        <5>2. QED
          BY <5>1 DEF OneOwner, Settled, At
      <4>2. CASE m # h
        BY <2>1, <2>3, <3>2, <3>3, <4>2, SamePlace DEF IInv, Owned
      <4>3. QED
        BY <4>1, <4>2
    <3>6. \A m \in done' : m[1] \in {"save", "remove", "action"} => freed'[m] = 1
      <4>1. ASSUME NEW m \in done, m[1] \in {"save", "remove", "action"} PROVE freed'[m] = 1
        <5>1. m \in Msgs /\ freed[m] = 1
          BY <4>1 DEF IInv, Control, TypeOK, Owned
        <5>2. QED
          BY <3>2, <3>4, <5>1
      <4>2. QED
        BY <2>1, <4>1
    <3>7. \A v \in Boxes : Distinct(box[v])'
      <4>1. \A v \in Boxes : Distinct(box'[v])
        BY <3>1, <3>2 DEF IInv, Owned
      <4>2. QED
        BY <4>1 DEF Distinct
    <3>8. QED
      BY <2>3, <3>2, <3>5, <3>6, <3>7 DEF IInv, Control, Owned
  <2>6. QED
    BY <2>4, <2>5
<1>4. QED
  BY <1>1, <1>3

----------------------------------------------------------------------------
\* What executing loops do.

LEMMA TakeStep ==
    ASSUME IInv, NEW v \in Boxes, Take(v)
    PROVE  IInv'
<1> USE DEF threads, shared
<1>1. /\ box[v] \in Seq(Msgs) /\ box[v] # <<>> /\ Distinct(box[v]) /\ cur[v] = NoMsg
      /\ box \in [Boxes -> Seq(Msgs)] /\ cur \in [Boxes -> Msgs \cup {NoMsg}]
  BY DEF Take, IInv, Control, TypeOK, Owned
<1>2. PICK m \in Msgs : m = Head(box[v])
  BY <1>1, TailContains
<1>3. /\ Contains(box[v], m) /\ Tail(box[v]) \in Seq(Msgs) /\ Distinct(Tail(box[v]))
      /\ \A k \in Msgs : Contains(Tail(box[v]), k) <=> Contains(box[v], k) /\ k # m
  BY <1>1, <1>2, TailContains
<1>4. /\ box' \in [Boxes -> Seq(Msgs)] /\ box'[v] = Tail(box[v])
      /\ \A w \in Boxes \ {v} : box'[w] = box[w]
      /\ cur' \in [Boxes -> Msgs \cup {NoMsg}] /\ cur'[v] = m
      /\ \A w \in Boxes \ {v} : cur'[w] = cur[w]
  BY <1>1, <1>2, <1>3 DEF Take
<1>5. /\ Allocated(m) /\ Queued(m) = {v} /\ Taken(m) = {} /\ Pending(m) = {}
      /\ freed[m] = 0 /\ ~Leaked(m)
  <2>1. v \in Queued(m) /\ OneOwner(m)
    BY <1>3 DEF Queued, IInv, Owned
  <2>2. Allocated(m) /\ InQueue(m)
    BY <2>1 DEF OneOwner, InQueue, InLoop, InPost, Settled, Nowhere, At
  <2>3. QED
    BY <2>1, <2>2 DEF InQueue, At
<1>6. Queued(m)' = {} /\ \A k \in Msgs \ {m} : Queued(k)' = Queued(k)
  <2>1. \A w \in Boxes, k \in Msgs :
           Contains(box'[w], k) <=> Contains(box[w], k) /\ ~(w = v /\ k = m)
    BY <1>3, <1>4
  <2>2. \A w \in Boxes : Contains(box[w], m) => w = v
    BY <1>5 DEF Queued
  <2>3. QED
    BY <2>1, <2>2 DEF Queued
<1>7. Taken(m)' = {v} /\ \A k \in Msgs \ {m} : Taken(k)' = Taken(k)
  BY <1>1, <1>4, <1>5, MessageShape DEF Taken
<1>8. \A k \in Msgs : /\ Pending(k)' = Pending(k) /\ (Allocated(k)' <=> Allocated(k))
                      /\ freed'[k] = freed[k] /\ (k \in done' <=> k \in done)
  BY DEF Take, Pending, Allocated
<1>9. OneOwner(m)'
  <2>1. Allocated(m)' /\ Pending(m)' = {} /\ freed'[m] = 0 /\ ~Leaked(m)'
    BY <1>5, <1>8 DEF Leaked
  <2>2. QED
    BY <1>6, <1>7, <2>1 DEF OneOwner, InLoop, At
<1>10. ASSUME NEW k \in Msgs \ {m} PROVE OneOwner(k)'
  BY <1>6, <1>7, <1>8, SamePlace DEF IInv, Owned
<1>11. \A w \in Boxes : Distinct(box[w])'
  <2>1. \A w \in Boxes : Distinct(box'[w])
    BY <1>3, <1>4 DEF IInv, Owned
  <2>2. QED
    BY <2>1 DEF Distinct
<1>12. Owned'
  BY <1>9, <1>10, <1>11 DEF Take, IInv, Owned
<1>13. TypeOK'
  BY <1>4 DEF Take, IInv, Control, TypeOK, tables
<1>14. QED
  BY <1>12, <1>13, ControlKept DEF Take, IInv, tables

\* save_or_remove_in_post
LEMMA RunSaveOrRemoveStep ==
    ASSUME IInv, NEW v \in Boxes, RunSaveOrRemove(v)
    PROVE  IInv'
<1> USE DEF threads, shared
<1>1. PICK m \in Msgs : m = cur[v] /\ m[1] \in {"save", "remove"} /\ m[2] \in Once
  BY MessageShape DEF RunSaveOrRemove, IInv, Control, TypeOK, NoMsg
<1>2. /\ Allocated(m) /\ Queued(m) = {} /\ Taken(m) = {v} /\ Pending(m) = {}
      /\ freed[m] = 0 /\ m \notin done
  BY <1>1, InHand
<1>3. /\ cur' \in [Boxes -> Msgs \cup {NoMsg}] /\ done' = done \cup {m}
      /\ Taken(m)' = {} /\ \A k \in Msgs \ {m} : Taken(k)' = Taken(k)
  BY <1>1, PutDown DEF RunSaveOrRemove
<1>4. /\ freed' \in [Msgs -> Nat] /\ freed'[m] = 1
      /\ \A k \in Msgs \ {m} : freed'[k] = freed[k]
  BY <1>1, <1>2 DEF RunSaveOrRemove, IInv, Control, TypeOK
<1>5. name[m[2]] \in Names
  BY <1>1, <1>2 DEF Allocated, IInv, Control, Started
<1>6. children' \in [Boxes -> [names : SUBSET Names, num : Nat]] /\ ChildrenFit'
  <2> DEFINE n == name[m[2]]
  <2>1. PICK c \in [names : SUBSET Names, num : Nat] : c = children[v]
    BY DEF IInv, Control, TypeOK
  <2>2. /\ IsFiniteSet(c.names) /\ Cardinality(c.names) <= c.num
        /\ c.num \in Nat /\ c.names \in SUBSET Names /\ Cardinality(c.names) \in Nat
    BY <2>1, FS_CardinalityType DEF IInv, Control, ChildrenFit
  <2>3. PICK d \in {c, SaveChild(c, n), RemoveChild(c, n)} :
           children' = [children EXCEPT ![v] = d]
    <3>1. CASE vm[v] # "open"
      <4>1. children' = children
        BY <3>1 DEF RunSaveOrRemove
      <4>2. children = [children EXCEPT ![v] = c]
        BY <2>1 DEF IInv, Control, TypeOK
      <4>3. QED
        BY <4>1, <4>2
    <3>2. CASE vm[v] = "open" /\ m[1] = "save"
      <4>1. children' = [children EXCEPT ![v] = SaveChild(c, n)]
        BY <1>1, <2>1, <3>2 DEF RunSaveOrRemove
      <4>2. QED
        BY <4>1
    <3>3. CASE vm[v] = "open" /\ m[1] = "remove"
      <4>1. children' = [children EXCEPT ![v] = RemoveChild(c, n)]
        BY <1>1, <2>1, <3>3 DEF RunSaveOrRemove
      <4>2. QED
        BY <4>1
    <3>4. QED
      BY <1>1, <3>1, <3>2, <3>3
  <2>4. PICK x \in Names : x = n
    BY <1>5
  <2> HIDE DEF n
  <2>5. /\ d \in [names : SUBSET Names, num : Nat]
        /\ IsFiniteSet(d.names) /\ Cardinality(d.names) <= d.num
    <3>1. CASE d = c
      BY <2>2, <3>1
    <3>2. CASE d = SaveChild(c, x)
      <4>1. d.names = c.names \cup {x} /\ d.num = c.num + 1
            /\ d = [names |-> c.names \cup {x}, num |-> c.num + 1]
        BY <3>2 DEF SaveChild
      <4>2. IsFiniteSet(d.names) /\ Cardinality(d.names) <= c.num + 1
        <5>1. /\ IsFiniteSet(c.names \cup {x})
              /\ \/ Cardinality(c.names \cup {x}) = Cardinality(c.names)
                 \/ Cardinality(c.names \cup {x}) = Cardinality(c.names) + 1
          BY <2>2, FS_AddElement
        <5>2. QED
          BY <2>2, <4>1, <5>1
      <4>3. QED
        BY <2>2, <2>4, <4>1, <4>2
    <3>3. CASE d = RemoveChild(c, x) /\ x \in c.names
      <4>1. d.names = c.names \ {x} /\ d.num = c.num - 1
            /\ d = [names |-> c.names \ {x}, num |-> c.num - 1]
        BY <3>3 DEF RemoveChild
      <4>2. /\ IsFiniteSet(d.names) /\ Cardinality(d.names) = Cardinality(c.names) - 1
            /\ Cardinality(d.names) \in Nat
        BY <2>2, <3>3, <4>1, FS_RemoveElement, FS_CardinalityType
      <4>3. QED
        BY <2>2, <2>4, <4>1, <4>2
    <3>4. CASE d = RemoveChild(c, x) /\ x \notin c.names
      BY <2>2, <3>4 DEF RemoveChild
    <3>5. QED
      BY <2>3, <2>4, <3>1, <3>2, <3>3, <3>4
  <2>6. QED
    BY <2>3, <2>5 DEF IInv, Control, TypeOK, ChildrenFit
<1>7. TypeOK'
  BY <1>1, <1>3, <1>4, <1>6 DEF RunSaveOrRemove, IInv, Control, TypeOK
<1>8. Started' /\ RefsGood' /\ RegistryAlive'
  BY DEF RunSaveOrRemove, IInv, Control, Started, RefsGood, PointsRight, RegistryAlive
<1>9. \A k \in Msgs : /\ Queued(k)' = Queued(k) /\ Pending(k)' = Pending(k)
                      /\ (Allocated(k)' <=> Allocated(k))
  BY <1>1, <1>3 DEF RunSaveOrRemove, Queued, Pending, Allocated
<1>10. OneOwner(m)'
  BY <1>2, <1>3, <1>4, <1>9 DEF OneOwner, Settled, At
<1>11. ASSUME NEW k \in Msgs \ {m} PROVE OneOwner(k)'
  BY <1>3, <1>4, <1>9, SamePlace DEF IInv, Owned
<1>12. Owned'
  <2>1. \A k \in done' : k[1] \in {"save", "remove", "action"} => freed'[k] = 1
    BY <1>3, <1>4 DEF IInv, Control, TypeOK, Owned
  <2>2. QED
    BY <1>10, <1>11, <2>1 DEF RunSaveOrRemove, IInv, Owned, Distinct
<1>13. QED
  BY <1>6, <1>7, <1>8, <1>12 DEF IInv, Control

\* call_callback: freed after the call, or leaked when nobody registered.
LEMMA RunCallbackStep ==
    ASSUME IInv, NEW v \in Boxes, RunCallback(v)
    PROVE  IInv'
<1> USE DEF threads, shared, tables
<1>1. CASE Crash("null_vm")
  BY <1>1, CrashStep DEF Faults
<1>2. CASE ~Crash("null_vm")
  <2>1. PICK m \in Msgs : m = cur[v] /\ m[1] \in {"callback", "reply"}
    BY MessageShape DEF RunCallback, IInv, Control, TypeOK, NoMsg
  <2>2. /\ Finish(v) /\ UNCHANGED <<threads, shared, mode, box, op, job, tables, fault>>
        /\ freed' = [freed EXCEPT ![m] = @ + IF v \in registered THEN 1 ELSE 0]
    BY <1>2, <2>1 DEF RunCallback
  <2>3. /\ Allocated(m) /\ Queued(m) = {} /\ Taken(m) = {v} /\ Pending(m) = {}
        /\ freed[m] = 0 /\ m \notin done
    BY <2>1, InHand
  <2>4. /\ cur' \in [Boxes -> Msgs \cup {NoMsg}] /\ done' = done \cup {m}
        /\ Taken(m)' = {} /\ \A k \in Msgs \ {m} : Taken(k)' = Taken(k)
    BY <2>1, <2>2, PutDown
  <2>5. /\ freed' \in [Msgs -> Nat] /\ freed'[m] \in {0, 1}
        /\ \A k \in Msgs \ {m} : freed'[k] = freed[k]
    BY <2>2, <2>3 DEF IInv, Control, TypeOK
  <2>6. \A k \in Msgs : /\ Queued(k)' = Queued(k) /\ Pending(k)' = Pending(k)
                        /\ (Allocated(k)' <=> Allocated(k))
    BY <2>1, <2>2, <2>4 DEF Queued, Pending, Allocated
  <2>7. OneOwner(m)'
    <3>1. freed'[m] = 0 => Leaked(m)'
      BY <2>1, <2>4 DEF Leaked
    <3>2. QED
      BY <2>3, <2>4, <2>5, <2>6, <3>1 DEF OneOwner, Settled, At
  <2>8. ASSUME NEW k \in Msgs \ {m} PROVE OneOwner(k)'
    BY <2>4, <2>5, <2>6, SamePlace DEF IInv, Owned
  <2>9. Owned'
    <3>1. \A k \in done' : k[1] \in {"save", "remove", "action"} => freed'[k] = 1
      BY <2>1, <2>4, <2>5 DEF IInv, Control, TypeOK, Owned
    <3>2. QED
      BY <2>2, <2>7, <2>8, <3>1 DEF IInv, Owned, Distinct
  <2>10. TypeOK'
    BY <2>1, <2>2, <2>4, <2>5 DEF IInv, Control, TypeOK
  <2>11. QED
    BY <2>2, <2>9, <2>10, ControlKept DEF IInv
<1>3. QED
  BY <1>1, <1>2

\* call_post_action: the results are the argument of a reply.
LEMMA RunActionStep ==
    ASSUME IInv, NEW g \in Global, RunAction(g)
    PROVE  IInv'
<1> USE DEF threads, shared, tables
<1> DEFINE r == job[cur[g][2]].parent
<1>1. CASE \E f \in Faults : Crash(f)
  BY <1>1, CrashStep
<1>2. ASSUME Finish(g), UNCHANGED <<threads, shared, mode, op, job, tables, fault>>,
             NEW m \in Msgs, m = cur[g], m[1] = "action", m[2] \in Jobs,
             NEW f \in [Msgs -> Nat], f = [freed EXCEPT ![m] = @ + 1],
             \/ WantsReply(r) /\ Send(r, <<"reply", m[2]>>, f)
             \/ ~WantsReply(r) /\ freed' = f /\ UNCHANGED box
      PROVE  IInv'
  <2>1. g \in Boxes
    BY DEF Boxes
  <2>2. /\ Allocated(m) /\ Queued(m) = {} /\ Taken(m) = {g} /\ Pending(m) = {}
        /\ freed[m] = 0 /\ m \notin done
    BY <1>2, <2>1, InHand
  <2>3. /\ cur' \in [Boxes -> Msgs \cup {NoMsg}] /\ done' = done \cup {m}
        /\ Taken(m)' = {} /\ \A k \in Msgs \ {m} : Taken(k)' = Taken(k)
    BY <1>2, <2>1, PutDown
  <2>4. f[m] = 1 /\ \A k \in Msgs \ {m} : f[k] = freed[k]
    BY <1>2, <2>2 DEF IInv, Control, TypeOK
  <2>5. \A k \in Msgs : Pending(k)' = Pending(k)
    BY <1>2 DEF Pending
  <2>6. PICK y \in Msgs : y = <<"reply", m[2]>> /\ y # m
    BY <1>2, MessageShape
  <2>7. m = <<"action", m[2]>>
    BY <1>2, MessageShape
  <2>8. ~Allocated(y)
    BY <2>2, <2>6, <2>7 DEF Allocated
  <2>9. /\ Queued(y) = {} /\ Taken(y) = {} /\ Pending(y) = {} /\ freed[y] = 0
        /\ ~Leaked(y) /\ y \notin done
    <3>1. Nowhere(y)
      BY <2>8 DEF IInv, Owned, OneOwner
    <3>2. QED
      BY <2>6, <3>1 DEF Nowhere, At, Leaked
  <2>10. ASSUME NEW k \in Msgs \ {y} PROVE Allocated(k)' <=> Allocated(k)
    <3>1. CASE k[1] # "reply"
      BY <1>2, <3>1, MessageShape DEF Allocated
    <3>2. CASE k[1] = "reply" /\ k[2] # m[2]
      BY <1>2, <2>3, <2>7, <3>2, MessageShape DEF Allocated
    <3>3. QED
      BY <2>6, <3>1, <3>2, MessageShape
  <2>11. Allocated(y)' <=> WantsReply(r)
    <3>1. <<"action", m[2]>> \in done'
      BY <2>3, <2>7
    <3>2. job' = job /\ r = job[m[2]].parent
      BY <1>2
    <3>3. QED
      BY <2>6, <3>1, <3>2 DEF Allocated, WantsReply
  <2>12. /\ box' \in [Boxes -> Seq(Msgs)] /\ freed' \in [Msgs -> Nat]
         /\ \A k \in Msgs \ {y} : Queued(k)' = Queued(k) /\ freed'[k] = f[k]
         /\ \A v \in Boxes : Distinct(box[v])'
         /\ IF WantsReply(r)
              THEN \/ \E v \in Boxes : Queued(y)' = {v} /\ freed'[y] = 0
                   \/ Queued(y)' = {} /\ freed'[y] = 1
              ELSE Queued(y)' = {} /\ freed'[y] = 0
    <3>1. CASE WantsReply(r)
      <4>1. r \in Refs /\ PointsRight(r)
        <5>1. r = job[m[2]].parent /\ PointsRight(job[m[2]].parent)
          BY <1>2 DEF IInv, Control, RefsGood
        <5>2. job[m[2]] \in [kind : {"action", "callback"}, from : Vms,
                             parent : Refs \cup {NoRef}] \cup {NoJob}
          BY <1>2 DEF IInv, Control, TypeOK
        <5>3. job[m[2]].parent \in Refs \cup {NoRef}
          BY <5>2 DEF NoJob
        <5>4. QED
          BY <3>1, <5>1, <5>3 DEF WantsReply, NoRef
      <4>2. Send(r, y, f) /\ f[y] = 0 /\ TypeOK /\ \A v \in Boxes : Distinct(box[v])
        BY <1>2, <2>4, <2>6, <2>9, <3>1 DEF IInv, Control, Owned
      <4>3. QED
        BY <2>9, <3>1, <4>1, <4>2, SendKeeps
    <3>2. CASE ~WantsReply(r)
      <4>1. freed' = f /\ box' = box
        BY <1>2, <3>2
      <4>2. \A k \in Msgs : Queued(k)' = Queued(k)
        BY <4>1 DEF Queued
      <4>3. box' \in [Boxes -> Seq(Msgs)] /\ \A v \in Boxes : Distinct(box[v])'
        BY <4>1 DEF IInv, Control, TypeOK, Owned, Distinct
      <4>4. QED
        BY <2>4, <2>6, <2>9, <3>2, <4>1, <4>2, <4>3
    <3>3. QED
      BY <3>1, <3>2
  <2>13. OneOwner(m)'
    <3>1. Allocated(m)' /\ Queued(m)' = {} /\ Taken(m)' = {} /\ Pending(m)' = {} /\ freed'[m] = 1
      BY <2>2, <2>3, <2>4, <2>5, <2>6, <2>10, <2>12
    <3>2. QED
      BY <3>1 DEF OneOwner, Settled, At
  <2>14. OneOwner(y)'
    <3>1. Taken(y)' = {} /\ Pending(y)' = {} /\ ~Leaked(y)'
      BY <2>3, <2>5, <2>6, <2>9 DEF Leaked
    <3>2. QED
      BY <2>11, <2>12, <3>1 DEF OneOwner, InQueue, Settled, Nowhere, At
  <2>15. ASSUME NEW k \in Msgs \ {m, y} PROVE OneOwner(k)'
    BY <2>3, <2>4, <2>5, <2>10, <2>12, SamePlace DEF IInv, Owned
  <2>16. \A k \in done' : k[1] \in {"save", "remove", "action"} => freed'[k] = 1
    BY <2>3, <2>4, <2>6, <2>12 DEF IInv, Control, TypeOK, Owned
  <2>17. TypeOK'
    BY <1>2, <2>3, <2>12 DEF IInv, Control, TypeOK
  <2>18. Owned'
    BY <2>12, <2>13, <2>14, <2>15, <2>16 DEF Owned
  <2>19. QED
    BY <1>2, <2>17, <2>18, ControlKept DEF IInv
<1>3. \/ \E f \in Faults : Crash(f)
      \/ /\ cur[g][1] = "action" /\ Finish(g)
         /\ UNCHANGED <<threads, shared, mode, op, job, tables, fault>>
         /\ LET f == [freed EXCEPT ![cur[g]] = @ + 1] IN
              \/ WantsReply(r) /\ Send(r, <<"reply", cur[g][2]>>, f)
              \/ ~WantsReply(r) /\ freed' = f /\ UNCHANGED box
  BY DEF RunAction, PointerFault, LooperFault, Faults
<1>4. CASE cur[g][1] = "action"
  <2>1. PICK m \in Msgs : m = cur[g] /\ m[2] \in Jobs
    BY <1>4, MessageShape DEF Boxes, IInv, Control, TypeOK, NoMsg
  <2>2. PICK f \in [Msgs -> Nat] : f = [freed EXCEPT ![m] = @ + 1]
    <3>1. freed \in [Msgs -> Nat]
      BY DEF IInv, Control, TypeOK
    <3>2. [freed EXCEPT ![m] = @ + 1] \in [Msgs -> Nat]
      BY <3>1
    <3>3. QED
      BY <3>2
  <2>3. QED
    BY <1>1, <1>2, <1>3, <1>4, <2>1, <2>2
<1>5. QED
  BY <1>1, <1>3, <1>4

----------------------------------------------------------------------------
\* The theorems.

LEMMA InvariantStep == IInv /\ [Next]_vars => IInv'
<1> SUFFICES ASSUME IInv, [Next]_vars PROVE IInv'
  OBVIOUS
<1>1. CASE UNCHANGED vars
  <2>1. TypeOK'
    BY <1>1 DEF vars, threads, shared, queues, tables, IInv, Control, TypeOK
  <2>2. \A m \in Msgs : Allocated(m)' <=> Allocated(m)
    BY <1>1 DEF vars, threads, Allocated
  <2>3. QED
    BY <1>1, <2>1, <2>2, ControlKept, NothingMoves DEF vars, threads, shared, queues, tables, IInv
<1>2. ASSUME NEW v \in Vms, Script(v) \/ PostSend(v) PROVE IInv'
  BY <1>2, CreateStep, OpenGlobalStep, CloseSelfStep, RegisterStep, PostLookupStep,
     CallbackStep, PostSendStep DEF Script
<1>3. CASE DestroyMain
  BY <1>3, DestroyMainStep
<1>4. ASSUME NEW t \in Global \cup Once, Thread(t) PROVE IInv'
  BY <1>4, StartOnceStep, PostSaveStep, EndOnceStep, PostRemoveStep, StartGlobalStep,
     SaveGlobalStep, LeaveLoopStep, RemoveGlobalStep, CloseGlobalStep, FreeLooperStep DEF Thread
<1>5. ASSUME NEW v \in Boxes, Execute(v) PROVE IInv'
  BY <1>5, TakeStep, RunSaveOrRemoveStep, RunCallbackStep, RunActionStep DEF Execute
<1>6. QED
  BY <1>1, <1>2, <1>3, <1>4, <1>5 DEF Next

\* The invariant holds in every reachable state.
THEOREM Invariance == Spec => []IInv
<1>1. QED
  BY InvariantInit, InvariantStep, PTL DEF Spec

\* Types are right; the count of children (isolate.c, __children_L) never gets
\* below zero.
THEOREM TypeCorrect == Spec => []TypeOK
<1>1. IInv => TypeOK
  BY DEF IInv, Control
<1>2. QED
  BY <1>1, Invariance, PTL

\* A name in the map of global isolates is one of an isolate that runs its loop
\* or returned from it a moment ago (save_global_isolate, in_thread,
\* remove_global_isolate).
THEOREM NamesAlive == Spec => []RegistryAlive
<1>1. IInv => RegistryAlive
  BY DEF IInv, Control
<1>2. QED
  BY <1>1, Invariance, PTL

\* A copied argument has one owner, whatever scripts call and whichever pointer
\* has gone bad before (free_thread_arg, post_and_deal_with_error).
THEOREM OwnedOnce == Spec => []ArgsOwnedOnce
<1>1. ASSUME IInv, NEW m \in Msgs PROVE Owners(m) = IF Allocated(m) THEN 1 ELSE 0
  <2>1. Cardinality({}) = 0 /\ \A v : Cardinality({v}) = 1
    BY FS_EmptySet, FS_Singleton
  <2>2. OneOwner(m)
    BY <1>1 DEF IInv, Owned
  <2>3. CASE ~Allocated(m)
    <3>1. /\ Queued(m) = {} /\ Taken(m) = {} /\ Pending(m) = {} /\ freed[m] = 0 /\ ~Leaked(m)
      BY <2>2, <2>3 DEF OneOwner, Nowhere, At
    <3>2. QED
      BY <2>1, <2>3, <3>1 DEF Owners
  <2>4. CASE Allocated(m)
    <3>1. CASE InQueue(m)
      <4>1. PICK v \in Boxes : At(m, {v}, {}, {}, 0) /\ ~Leaked(m)
        BY <3>1 DEF InQueue
      <4>2. /\ Cardinality(Queued(m)) = 1 /\ Cardinality(Taken(m)) = 0
            /\ Cardinality(Pending(m)) = 0 /\ freed[m] = 0
        BY <2>1, <4>1 DEF At
      <4>3. QED
        BY <2>4, <4>1, <4>2 DEF Owners
    <3>2. CASE InLoop(m)
      <4>1. PICK v \in Boxes : At(m, {}, {v}, {}, 0) /\ ~Leaked(m)
        BY <3>2 DEF InLoop
      <4>2. /\ Cardinality(Queued(m)) = 0 /\ Cardinality(Taken(m)) = 1
            /\ Cardinality(Pending(m)) = 0 /\ freed[m] = 0
        BY <2>1, <4>1 DEF At
      <4>3. QED
        BY <2>4, <4>1, <4>2 DEF Owners
    <3>3. CASE InPost(m)
      BY <2>1, <2>4, <3>3 DEF Owners, InPost, At
    <3>4. CASE Settled(m)
      BY <2>1, <2>4, <3>4 DEF Owners, Settled, At, Leaked
    <3>5. QED
      BY <2>2, <2>4, <3>1, <3>2, <3>3, <3>4 DEF OneOwner
  <2>5. QED
    BY <2>3, <2>4
<1>2. IInv => ArgsOwnedOnce
  BY <1>1 DEF ArgsOwnedOnce
<1>3. QED
  BY <1>2, Invariance, PTL
=============================================================================
