-------------------------- MODULE IsolateOrderProofs --------------------------
(***************************************************************************)
(* Theorems about isolates that need to know where each thread is: what    *)
(* goes wrong has a cause, a creator hears of its children in order, and   *)
(* it counts them right.                                                   *)
(***************************************************************************)
EXTENDS IsolateProofs

USE IsolateConstants

\* How far a global isolate is, by its thread, its VM and its loop.
Phase(g) ==
    /\ pc[g] \in {"none", "start", "unnamed", "loop", "ended", "close", "exit", "gone"}
    /\ mode[g] = "none" <=> pc[g] \in {"none", "start", "unnamed"}
    /\ pc[g] = "loop" => vm[g] = "open" /\ mode[g] # "closed"
    /\ pc[g] \in {"ended", "close", "exit", "gone"} => mode[g] = "closed"
    /\ vm[g] = "none" <=> pc[g] \in {"none", "start"}
    /\ pc[g] \notin {"none", "start"} <=> g \in ToSet(javaVms)
    /\ cur[g] # NoMsg => pc[g] = "loop"

Phases ==
    /\ \A g \in Global : Phase(g)
    /\ vm[Main] # "none"
    /\ \A v \in Boxes : vm[v] = "none" => children[v].names = {} /\ children[v].num = 0

\* A pointer of the map is of an isolate whose loop began.
Resolved(r) == r.type = "global" => mode[r.vm] # "none"

\* An isolate of the same name left its loop and removed the name.
NamesakeLeft(g) == \E h \in Global : name[g] = name[h] /\ pc[h] \in {"close", "exit", "gone"}

Known ==
    /\ \A o \in Once : Resolved(parent[o]) /\ (pc[o] # "none" => vm[parent[o].vm] # "none")
    /\ \A j \in Jobs : Resolved(job[j].parent)
    /\ \A v \in Vms : op[v] # NoOp => mode[op[v].to] # "none"
    /\ \A g \in FreedStructs : NamesakeLeft(g)

PhaseInv == IInv /\ Phases /\ Known /\ FaultCauses

LEMMA JoinedSet ==
    ASSUME NEW a \in Seq(Global), NEW b \in Seq(Global)
    PROVE  ToSet(a \o b) = ToSet(a) \cup ToSet(b)
<1>1. Range(a \o b) = Range(a) \cup Range(b)
  BY RangeConcatenation
<1>2. QED
  BY <1>1 DEF ToSet, Range

LEMMA InsertedSet ==
    ASSUME NEW s \in Seq(Global), NEW g \in Global, NEW i \in 1..Len(s) + 1
    PROVE  ToSet(InsertAt(s, i, g)) = ToSet(s) \cup {g}
<1> DEFINE a == SubSeq(s, 1, i - 1)
           b == SubSeq(s, i, Len(s))
<1>1. Len(s) \in Nat /\ i \in Nat
  BY LenProperties
<1>2. a \in Seq(Global) /\ b \in Seq(Global) /\ <<g>> \in Seq(Global)
  OBVIOUS
<1>3. ToSet(a) \cup ToSet(b) = ToSet(s)
  <2>1. a \o b = s
    <3>1. Len(a) = i - 1 /\ \A k \in 1..i - 1 : a[k] = s[k]
      <4>1. 1 \in 1..Len(s) + 1 /\ i - 1 \in 1 - 1 .. Len(s)
        BY <1>1
      <4>2. \A k \in 1..i - 1 : s[k] \in Global
        BY <1>1
      <4>3. /\ Len(a) = i - 1 - 1 + 1
            /\ \A k \in 1..i - 1 - 1 + 1 : a[k] = s[1 + k - 1]
        BY <1>1, <4>1, <4>2, SubSeqProperties
      <4>4. QED
        BY <1>1, <4>3
    <3>2. Len(b) = Len(s) - i + 1 /\ \A k \in 1..Len(s) - i + 1 : b[k] = s[i + k - 1]
      <4>1. i \in 1..Len(s) + 1 /\ Len(s) \in i - 1 .. Len(s)
        BY <1>1
      <4>2. \A k \in i..Len(s) : s[k] \in Global
        BY <1>1
      <4>3. QED
        BY <1>1, <4>1, <4>2, SubSeqProperties
    <3> HIDE DEF a, b
    <3>3. /\ a \o b \in Seq(Global) /\ Len(a \o b) = Len(a) + Len(b)
          /\ \A k \in 1..Len(a) + Len(b) : (a \o b)[k] = IF k <= Len(a) THEN a[k] ELSE b[k - Len(a)]
      BY <1>2, ConcatProperties
    <3>4. Len(a \o b) = Len(s)
      BY <1>1, <3>1, <3>2, <3>3
    <3>5. \A k \in 1..Len(s) : (a \o b)[k] = s[k]
      <4> TAKE k \in 1..Len(s)
      <4>1. CASE k <= i - 1
        BY <1>1, <3>1, <3>2, <3>3, <4>1
      <4>2. CASE k > i - 1
        <5>1. (a \o b)[k] = b[k - Len(a)] /\ k - Len(a) \in 1..Len(s) - i + 1
          BY <1>1, <3>1, <3>2, <3>3, <4>2
        <5>2. i + (k - Len(a)) - 1 = k
          BY <1>1, <3>1
        <5>3. QED
          BY <3>2, <5>1, <5>2
      <4>3. k \in Nat /\ (k <= i - 1 \/ k > i - 1)
        BY <1>1
      <4>4. QED
        BY <4>1, <4>2, <4>3
    <3>6. QED
      BY <3>3, <3>4, <3>5, SeqEqual
  <2> HIDE DEF a, b
  <2>2. QED
    BY <1>2, <2>1, JoinedSet
<1> HIDE DEF a, b
<1>4. /\ a \o <<g>> \in Seq(Global) /\ (a \o <<g>>) \o b = InsertAt(s, i, g)
      /\ ToSet(a \o <<g>>) = ToSet(a) \cup ToSet(<<g>>)
      /\ ToSet((a \o <<g>>) \o b) = ToSet(a \o <<g>>) \cup ToSet(b)
  <2>1. a \o <<g>> \in Seq(Global)
    BY <1>2
  <2>2. (a \o <<g>>) \o b = InsertAt(s, i, g)
    BY DEF InsertAt, a, b
  <2>3. ToSet(a \o <<g>>) = ToSet(a) \cup ToSet(<<g>>)
    BY <1>2, JoinedSet
  <2>4. ToSet((a \o <<g>>) \o b) = ToSet(a \o <<g>>) \cup ToSet(b)
    BY <1>2, <2>1, JoinedSet
  <2>5. QED
    BY <2>1, <2>2, <2>3, <2>4
<1>5. ToSet(<<g>>) = {g}
  BY DEF ToSet
<1>6. QED
  BY <1>3, <1>4, <1>5

\* A step that leaves the threads and the loops where they are.
LEMMA PhasesStay ==
    ASSUME Phases, UNCHANGED <<vm, pc, mode, javaVms, children>>,
           \A g \in Global : cur'[g] # NoMsg => pc[g] = "loop"
    PROVE  Phases'
BY DEF Phases, Phase

LEMMA PhasesCreate ==
    ASSUME IInv, Phases, NEW v \in Vms, Create(v) \/ OpenGlobal(v) \/ CloseSelf(v)
    PROVE  Phases'
<1> USE DEF threads, shared, queues, tables, IInv, Control, TypeOK
<1>1. CASE Create(v)
  <2>1. PICK o \in Once : pc' = [pc EXCEPT ![o] = "start"]
    BY <1>1 DEF Create
  <2>2. \A g \in Global : pc'[g] = pc[g]
    BY <2>1
  <2>3. UNCHANGED <<vm, mode, javaVms, children, cur>>
    BY <1>1 DEF Create
  <2>4. QED
    BY <2>2, <2>3 DEF Phases, Phase
<1>2. CASE OpenGlobal(v)
  <2>1. PICK g \in Global : pc[g] = "none" /\ pc' = [pc EXCEPT ![g] = "start"]
    BY <1>2 DEF OpenGlobal
  <2>2. UNCHANGED <<vm, mode, javaVms, children, cur>>
    BY <1>2 DEF OpenGlobal
  <2>3. QED
    BY <2>1, <2>2 DEF Phases, Phase
<1>3. CASE CloseSelf(v)
  <2>1. PICK m \in {"draining", "closing"} : mode' = [mode EXCEPT ![v] = m]
    BY <1>3 DEF CloseSelf
  <2>2. v \in Global /\ mode[v] = "open" /\ UNCHANGED <<vm, pc, javaVms, children, cur>>
    BY <1>3 DEF CloseSelf
  <2>3. QED
    BY <2>1, <2>2 DEF Phases, Phase
<1>4. QED
  BY <1>1, <1>2, <1>3

LEMMA PhasesThread ==
    ASSUME IInv, Phases, NEW t \in Global \cup Once, Thread(t), fault' = "none"
    PROVE  Phases'
<1> USE DEF threads, shared, queues, tables, IInv, Control, TypeOK
<1>1. CASE t \in Once /\ (StartOnce(t) \/ PostSave(t) \/ EndOnce(t) \/ PostRemove(t))
  <2>1. /\ \A g \in Global : pc'[g] = pc[g]
        /\ \A v \in Boxes : vm'[v] = vm[v]
        /\ UNCHANGED <<mode, javaVms, children, cur>>
    <3>1. t \notin Global /\ t \notin Boxes
      BY <1>1 DEF Boxes
    <3>2. CASE StartOnce(t)
      <4>1. vm' = [vm EXCEPT ![t] = "open"] /\ pc' = [pc EXCEPT ![t] = "save"]
            /\ UNCHANGED <<mode, javaVms, children, cur>>
        BY <3>2 DEF StartOnce, Crash
      <4>2. QED
        BY <3>1, <4>1 DEF Boxes, Vms
    <3>3. CASE EndOnce(t)
      BY <3>1, <3>3 DEF EndOnce, Boxes, Vms
    <3>4. CASE PostSave(t) \/ PostRemove(t)
      <4>1. \E next \in {"body", "gone"} : pc' = [pc EXCEPT ![t] = next]
        BY <3>4 DEF PostSave, PostRemove, TellParent, Crash
      <4>2. UNCHANGED <<vm, mode, javaVms, children, cur>>
        BY <3>4 DEF PostSave, PostRemove, TellParent, Crash
      <4>3. QED
        BY <3>1, <4>1, <4>2
    <3>5. QED
      BY <1>1, <3>2, <3>3, <3>4
  <2>2. Global \subseteq Boxes /\ Main \in Boxes
    BY DEF Boxes
  <2>3. QED
    BY <2>1, <2>2 DEF Phases, Phase
<1>2. ASSUME t \in Global, StartGlobal(t) PROVE Phases'
  <2>1. PICK i \in 1..Len(javaVms) + 1 : javaVms' = InsertAt(javaVms, i, t)
    BY <1>2 DEF StartGlobal
  <2>2. ToSet(javaVms') = ToSet(javaVms) \cup {t}
    BY <1>2, <2>1, InsertedSet
  <2>3. /\ pc[t] = "start" /\ vm' = [vm EXCEPT ![t] = "open"] /\ pc' = [pc EXCEPT ![t] = "unnamed"]
        /\ UNCHANGED <<mode, children, cur>> /\ t \in Vms
    BY <1>2 DEF StartGlobal, Vms
  <2>4. \A v \in Boxes : vm'[v] = "none" => vm[v] = "none"
    BY <2>3 DEF Boxes
  <2>5. QED
    BY <1>2, <2>2, <2>3, <2>4 DEF Phases, Phase, Vms
<1>3. ASSUME t \in Global, SaveGlobal(t) PROVE Phases'
  <2>1. vm[t] = "open"
    BY <1>3 DEF SaveGlobal, Started
  <2>2. QED
    BY <1>3, <2>1 DEF SaveGlobal, Phases, Phase
<1>4. ASSUME t \in Global, LeaveLoop(t) \/ RemoveGlobal(t) PROVE Phases'
  BY <1>4 DEF LeaveLoop, RemoveGlobal, Phases, Phase
<1>5. ASSUME t \in Global, CloseGlobal(t) PROVE Phases'
  <2>1. /\ pc[t] = "close" /\ vm' = [vm EXCEPT ![t] = "closed"] /\ pc' = [pc EXCEPT ![t] = "exit"]
        /\ UNCHANGED <<mode, javaVms, children, cur>> /\ t \in Vms
    BY <1>5 DEF CloseGlobal, Crash, Vms
  <2>2. QED
    BY <1>5, <2>1 DEF Phases, Phase, Vms, Boxes
<1>6. ASSUME t \in Global, FreeLooper(t) PROVE Phases'
  <2>1. /\ pc[t] = "exit" /\ pc' = [pc EXCEPT ![t] = "gone"]
        /\ UNCHANGED <<vm, mode, javaVms, children, cur>>
    BY <1>6 DEF FreeLooper, Crash
  <2>2. QED
    BY <1>6, <2>1 DEF Phases, Phase
<1>7. QED
  BY <1>1, <1>2, <1>3, <1>4, <1>5, <1>6 DEF Thread

LEMMA PhasesExecute ==
    ASSUME IInv, IInv', Phases, NEW v \in Boxes, Execute(v)
    PROVE  Phases'
<1> USE DEF threads, shared, queues, tables
<1>1. CASE Take(v)
  <2>1. cur \in [Boxes -> Msgs \cup {NoMsg}] /\ Global \subseteq Boxes
    BY DEF IInv, Control, TypeOK, Boxes
  <2>2. \A g \in Global : cur'[g] # NoMsg => pc[g] = "loop"
    BY <1>1, <2>1 DEF Take, Phases, Phase
  <2>3. QED
    BY <1>1, <2>2, PhasesStay DEF Take
<1>2. CASE RunSaveOrRemove(v)
  <2>1. /\ UNCHANGED <<vm, pc, mode, javaVms>>
        /\ cur \in [Boxes -> Msgs \cup {NoMsg}] /\ cur' = [cur EXCEPT ![v] = NoMsg]
    BY <1>2 DEF RunSaveOrRemove, Finish, IInv, Control, TypeOK
  <2>2. \A w \in Boxes : vm[w] = "none" => children'[w] = children[w]
    BY <1>2 DEF RunSaveOrRemove, IInv, Control, TypeOK
  <2>3. QED
    BY <2>1, <2>2 DEF Phases, Phase, Boxes
<1>3. CASE RunCallback(v)
  <2>1. \A g \in Global : cur'[g] # NoMsg => cur[g] # NoMsg
    BY <1>3 DEF RunCallback, Crash, Finish, IInv, Control, TypeOK, Boxes
  <2>2. QED
    BY <1>3, <2>1, PhasesStay DEF RunCallback, Crash, Phases, Phase
<1>4. CASE v \in Global /\ RunAction(v)
  <2>1. \A g \in Global : cur'[g] # NoMsg => cur[g] # NoMsg
    BY <1>4 DEF RunAction, Crash, Finish, IInv, Control, TypeOK, Boxes
  <2>2. QED
    BY <1>4, <2>1, PhasesStay DEF RunAction, Crash, Phases, Phase
<1>5. QED
  BY <1>1, <1>2, <1>3, <1>4 DEF Execute

\* Loops begin and end, and VMs are opened and closed, once.
LEMMA Forward ==
    ASSUME IInv, Phases, Next
    PROVE  /\ \A g \in Global : mode[g] # "none" => mode'[g] # "none"
           /\ \A g \in Global : mode'[g] \in {"none", "open"} => mode[g] \in {"none", "open"}
           /\ \A v \in Vms : vm[v] # "none" => vm'[v] # "none"
           /\ vm'[Main] = "open" => vm[Main] = "open"
<1> USE DEF threads, shared, queues, tables, IInv, Control, TypeOK
<1> DEFINE Modes == /\ \A g \in Global : mode[g] # "none" => mode'[g] # "none"
                    /\ \A g \in Global :
                          mode'[g] \in {"none", "open"} => mode[g] \in {"none", "open"}
           VmsGo == /\ \A v \in Vms : vm[v] # "none" => vm'[v] # "none"
                    /\ vm'[Main] = "open" => vm[Main] = "open"
<1>1. ASSUME NEW v \in Vms, Script(v) \/ PostSend(v) PROVE Modes /\ VmsGo
  <2>1. vm' = vm
    BY <1>1 DEF Script, Create, OpenGlobal, CloseSelf, RegisterCallback, PostLookup, PostSend,
                Callback, Crash
  <2>2. CASE CloseSelf(v)
    BY <2>1, <2>2 DEF CloseSelf
  <2>3. CASE ~CloseSelf(v)
    <3>1. mode' = mode
      BY <1>1, <2>3 DEF Script, Create, OpenGlobal, RegisterCallback, PostLookup, PostSend,
                  Callback, Crash
    <3>2. QED
      BY <2>1, <3>1
  <2>4. QED
    BY <2>2, <2>3
<1>2. ASSUME DestroyMain PROVE Modes /\ VmsGo
  <2>1. vm[Main] = "open" /\ mode' = mode /\ vm' = [vm EXCEPT ![Main] = "closed"] /\ Main \in Vms
    BY <1>2 DEF DestroyMain, MayCall, Vms
  <2>2. vm'[Main] = "closed" /\ \A v \in Vms \ {Main} : vm'[v] = vm[v]
    BY <2>1
  <2>3. Modes
    BY <2>1
  <2>4. VmsGo
    BY <2>2
  <2>5. QED
    BY <2>3, <2>4
<1>3. ASSUME NEW t \in Once, StartOnce(t) \/ PostSave(t) \/ EndOnce(t) \/ PostRemove(t)
      PROVE  Modes /\ VmsGo
  <2>1. mode' = mode
    BY <1>3 DEF StartOnce, PostSave, EndOnce, PostRemove, TellParent, Crash
  <2>2. PICK x \in {"open", "closed"} : vm' = vm \/ vm' = [vm EXCEPT ![t] = x]
    BY <1>3 DEF StartOnce, PostSave, EndOnce, PostRemove, TellParent, Crash
  <2>3. t # Main /\ t \in Vms /\ Main \in Vms
    BY DEF Vms
  <2>4. VmsGo
    <3>1. \A v \in Vms : vm'[v] = vm[v] \/ (v = t /\ vm'[v] = x)
      BY <2>2
    <3>2. QED
      BY <2>3, <3>1
  <2>5. QED
    BY <2>1, <2>4
<1>4. ASSUME NEW t \in Global, StartGlobal(t) \/ RemoveGlobal(t) \/ CloseGlobal(t) \/ FreeLooper(t)
      PROVE  Modes /\ VmsGo
  <2>1. mode' = mode
    BY <1>4 DEF StartGlobal, RemoveGlobal, CloseGlobal, FreeLooper, Crash
  <2>2. PICK x \in {"open", "closed"} : vm' = vm \/ vm' = [vm EXCEPT ![t] = x]
    BY <1>4 DEF StartGlobal, RemoveGlobal, CloseGlobal, FreeLooper, Crash
  <2>3. t # Main /\ t \in Vms /\ Main \in Vms
    BY DEF Vms
  <2>4. VmsGo
    <3>1. \A v \in Vms : vm'[v] = vm[v] \/ (v = t /\ vm'[v] = x)
      BY <2>2
    <3>2. QED
      BY <2>3, <3>1
  <2>5. QED
    BY <2>1, <2>4
<1>5. ASSUME NEW t \in Global, SaveGlobal(t) \/ LeaveLoop(t) PROVE Modes /\ VmsGo
  <2>1. vm' = vm
    BY <1>5 DEF SaveGlobal, LeaveLoop
  <2>2. CASE SaveGlobal(t)
    BY <2>1, <2>2 DEF SaveGlobal, Phases, Phase
  <2>3. CASE LeaveLoop(t)
    BY <2>1, <2>3 DEF LeaveLoop
  <2>4. QED
    BY <1>5, <2>2, <2>3
<1>6. ASSUME NEW v \in Boxes, Execute(v) PROVE Modes /\ VmsGo
  <2>1. mode' = mode /\ vm' = vm
    BY <1>6 DEF Execute, Take, RunSaveOrRemove, RunCallback, RunAction, Crash
  <2>2. QED
    BY <2>1
<1>7. QED
  BY <1>1, <1>2, <1>3, <1>4, <1>5, <1>6 DEF Next, Thread

\* What a running script resolves or gets as its own pointer.
LEMMA CurrentResolved ==
    ASSUME IInv, Phases, NEW v \in Vms, vm[v] = "open"
    PROVE  Resolved(CurrentIsolate(v)) /\ vm[CurrentIsolate(v).vm] # "none"
<1>1. registry[name[v]] # Null => mode[registry[name[v]]] # "none" /\ vm[registry[name[v]]] = "open"
  BY DEF IInv, Control, Started, TypeOK, RegistryAlive, Phases, Phase
<1>2. QED
  BY <1>1 DEF CurrentIsolate, Resolved

\* A struct is freed by an isolate that has the name of its owner and leaves.
LEMMA FreedStep ==
    ASSUME IInv, Phases, Known, Next
    PROVE  \A g \in FreedStructs' : NamesakeLeft(g)'
<1> USE DEF threads, shared, queues, tables
<1> TypeOK
  BY DEF IInv, Control
<1> DEFINE LeftPc == {"close", "exit", "gone"}
<1>1. ASSUME \A h \in Global : mode[h] # "none" => name'[h] = name[h],
             \A h \in Global : pc[h] \in LeftPc => pc'[h] \in LeftPc,
             \A g \in Global : mode'[g] # "none" /\ g \notin structs' =>
                                  mode[g] # "none" /\ g \notin structs
      PROVE  \A g \in FreedStructs' : NamesakeLeft(g)'
  <2> SUFFICES ASSUME NEW g \in Global, mode'[g] # "none", g \notin structs'
               PROVE  \E h \in Global : name'[g] = name'[h] /\ pc'[h] \in LeftPc
    BY DEF FreedStructs, NamesakeLeft
  <2>1. g \in FreedStructs /\ name'[g] = name[g]
    BY <1>1 DEF FreedStructs
  <2>2. PICK h \in Global : name[g] = name[h] /\ pc[h] \in LeftPc
    BY <2>1 DEF Known, NamesakeLeft
  <2>3. name'[h] = name[h] /\ pc'[h] \in LeftPc
    BY <1>1, <2>2 DEF Phases, Phase
  <2>4. QED
    BY <2>1, <2>2, <2>3
<1>2. ASSUME NEW v \in Vms, Create(v) \/ OpenGlobal(v)
      PROVE  \A g \in FreedStructs' : NamesakeLeft(g)'
  <2>1. PICK t \in Global \cup Once, n \in Names :
           /\ pc[t] = "none" /\ pc' = [pc EXCEPT ![t] = "start"]
           /\ name' = [name EXCEPT ![t] = n] /\ UNCHANGED <<mode, structs>>
    BY <1>2 DEF Create, OpenGlobal
  <2>2. \A h \in Global : h # t => name'[h] = name[h] /\ pc'[h] = pc[h]
    BY <2>1 DEF Vms
  <2>3. t \in Global => mode[t] = "none"
    BY <2>1 DEF Phases, Phase
  <2>4. QED
    BY <1>1, <2>1, <2>2, <2>3
<1>3. ASSUME NEW t \in Global, RemoveGlobal(t)
      PROVE  \A g \in FreedStructs' : NamesakeLeft(g)'
  <2>1. /\ pc[t] = "ended" /\ pc' = [pc EXCEPT ![t] = "close"]
        /\ structs' = structs \ {registry[name[t]]} /\ UNCHANGED <<name, mode>>
    BY <1>3 DEF RemoveGlobal, Unregister
  <2>2. name[t] \in Names /\ pc'[t] = "close" /\ \A h \in Global : h # t => pc'[h] = pc[h]
    BY <2>1 DEF IInv, Control, Started, TypeOK
  <2>3. ASSUME NEW g \in Global, mode'[g] # "none", g \notin structs'
        PROVE  \E h \in Global : name'[g] = name'[h] /\ pc'[h] \in LeftPc
    <3>1. CASE g = registry[name[t]]
      <4>1. name[g] = name[t]
        BY <2>2, <3>1 DEF IInv, Control, RegistryAlive, Vms
      <4>2. QED
        BY <2>1, <2>2, <4>1
    <3>2. CASE g # registry[name[t]]
      <4>1. g \in FreedStructs
        BY <2>1, <2>3, <3>2 DEF FreedStructs
      <4>2. PICK h \in Global : name[g] = name[h] /\ pc[h] \in LeftPc
        BY <4>1 DEF Known, NamesakeLeft
      <4>3. QED
        BY <2>1, <2>2, <4>2
    <3>3. QED
      BY <3>1, <3>2
  <2>4. QED
    BY <2>3 DEF FreedStructs, NamesakeLeft
<1>4. ASSUME NEW t \in Global, SaveGlobal(t)
      PROVE  \A g \in FreedStructs' : NamesakeLeft(g)'
  <2>1. /\ pc[t] = "unnamed" /\ pc' = [pc EXCEPT ![t] = "loop"] /\ name' = name
        /\ mode' = [mode EXCEPT ![t] = "open"] /\ structs' = structs \cup {t}
    BY <1>4 DEF SaveGlobal
  <2>2. QED
    BY <1>1, <2>1
<1>5. ASSUME NEW t \in Global,
             StartGlobal(t) \/ LeaveLoop(t) \/ CloseGlobal(t) \/ FreeLooper(t)
      PROVE  \A g \in FreedStructs' : NamesakeLeft(g)'
  <2>1. UNCHANGED <<name, structs>>
    BY <1>5 DEF StartGlobal, LeaveLoop, CloseGlobal, FreeLooper, Crash
  <2>2. \A h \in Global : mode'[h] # "none" => mode[h] # "none"
    BY <1>5 DEF StartGlobal, LeaveLoop, CloseGlobal, FreeLooper, Crash, Phases, Phase, TypeOK
  <2>3. \A h \in Global : pc[h] \in LeftPc => pc'[h] \in LeftPc
    BY <1>5 DEF StartGlobal, LeaveLoop, CloseGlobal, FreeLooper, Crash, TypeOK
  <2>4. QED
    BY <1>1, <2>1, <2>2, <2>3
<1>6. ASSUME NEW t \in Once, StartOnce(t) \/ PostSave(t) \/ EndOnce(t) \/ PostRemove(t)
      PROVE  \A g \in FreedStructs' : NamesakeLeft(g)'
  <2>1. UNCHANGED <<name, structs, mode>>
    BY <1>6 DEF StartOnce, PostSave, EndOnce, PostRemove, TellParent, FreeRef, Crash
  <2>2. \A h \in Global : pc'[h] = pc[h]
    BY <1>6 DEF StartOnce, PostSave, EndOnce, PostRemove, TellParent, FreeRef, Crash, TypeOK
  <2>3. QED
    BY <1>1, <2>1, <2>2
<1>7. ASSUME NEW v \in Vms, \/ RegisterCallback(v) \/ PostLookup(v) \/ Callback(v) \/ PostSend(v)
                            \/ CloseSelf(v) \/ DestroyMain \/ (v \in Boxes /\ Execute(v))
      PROVE  \A g \in FreedStructs' : NamesakeLeft(g)'
  <2>1. UNCHANGED <<name, structs, pc>>
    BY <1>7 DEF RegisterCallback, PostLookup, Callback, PostSend, CloseSelf, DestroyMain,
                Execute, Take, RunSaveOrRemove, RunCallback, RunAction, Crash
  <2>2. \A h \in Global : mode'[h] # "none" => mode[h] # "none"
    <3>1. CASE CloseSelf(v)
      BY <3>1 DEF CloseSelf
    <3>2. CASE ~CloseSelf(v)
      <4>1. mode' = mode
        BY <1>7, <3>2 DEF RegisterCallback, PostLookup, Callback, PostSend, DestroyMain,
                Execute, Take, RunSaveOrRemove, RunCallback, RunAction, Crash
      <4>2. QED
        BY <4>1
    <3>3. QED
      BY <3>1, <3>2
  <2>3. QED
    BY <1>1, <2>1, <2>2
<1>8. Boxes \subseteq Vms /\ Main \in Vms
  BY DEF Boxes, Vms
<1>9. QED
  BY <1>2, <1>3, <1>4, <1>5, <1>6, <1>7, <1>8 DEF Next, Script, Thread

LEMMA KnownStep == IInv /\ Phases /\ Known /\ Next => Known'
<1> SUFFICES ASSUME IInv, Phases, Known, Next PROVE Known'
  OBVIOUS
<1> USE DEF threads, shared, queues, tables
<1> TypeOK
  BY DEF IInv, Control
<1>1. \A r \in Refs \cup {NoRef} : PointsRight(r) /\ Resolved(r) => Resolved(r)'
  BY Forward DEF Resolved, PointsRight
<1>2. \A r \in Refs : vm[r.vm] # "none" => vm'[r.vm] # "none"
  BY Forward DEF Refs
<1>3. \A o \in Once : Resolved(parent[o])' /\ (pc'[o] # "none" => vm'[parent'[o].vm] # "none")
  <2>1. ASSUME NEW o \in Once, parent'[o] = parent[o], pc'[o] # "none" => pc[o] # "none"
        PROVE  Resolved(parent[o])' /\ (pc'[o] # "none" => vm'[parent'[o].vm] # "none")
    <3>1. parent[o] \in Refs \cup {NoRef} /\ PointsRight(parent[o]) /\ Resolved(parent[o])
      BY DEF IInv, Control, TypeOK, RefsGood, Known
    <3>2. Resolved(parent[o])'
      BY <1>1, <2>1, <3>1 DEF Resolved
    <3>3. pc[o] # "none" => parent[o] \in Refs /\ vm[parent[o].vm] # "none"
      BY DEF IInv, Control, Started, Known
    <3>4. QED
      BY <1>2, <2>1, <3>2, <3>3
  <2>2. ASSUME NEW v \in Vms, Create(v), NEW o \in Once
        PROVE  Resolved(parent[o])' /\ (pc'[o] # "none" => vm'[parent'[o].vm] # "none")
    <3>1. PICK p \in Once : /\ pc' = [pc EXCEPT ![p] = "start"]
                            /\ parent' = [parent EXCEPT ![p] = CurrentIsolate(v)]
      BY <2>2 DEF Create
    <3>2. vm[v] = "open" /\ mode' = mode /\ vm' = vm
      BY <2>2 DEF Create, MayCall
    <3>3. CASE o = p
      <4>1. parent'[o] = CurrentIsolate(v)
        BY <3>1, <3>3 DEF TypeOK
      <4>2. QED
        BY <3>2, <4>1, CurrentResolved DEF Resolved
    <3>4. CASE o # p
      BY <2>1, <3>1, <3>4 DEF TypeOK
    <3>5. QED
      BY <3>3, <3>4
  <2>3. CASE ~\E v \in Vms : Create(v)
    <3>1. parent' = parent
      BY <2>3 DEF Next, Script, OpenGlobal, CloseSelf, RegisterCallback, PostLookup, PostSend,
                  Callback, DestroyMain, Thread, StartOnce, PostSave, EndOnce, PostRemove,
                  TellParent, StartGlobal, SaveGlobal, LeaveLoop, RemoveGlobal, CloseGlobal, FreeLooper,
                  Execute, Take, RunSaveOrRemove, RunCallback, RunAction, Crash
    <3>2. ASSUME NEW o \in Once, pc[o] = "none" PROVE pc'[o] = "none"
      <4>1. ASSUME NEW v \in Vms, OpenGlobal(v) PROVE pc'[o] = "none"
        BY <3>2, <4>1 DEF OpenGlobal, TypeOK
      <4>2. ASSUME NEW t \in Global \cup Once, Thread(t) PROVE pc'[o] = "none"
        <5>1. t # o => pc'[o] = pc[o]
          BY <4>2 DEF Thread, StartOnce, PostSave, EndOnce, PostRemove,
                  TellParent, StartGlobal, SaveGlobal, LeaveLoop, RemoveGlobal, CloseGlobal, FreeLooper, Crash,
                  TypeOK
        <5>2. t = o => FALSE
          BY <3>2, <4>2 DEF Thread, StartOnce, PostSave, EndOnce, PostRemove
        <5>3. QED
          BY <3>2, <5>1, <5>2
      <4>3. CASE pc' = pc
        BY <3>2, <4>3
      <4>4. \/ \E v \in Vms : OpenGlobal(v)
            \/ \E t \in Global \cup Once : Thread(t)
            \/ pc' = pc
        BY <2>3 DEF Next, Script, CloseSelf, RegisterCallback, PostLookup, PostSend,
                  Callback, DestroyMain, Execute, Take, RunSaveOrRemove, RunCallback, RunAction,
                  Crash
      <4>5. QED
        BY <4>1, <4>2, <4>3, <4>4
    <3>3. QED
      BY <2>1, <3>1, <3>2
  <2>4. QED
    BY <2>2, <2>3
<1>4. \A j \in Jobs : Resolved(job[j].parent)'
  <2>1. ASSUME NEW j \in Jobs, job'[j] = job[j] PROVE Resolved(job[j].parent)'
    <3>1. job[j].parent \in Refs \cup {NoRef}
      BY DEF TypeOK, NoJob
    <3>2. QED
      BY <1>1, <2>1, <3>1 DEF IInv, Control, RefsGood, Known, Resolved
  <2>2. ASSUME NEW v \in Vms, PostLookup(v), NEW j \in Jobs PROVE Resolved(job[j].parent)'
    <3>1. PICK i \in Jobs, acb \in BOOLEAN :
            /\ vm[v] = "open"
            /\ job' = [job EXCEPT ![i] = [kind |-> "action", from |-> v,
                          parent |-> IF acb THEN CurrentIsolate(v) ELSE NoRef]]
      BY <2>2 DEF PostLookup, MayCall
    <3>2. CASE j = i
      <4>1. job'[j].parent = IF acb THEN CurrentIsolate(v) ELSE NoRef
        BY <3>1, <3>2 DEF TypeOK
      <4>2. Resolved(job'[j].parent) /\ mode' = mode
        BY <2>2, <3>1, <4>1, CurrentResolved DEF PostLookup, Resolved, NoRef
      <4>3. QED
        BY <4>2 DEF Resolved
    <3>3. CASE j # i
      BY <2>1, <3>1, <3>3 DEF TypeOK
    <3>4. QED
      BY <3>2, <3>3
  <2>3. ASSUME NEW v \in Vms, Callback(v), NEW j \in Jobs PROVE Resolved(job[j].parent)'
    <3>1. \/ job' = job
          \/ \E i \in Jobs : job' = [job EXCEPT ![i] =
                          [kind |-> "callback", from |-> v, parent |-> NoRef]]
      BY <2>3 DEF Callback, Crash
    <3>2. job'[j] = job[j] \/ job'[j].parent = NoRef
      BY <3>1 DEF TypeOK
    <3>3. QED
      BY <2>1, <3>2 DEF Resolved, NoRef
  <2>4. CASE ~\E v \in Vms : PostLookup(v) \/ Callback(v)
    <3>1. job' = job
      BY <2>4 DEF Next, Script, Create, OpenGlobal, CloseSelf, RegisterCallback, PostSend,
                  DestroyMain, Thread, StartOnce, PostSave, EndOnce, PostRemove,
                  TellParent, StartGlobal, SaveGlobal, LeaveLoop, RemoveGlobal, CloseGlobal, FreeLooper,
                  Execute, Take, RunSaveOrRemove, RunCallback, RunAction, Crash
    <3>2. QED
      BY <2>1, <3>1
  <2>5. QED
    BY <2>2, <2>3, <2>4
<1>5. \A v \in Vms : op'[v] # NoOp => mode'[op'[v].to] # "none"
  <2>1. ASSUME NEW v \in Vms, op'[v] = op[v] PROVE op'[v] # NoOp => mode'[op'[v].to] # "none"
    <3>1. op[v] # NoOp => op[v].to \in Global /\ mode[op[v].to] # "none"
      BY DEF TypeOK, Known
    <3>2. QED
      BY <2>1, <3>1, Forward
  <2>2. ASSUME NEW w \in Vms, PostLookup(w), NEW v \in Vms
        PROVE  op'[v] # NoOp => mode'[op'[v].to] # "none"
    <3>1. PICK n \in Names, j \in Jobs :
            /\ registry[n] # Null
            /\ op' = [op EXCEPT ![w] = [to |-> registry[n], msg |-> <<"action", j>>]]
      BY <2>2 DEF PostLookup
    <3>2. registry[n] \in Global /\ mode[registry[n]] # "none" /\ mode' = mode
      BY <2>2, <3>1 DEF PostLookup, IInv, Control, TypeOK, RegistryAlive, Phases, Phase
    <3>3. CASE v = w
      <4>1. op'[v].to = registry[n]
        BY <3>1, <3>3 DEF TypeOK
      <4>2. QED
        BY <3>2, <4>1
    <3>4. CASE v # w
      BY <2>1, <3>1, <3>4 DEF TypeOK
    <3>5. QED
      BY <3>3, <3>4
  <2>3. ASSUME NEW w \in Vms, PostSend(w), NEW v \in Vms
        PROVE  op'[v] # NoOp => mode'[op'[v].to] # "none"
    <3>1. op' = op \/ op' = [op EXCEPT ![w] = NoOp]
      BY <2>3 DEF PostSend, Crash
    <3>2. op'[v] = op[v] \/ op'[v] = NoOp
      BY <3>1 DEF TypeOK
    <3>3. QED
      BY <2>1, <3>2
  <2>4. CASE ~\E w \in Vms : PostLookup(w) \/ PostSend(w)
    <3>1. op' = op
      BY <2>4 DEF Next, Script, Create, OpenGlobal, CloseSelf, RegisterCallback, Callback,
                  DestroyMain, Thread, StartOnce, PostSave, EndOnce, PostRemove,
                  TellParent, StartGlobal, SaveGlobal, LeaveLoop, RemoveGlobal, CloseGlobal, FreeLooper,
                  Execute, Take, RunSaveOrRemove, RunCallback, RunAction, Crash
    <3>2. QED
      BY <2>1, <3>1
  <2>5. QED
    BY <2>2, <2>3, <2>4
<1>6. \A g \in FreedStructs' : NamesakeLeft(g)'
  BY FreedStep
<1>7. QED
  BY <1>3, <1>4, <1>5, <1>6 DEF Known

\* What a bad pointer and a bad argument are due to.
LEMMA PointerCauses ==
    ASSUME TypeOK, Phases, Known, NEW r, PointsRight(r), Resolved(r)
    PROVE  /\ Dangling(r) => \E g \in FreedStructs : NamesakeLeft(g)
           /\ LooperFault(r) # "none" => /\ LooperFault(r) = "freed_looper"
                                         /\ \E g \in Global : pc[g] = "gone"
           /\ PointerFault(r) = "none" => ~Dangling(r)
           /\ PointerFault(r) # "none" =>
                 \/ PointerFault(r) = "freed_isolate" /\ Dangling(r)
                 \/ PointerFault(r) = "freed_looper" /\ LooperFault(r) = "freed_looper"
<1>1. CASE r.type = "global"
  <2>1. r.vm \in Global /\ mode[r.vm] # "none"
    BY <1>1 DEF PointsRight, Resolved
  <2>2. Dangling(r) => r.vm \in FreedStructs
    BY <2>1 DEF Dangling, FreedStructs
  <2>3. QED
    BY <2>1, <2>2 DEF PointerFault, LooperFault, Known
<1>2. CASE r.type # "global"
  BY <1>2 DEF PointerFault, LooperFault, Dangling
<1>3. QED
  BY <1>1, <1>2

\* What ends the program: Crash leaves everything as it was.
LEMMA CrashCauses ==
    ASSUME NEW f, Crash(f),
           f = "freed_isolate" => \E g \in FreedStructs : NamesakeLeft(g),
           f = "freed_looper" => \E g \in Global : pc[g] = "gone",
           f # "freed_node",
           f = "null_vm" => vm[Main] = "closed",
           f = "no_parent" => \E v \in Boxes : "callback" \in Allowed[v],
           f = "no_globals" => \E o \in Once : /\ pc[o] = "start" /\ parent[o].vm \notin Global
                                               /\ vm[parent[o].vm] = "closed",
           f = "closed_twice" =>
              \E g, h \in Global : g # h /\ pc[g] = "close" /\ vm[h] # "none"
    PROVE  FaultCauses'
  BY DEF Crash, FaultCauses, FreedStructs, NamesakeLeft, threads, shared, queues

LEMMA ArgumentCause ==
    ASSUME IInv, Phases, Known, NEW m \in Msgs, FreeFault(m) # "none"
    PROVE  FreeFault(m) = "freed_isolate" /\ \E g \in FreedStructs : NamesakeLeft(g)
<1>1. m[1] = "action" /\ Dangling(job[m[2]].parent) /\ FreeFault(m) = "freed_isolate"
  BY DEF FreeFault
<1>2. m[2] \in Jobs
  BY <1>1, MessageShape
<1>3. QED
  BY <1>1, <1>2, PointerCauses DEF IInv, Control, RefsGood, Known

\* The pointer a post uses, to which it resolved the name before.
LEMMA PostFaultStep ==
    ASSUME IInv, Phases, Known, fault = "none", NEW v \in Vms, PostSend(v)
    PROVE  FaultCauses'
<1> TypeOK
  BY DEF IInv, Control
<1> DEFINE r == [type |-> "global", vm |-> op[v].to]
           m == op[v].msg
<1>1. op[v] # NoOp /\ r.type = "global" /\ r.vm = op[v].to /\ r.vm \in Global
  BY DEF PostSend, TypeOK
<1>2. m \in Msgs
  BY <1>1 DEF TypeOK, Msgs
<1>3. PointsRight(r) /\ Resolved(r)
  BY <1>1 DEF PointsRight, Resolved, Known
<1> HIDE DEF r, m
<1>4. CASE PointerFault(r) # "none"
  <2>1. Crash(PointerFault(r))
    BY <1>4 DEF PostSend, r, m
  <2>2. QED
    BY <1>3, <1>4, <2>1, PointerCauses, CrashCauses
<1>5. CASE PointerFault(r) = "none" /\ Outcome(r) # "posted" /\ FreeFault(m) # "none"
  <2>1. Crash(FreeFault(m))
    BY <1>5 DEF PostSend, r, m
  <2>2. QED
    BY <1>2, <1>5, <2>1, ArgumentCause, CrashCauses
<1>6. CASE ~(PointerFault(r) # "none") /\ ~(Outcome(r) # "posted" /\ FreeFault(m) # "none")
  <2>1. fault' = fault
    BY <1>6 DEF PostSend, r, m
  <2>2. QED
    BY <2>1 DEF FaultCauses
<1>7. QED
  BY <1>4, <1>5, <1>6

\* A callback has a creator whose loop is there, or stops the program.
LEMMA CallbackFaultStep ==
    ASSUME IInv, Phases, Known, fault = "none", NEW v \in Vms, Callback(v)
    PROVE  FaultCauses'
<1> TypeOK
  BY DEF IInv, Control
<1>1. "callback" \in Allowed[v]
  BY DEF Callback, MayCall
<1>2. CASE v \notin Once
  <2>1. v \in Boxes /\ Crash("no_parent")
    BY <1>2 DEF Callback, Vms, Boxes
  <2>2. QED
    BY <1>1, <2>1, CrashCauses
<1>3. CASE v \in Once /\ LooperFault(parent[v]) # "none"
  <2>1. PointsRight(parent[v]) /\ Resolved(parent[v])
    BY <1>3 DEF IInv, Control, RefsGood, Known
  <2>2. Crash(LooperFault(parent[v]))
    BY <1>3 DEF Callback
  <2>3. QED
    BY <1>3, <2>1, <2>2, PointerCauses, CrashCauses
<1>4. CASE v \in Once /\ LooperFault(parent[v]) = "none"
  <2>1. fault' = fault
    BY <1>4 DEF Callback
  <2>2. QED
    BY <2>1 DEF FaultCauses
<1>5. QED
  BY <1>2, <1>3, <1>4

\* The thread of a once isolate follows the pointer of its creator.
LEMMA OnceFaultStep ==
    ASSUME IInv, Phases, Known, fault = "none",
           NEW t \in Once, StartOnce(t) \/ PostSave(t) \/ EndOnce(t) \/ PostRemove(t)
    PROVE  FaultCauses'
<1> TypeOK
  BY DEF IInv, Control
<1> DEFINE r == parent[t]
<1>1. PointsRight(r) /\ Resolved(r)
  BY DEF IInv, Control, RefsGood, Known
<1>2. CASE EndOnce(t)
  BY <1>2 DEF EndOnce, FaultCauses
<1>3. CASE PostSave(t) \/ PostRemove(t)
  <2>1. CASE PointerFault(r) # "none"
    <3>1. Crash(PointerFault(r))
      BY <1>3, <2>1 DEF PostSave, PostRemove, TellParent
    <3> HIDE DEF r
    <3>2. QED
      BY <1>1, <2>1, <3>1, PointerCauses, CrashCauses
  <2>2. CASE PointerFault(r) = "none"
    BY <1>3, <2>2 DEF PostSave, PostRemove, TellParent, FaultCauses
  <2>3. QED
    BY <2>1, <2>2
<1>4. CASE StartOnce(t)
  <2>1. pc[t] = "start" /\ r \in Refs /\ vm[r.vm] # "none" /\ r.vm \in Vms
    BY <1>4 DEF StartOnce, IInv, Control, Started, Known, Refs
  <2>2. CASE Dangling(r)
    <3>1. Crash("freed_isolate")
      BY <1>4, <2>2 DEF StartOnce
    <3> HIDE DEF r
    <3>2. QED
      BY <1>1, <2>2, <3>1, PointerCauses, CrashCauses
  <2>3. CASE ~Dangling(r) /\ ~KnownToJava(r.vm)
    <3>1. Crash("no_globals")
      BY <1>4, <2>3 DEF StartOnce
    <3>2. r.vm \notin Global
      BY <2>1, <2>3 DEF KnownToJava, Phases, Phase
    <3>3. vm[r.vm] = "closed"
      BY <2>1, <2>3, <3>2 DEF KnownToJava, TypeOK
    <3>4. QED
      BY <2>1, <3>1, <3>2, <3>3, CrashCauses
  <2>4. CASE ~Dangling(r) /\ KnownToJava(r.vm)
    <3>1. fault' = fault
      BY <1>4, <2>4 DEF StartOnce
    <3>2. QED
      BY <3>1 DEF FaultCauses
  <2>5. QED
    BY <2>2, <2>3, <2>4
<1>5. QED
  BY <1>2, <1>3, <1>4

\* A global isolate that closes.
LEMMA GlobalFaultStep ==
    ASSUME IInv, Phases, Known, fault = "none",
           NEW t \in Global, CloseGlobal(t) \/ FreeLooper(t)
    PROVE  FaultCauses'
<1> TypeOK
  BY DEF IInv, Control
<1>1. CASE CloseGlobal(t) /\ Head(javaVms) # t
  <2>1. pc[t] = "close" /\ Crash("closed_twice")
    BY <1>1 DEF CloseGlobal
  <2>2. t \in ToSet(javaVms)
    BY <2>1 DEF Phases, Phase
  <2>3. javaVms \in Seq(Global) /\ Len(javaVms) \in Nat \ {0}
    <3>1. javaVms \in Seq(Global) /\ Len(javaVms) \in Nat
      BY LenProperties DEF TypeOK
    <3>2. \E i \in 1..Len(javaVms) : javaVms[i] = t
      BY <2>2, <3>1 DEF ToSet
    <3>3. QED
      BY <3>1, <3>2
  <2>4. Head(javaVms) \in Global /\ Head(javaVms) \in ToSet(javaVms)
    BY <2>3 DEF ToSet
  <2>5. vm[Head(javaVms)] # "none"
    BY <2>4 DEF Phases, Phase
  <2>6. QED
    BY <1>1, <2>1, <2>4, <2>5, CrashCauses
<1>2. CASE CloseGlobal(t) /\ Head(javaVms) = t
  BY <1>2 DEF CloseGlobal, FaultCauses
<1>3. CASE FreeLooper(t)
  <2>1. t \in Boxes /\ box[t] \in Seq(Msgs) /\ pc[t] = "exit"
    BY <1>3 DEF FreeLooper, TypeOK, Boxes
  <2>2. CASE box[t] # <<>> /\ FreeFault(Head(box[t])) # "none"
    <3>1. Crash("freed_isolate") /\ Head(box[t]) \in Msgs
      BY <1>3, <2>1, <2>2 DEF FreeLooper
    <3>2. QED
      BY <2>2, <3>1, ArgumentCause, CrashCauses
  <2>3. CASE ~(box[t] # <<>> /\ FreeFault(Head(box[t])) # "none")
    <3>1. CASE fault' = fault
      BY <3>1 DEF FaultCauses
    <3>2. CASE fault' # fault
      <4>1. /\ Len(box[t]) > 1 /\ fault' = "freed_node" /\ UNCHANGED pc
            /\ box' = [box EXCEPT ![t] = IF @ = <<>> THEN @ ELSE Tail(@)]
        BY <1>3, <2>3, <3>2 DEF FreeLooper
      <4>2. box[t] # <<>> /\ box'[t] = Tail(box[t])
        BY <2>1, <4>1 DEF TypeOK
      <4>3. Len(Tail(box[t])) = Len(box[t]) - 1 /\ Len(box[t]) \in Nat
        BY <2>1, <4>2, HeadTailProperties, LenProperties
      <4>4. Len(box'[t]) > 0
        BY <4>1, <4>2, <4>3
      <4>5. box'[t] # <<>>
        BY <4>4, EmptySeq
      <4>6. QED
        BY <2>1, <4>1, <4>5 DEF FaultCauses
    <3>3. QED
      BY <3>1, <3>2
  <2>4. QED
    BY <2>2, <2>3
<1>4. QED
  BY <1>1, <1>2, <1>3

\* Messages that are executed: a callback needs its VM, an answer the pointer.
LEMMA ExecuteFaultStep ==
    ASSUME IInv, Phases, Known, fault = "none", NEW v \in Boxes, Execute(v)
    PROVE  FaultCauses'
<1> TypeOK
  BY DEF IInv, Control
<1>1. CASE Take(v) \/ RunSaveOrRemove(v)
  BY <1>1 DEF Take, RunSaveOrRemove, FaultCauses
<1>2. CASE RunCallback(v)
  <2>1. cur[v] # NoMsg
    BY <1>2 DEF RunCallback, NoMsg
  <2>2. CASE vm[v] = "open"
    BY <1>2, <2>2 DEF RunCallback, FaultCauses
  <2>3. CASE vm[v] # "open"
    <3>1. v = Main
      BY <2>1, <2>3 DEF Boxes, Phases, Phase
    <3>2. vm[Main] = "closed" /\ Crash("null_vm")
      BY <1>2, <2>3, <3>1 DEF RunCallback, Phases, TypeOK, Vms
    <3>3. QED
      BY <3>2, CrashCauses
  <2>4. QED
    BY <2>2, <2>3
<1>3. CASE v \in Global /\ RunAction(v)
  <2> DEFINE r == job[cur[v][2]].parent
  <2>1. cur[v] \in Msgs /\ cur[v][2] \in Jobs
    <3>1. cur[v][1] = "action"
      BY <1>3 DEF RunAction
    <3>2. cur[v] \in Msgs
      BY <3>1 DEF TypeOK, NoMsg
    <3>3. QED
      BY <3>1, <3>2, MessageShape
  <2>2. PointsRight(r) /\ Resolved(r)
    BY <2>1 DEF IInv, Control, RefsGood, Known
  <2>3. CASE PointerFault(r) # "none"
    <3>1. Crash(PointerFault(r))
      BY <1>3, <2>3 DEF RunAction
    <3> HIDE DEF r
    <3>2. QED
      BY <2>2, <2>3, <3>1, PointerCauses, CrashCauses
  <2>4. CASE PointerFault(r) = "none"
    BY <1>3, <2>4 DEF RunAction, FaultCauses
  <2>5. QED
    BY <2>3, <2>4
<1>4. QED
  BY <1>1, <1>2, <1>3 DEF Execute

LEMMA FaultStep ==
    ASSUME IInv, Phases, Known, Next
    PROVE  FaultCauses'
<1> USE DEF threads, shared, queues, tables
<1>1. fault = "none"
  BY DEF Next
<1>2. ASSUME NEW v \in Vms, Script(v) \/ PostSend(v) PROVE FaultCauses'
  <2>1. CASE Callback(v) \/ PostSend(v)
    BY <1>1, <2>1, PostFaultStep, CallbackFaultStep
  <2>2. CASE ~(Callback(v) \/ PostSend(v))
    <3>1. fault' = "none"
      BY <1>1, <1>2, <2>2 DEF Script, Create, OpenGlobal, CloseSelf, RegisterCallback, PostLookup
    <3>2. QED
      BY <3>1 DEF FaultCauses
  <2>3. QED
    BY <2>1, <2>2
<1>3. CASE DestroyMain
  BY <1>1, <1>3 DEF DestroyMain, FaultCauses
<1>4. ASSUME NEW t \in Once, StartOnce(t) \/ PostSave(t) \/ EndOnce(t) \/ PostRemove(t)
      PROVE  FaultCauses'
  BY <1>1, <1>4, OnceFaultStep
<1>5. ASSUME NEW t \in Global,
             \/ StartGlobal(t) \/ SaveGlobal(t) \/ LeaveLoop(t) \/ RemoveGlobal(t)
             \/ CloseGlobal(t) \/ FreeLooper(t)
      PROVE  FaultCauses'
  <2>1. CASE StartGlobal(t) \/ SaveGlobal(t) \/ LeaveLoop(t) \/ RemoveGlobal(t)
    BY <1>1, <2>1 DEF StartGlobal, SaveGlobal, LeaveLoop, RemoveGlobal, FaultCauses
  <2>2. CASE CloseGlobal(t) \/ FreeLooper(t)
    BY <1>1, <2>2, GlobalFaultStep
  <2>3. QED
    BY <1>5, <2>1, <2>2
<1>6. ASSUME NEW v \in Boxes, Execute(v) PROVE FaultCauses'
  BY <1>1, <1>6, ExecuteFaultStep
<1>7. QED
  BY <1>2, <1>3, <1>4, <1>5, <1>6 DEF Next, Thread

LEMMA PhasesStep == IInv /\ IInv' /\ Phases /\ Next => Phases'
<1> SUFFICES ASSUME IInv, IInv', Phases, Next PROVE Phases'
  OBVIOUS
<1> USE DEF threads, shared, queues, tables
<1>1. ASSUME NEW v \in Vms, Script(v) \/ PostSend(v) PROVE Phases'
  <2>1. CASE Create(v) \/ OpenGlobal(v) \/ CloseSelf(v)
    BY <2>1, PhasesCreate
  <2>2. CASE RegisterCallback(v) \/ PostLookup(v) \/ Callback(v) \/ PostSend(v)
    BY <2>2, PhasesStay
    DEF RegisterCallback, PostLookup, Callback, PostSend, Crash, Phases, Phase
  <2>3. QED
    BY <1>1, <2>1, <2>2 DEF Script
<1>2. CASE DestroyMain
  <2>1. /\ vm' = [vm EXCEPT ![Main] = "closed"] /\ UNCHANGED <<pc, mode, javaVms, children, cur>>
        /\ vm \in [Vms -> {"none", "open", "closed"}] /\ Main \in Boxes
        /\ Boxes \subseteq Vms /\ Global \subseteq Boxes
    BY <1>2 DEF DestroyMain, IInv, Control, TypeOK, Boxes, Vms
  <2>2. vm'[Main] = "closed" /\ \A v \in Boxes \ {Main} : vm'[v] = vm[v]
    BY <2>1
  <2>3. QED
    BY <2>1, <2>2 DEF Phases, Phase
<1>3. ASSUME NEW t \in Global \cup Once, Thread(t) PROVE Phases'
  <2>1. CASE fault' = "none"
    BY <1>3, <2>1, PhasesThread
  <2>2. CASE fault' # "none"
    <3>1. UNCHANGED <<vm, pc, mode, javaVms, children, cur>>
      BY <1>3, <2>2 DEF Next, Thread, StartOnce, PostSave, EndOnce, PostRemove, TellParent,
              StartGlobal, SaveGlobal, LeaveLoop, RemoveGlobal, CloseGlobal, FreeLooper, Crash
    <3>2. QED
      BY <3>1, PhasesStay DEF Phases, Phase
  <2>3. QED
    BY <2>1, <2>2
<1>4. ASSUME NEW v \in Boxes, Execute(v) PROVE Phases'
  BY <1>4, PhasesExecute
<1>5. QED
  BY <1>1, <1>2, <1>3, <1>4 DEF Next

LEMMA PhaseInvInit == Init => PhaseInv
<1> SUFFICES ASSUME Init PROVE PhaseInv
  OBVIOUS
<1>1. IInv
  BY InvariantInit
<1>2. Phases
  <2>1. Main \in Vms /\ Main \notin Global
    BY DEF Vms
  <2>2. \A g \in Global : g \in Vms /\ g \in Boxes /\ g # Main
    BY DEF Vms, Boxes
  <2>3. \A g \in Global : g \notin ToSet(javaVms)
    BY DEF Init, ToSet
  <2>4. QED
    BY <2>1, <2>2, <2>3 DEF Init, Phases, Phase
<1>3. Known /\ FaultCauses
  BY DEF Init, Known, Resolved, NoRef, NoJob, FreedStructs, FaultCauses
<1>4. QED
  BY <1>1, <1>2, <1>3 DEF PhaseInv

LEMMA PhaseInvStep == PhaseInv /\ [Next]_vars => PhaseInv'
<1> SUFFICES ASSUME PhaseInv, [Next]_vars PROVE PhaseInv'
  OBVIOUS
<1>1. IInv'
  BY InvariantStep DEF PhaseInv
<1>2. CASE Next
  BY <1>1, <1>2, PhasesStep, KnownStep, FaultStep DEF PhaseInv
<1>3. CASE UNCHANGED vars
  <2>1. Phases' /\ Known' /\ FaultCauses'
    BY <1>3 DEF PhaseInv, vars, threads, shared, queues, tables, Phases, Phase, Known, Resolved,
                FreedStructs, NamesakeLeft, FaultCauses
  <2>2. QED
    BY <1>1, <2>1 DEF PhaseInv
<1>4. QED
  BY <1>2, <1>3

\* Each thread is in a phase that fits its VM, its name and its struct, and the
\* references it keeps lead where it was told (in_thread, in_global_thread).
THEOREM PhaseInvariance == Spec => []PhaseInv
<1>1. QED
  BY PhaseInvInit, PhaseInvStep, PTL DEF Spec

\* Whatever scripts call, and whoever closes in which order, what goes wrong has
\* the cause the property names (remove_global_isolate, _free_loop,
\* Globals.destroy, getGlobalsByLState): in particular nothing does while no
\* isolate closed itself and the main VM lives, but for a callback without a
\* creator and a once isolate that ended before its child began.
THEOREM FaultsHaveCauses == Spec => []FaultCauses
<1>1. PhaseInv => FaultCauses
  BY DEF PhaseInv
<1>2. QED
  BY <1>1, PhaseInvariance, PTL

----------------------------------------------------------------------------
(***************************************************************************)
(* What a once isolate tells its creator: all of it is posted to the same  *)
(* loop, and that loop executes it in the order it was posted.             *)
(***************************************************************************)
Over(m) == m \in done \/ freed[m] = 1

\* What o tells its creator.
Told(o) ==
    {<<"save", o>>, <<"remove", o>>}
      \cup {<<"callback", j>> : j \in {i \in Jobs : job[i].kind = "callback" /\ job[i].from = o}}

Precedes(a, b) ==
    \E o \in Once : a \in Told(o) /\ b \in Told(o) /\ a # b /\ (a[1] = "save" \/ b[1] = "remove")

Before(a, b) ==
    /\ \A v \in Boxes : \A i \in 1..Len(box[v]) :
          box[v][i] = b => Over(a) \/ cur[v] = a \/ \E k \in 1..i - 1 : box[v][k] = a
    /\ \A v \in Boxes : cur[v] = b => Over(a)
    /\ b \in done => Over(a)

Callers ==
    \A j \in Jobs : job[j].kind = "callback" =>
        job[j].from \in Once /\ pc[job[j].from] \in {"body", "remove", "gone"}

AtParent == \A o \in Once : \A m \in Told(o) : Queued(m) \cup Taken(m) \subseteq {parent[o].vm}

Ordered == \A a, b \in Msgs : Precedes(a, b) => Before(a, b)

OrderInv == Callers /\ AtParent /\ Ordered

LEMMA ToldTypes ==
    /\ \A o \in Once : Told(o) \subseteq Msgs
    /\ \A o \in Once, m \in Msgs : m \in Told(o) <=>
          \/ m = <<"save", o>> \/ m = <<"remove", o>>
          \/ m[1] = "callback" /\ job[m[2]].kind = "callback" /\ job[m[2]].from = o
    /\ \A o, p \in Once, m \in Msgs : m \in Told(o) /\ m \in Told(p) => o = p
<1>1. ASSUME NEW o \in Once, NEW m \in Told(o) PROVE m \in Msgs
  <2>1. m = <<"save", o>> \/ m = <<"remove", o>> \/ \E j \in Jobs : m = <<"callback", j>>
    BY DEF Told
  <2>2. QED
    BY <2>1, MessageShape
<1>2. ASSUME NEW o \in Once, NEW m \in Msgs
      PROVE  m \in Told(o) <=>
                \/ m = <<"save", o>> \/ m = <<"remove", o>>
                \/ m[1] = "callback" /\ job[m[2]].kind = "callback" /\ job[m[2]].from = o
  BY MessageShape DEF Told
<1>3. ASSUME NEW o \in Once, NEW p \in Once, NEW m \in Msgs, m \in Told(o), m \in Told(p)
      PROVE  o = p
  BY <1>3 DEF Told
<1>4. QED
  BY <1>1, <1>2, <1>3

\* What was freed or executed stays so.
LEMMA OverStays ==
    ASSUME IInv, IInv', Next
    PROVE  done \subseteq done' /\ \A m \in Msgs : Over(m) => Over(m)'
<1> USE DEF threads, shared, queues, tables
<1>1. \A m \in Msgs : freed'[m] \in {0, 1}
  BY DEF IInv, Owned, OneOwner, InQueue, InLoop, InPost, Settled, Nowhere, At
<1>2. freed \in [Msgs -> Nat] /\ done \subseteq Msgs
  BY DEF IInv, Control, TypeOK
<1>3. \A out : Frees(out) \in Nat
  BY DEF Frees
<1>4. ASSUME NEW f \in [Msgs -> Nat], NEW r, NEW m, Send(r, m, f), NEW k \in Msgs
      PROVE  freed'[k] >= f[k]
  <2>1. PICK n \in Nat : freed' = [f EXCEPT ![m] = @ + n]
    BY <1>3, <1>4 DEF Send
  <2>2. QED
    BY <2>1
<1> DEFINE Grow == done \subseteq done' /\ \A k \in Msgs : freed'[k] >= freed[k]
<1>5. ASSUME UNCHANGED <<done, freed>> PROVE Grow
  BY <1>2, <1>5
<1>6. ASSUME NEW v \in Vms, Script(v) \/ PostSend(v) PROVE Grow
  <2>1. CASE Callback(v) \/ PostSend(v)
    <3>1. done' = done
      BY <2>1 DEF Callback, PostSend, Crash
    <3>2. freed' = freed \/ \E r, m : Send(r, m, freed)
      BY <2>1 DEF Callback, PostSend, Crash
    <3>3. QED
      BY <1>2, <1>4, <3>1, <3>2
  <2>2. CASE ~(Callback(v) \/ PostSend(v))
    BY <1>5, <1>6, <2>2 DEF Script, Create, OpenGlobal, CloseSelf, RegisterCallback, PostLookup
  <2>3. QED
    BY <2>1, <2>2
<1>7. ASSUME NEW t \in Global \cup Once, Thread(t) PROVE Grow
  <2>1. CASE PostSave(t) \/ PostRemove(t)
    <3>1. done' = done /\ (freed' = freed \/ \E r, m : Send(r, m, freed))
      BY <2>1 DEF PostSave, PostRemove, TellParent, Crash
    <3>2. QED
      BY <1>2, <1>4, <3>1
  <2>2. CASE FreeLooper(t)
    <3>1. done' = done /\ \A k \in Msgs : freed'[k] = freed[k] \/ freed'[k] = freed[k] + 1
      BY <2>2 DEF FreeLooper, Discarded, Crash
    <3>2. QED
      BY <1>2, <3>1
  <2>3. CASE ~(PostSave(t) \/ PostRemove(t) \/ FreeLooper(t))
    BY <1>5, <1>7, <2>3 DEF Thread, StartOnce, EndOnce, StartGlobal, SaveGlobal, LeaveLoop, RemoveGlobal,
                            CloseGlobal, Crash
  <2>4. QED
    BY <2>1, <2>2, <2>3
<1>8. ASSUME NEW v \in Boxes, Execute(v) PROVE Grow
  <2>1. CASE Take(v)
    BY <1>5, <2>1 DEF Take
  <2>2. CASE RunSaveOrRemove(v) \/ RunCallback(v)
    <3>1. done \subseteq done'
      BY <2>2 DEF RunSaveOrRemove, RunCallback, Finish, Crash
    <3>2. freed' = freed \/ \E n \in {0, 1} : freed' = [freed EXCEPT ![cur[v]] = @ + n]
      BY <2>2 DEF RunSaveOrRemove, RunCallback, Crash
    <3>3. QED
      BY <1>2, <3>1, <3>2
  <2>3. CASE v \in Global /\ RunAction(v)
    <3> DEFINE f == [freed EXCEPT ![cur[v]] = @ + 1]
    <3>1. done \subseteq done'
      BY <2>3 DEF RunAction, Finish, Crash
    <3>2. f \in [Msgs -> Nat] /\ \A k \in Msgs : f[k] >= freed[k]
      <4>1. ASSUME NEW k \in Msgs PROVE f[k] \in Nat /\ f[k] >= freed[k]
        <5>1. freed[k] \in Nat /\ f[k] = IF k = cur[v] THEN freed[k] + 1 ELSE freed[k]
          BY <1>2
        <5> HIDE DEF f
        <5>2. QED
          BY <5>1
      <4>2. f = [k \in Msgs |-> f[k]]
        BY <1>2
      <4> HIDE DEF f
      <4>3. QED
        BY <4>1, <4>2
    <3>3. freed' = freed \/ freed' = f \/ \E r, m : Send(r, m, f)
      BY <2>3 DEF RunAction, Crash
    <3> HIDE DEF f
    <3>4. \A k \in Msgs : freed'[k] >= f[k] \/ freed'[k] = freed[k]
      BY <1>2, <1>4, <3>2, <3>3
    <3>5. \A k \in Msgs : freed'[k] >= freed[k]
      <4> TAKE k \in Msgs
      <4>1. freed'[k] \in Nat /\ f[k] \in Nat /\ freed[k] \in Nat
        BY <1>1, <1>2, <3>2
      <4>2. QED
        BY <3>2, <3>4, <4>1
    <3>6. QED
      BY <3>1, <3>5
  <2>4. QED
    BY <1>8, <2>1, <2>2, <2>3 DEF Execute
<1>9. ASSUME DestroyMain PROVE Grow
  BY <1>5, <1>9 DEF DestroyMain
<1>10. Grow
  BY <1>6, <1>7, <1>8, <1>9 DEF Next
<1>11. \A m \in Msgs : freed[m] = 1 => freed'[m] = 1
  BY <1>1, <1>2, <1>10
<1>12. QED
  BY <1>10, <1>11 DEF Over

\* What keeps two messages in order: the queues keep their order, and the first
\* one leaves the loop only when it was executed.
LEMMA BeforeKept ==
    ASSUME NEW a \in Msgs, NEW b \in Msgs, Before(a, b), Over(a) => Over(a)',
           \A v \in Boxes : \A i \in 1..Len(box'[v]) :
              box'[v][i] = b =>
                 \E j \in 1..Len(box[v]) :
                    /\ box[v][j] = b
                    /\ \A k \in 1..j - 1 : box[v][k] = a =>
                          Over(a)' \/ cur'[v] = a \/ \E l \in 1..i - 1 : box'[v][l] = a,
           \A v \in Boxes : cur[v] = a => cur'[v] = a \/ Over(a)',
           \A v \in Boxes : cur'[v] = b => Over(a)',
           b \in done' => b \in done \/ Over(a)'
    PROVE  Before(a, b)'
<1>1. ASSUME NEW v \in Boxes, NEW i \in 1..Len(box'[v]), box'[v][i] = b
      PROVE  Over(a)' \/ cur'[v] = a \/ \E l \in 1..i - 1 : box'[v][l] = a
  <2>1. PICK j \in 1..Len(box[v]) :
           /\ box[v][j] = b
           /\ \A k \in 1..j - 1 : box[v][k] = a =>
                 Over(a)' \/ cur'[v] = a \/ \E l \in 1..i - 1 : box'[v][l] = a
    BY <1>1
  <2>2. Over(a) \/ cur[v] = a \/ \E k \in 1..j - 1 : box[v][k] = a
    BY <2>1 DEF Before
  <2>3. QED
    BY <2>1, <2>2
<1>2. b \in done' => Over(a)'
  BY DEF Before
<1>3. QED
  BY <1>1, <1>2 DEF Before

\* A message is put behind those that wait, or no queue changes.
LEMMA BeforeAppend ==
    ASSUME IInv, NEW a \in Msgs, NEW b \in Msgs, Before(a, b), Over(a) => Over(a)',
           NEW w \in Boxes, NEW m \in Msgs, b # m,
           box' = box \/ box' = [box EXCEPT ![w] = Append(@, m)],
           \A v \in Boxes : cur[v] = a => cur'[v] = a \/ Over(a)',
           \A v \in Boxes : cur'[v] = b => Over(a)',
           b \in done' => b \in done \/ Over(a)'
    PROVE  Before(a, b)'
<1>1. ASSUME NEW v \in Boxes, NEW i \in 1..Len(box'[v]), box'[v][i] = b
      PROVE  i \in 1..Len(box[v]) /\ \A k \in 1..i : box'[v][k] = box[v][k]
  <2>1. box \in [Boxes -> Seq(Msgs)]
    BY DEF IInv, Control, TypeOK
  <2>2. CASE box'[v] = box[v]
    BY <1>1, <2>2
  <2>3. CASE v = w /\ box'[v] = Append(box[v], m)
    <3>1. /\ Len(box'[v]) = Len(box[v]) + 1 /\ Len(box[v]) \in Nat
          /\ \A k \in 1..Len(box[v]) : box'[v][k] = box[v][k]
          /\ box'[v][Len(box[v]) + 1] = m
      BY <2>1, <2>3, AppendProperties
    <3>2. QED
      BY <1>1, <3>1
  <2>4. QED
    BY <2>1, <2>2, <2>3
<1>2. QED
  BY <1>1, BeforeKept

\* A once isolate goes forward and keeps its creator.
LEMMA OnceForward ==
    ASSUME IInv, Next, NEW o \in Once
    PROVE  /\ pc[o] # "none" => pc'[o] # "none" /\ parent'[o] = parent[o]
           /\ pc[o] \in {"body", "remove", "gone"} => pc'[o] \in {"body", "remove", "gone"}
<1> USE DEF threads, shared, queues, tables
<1> TypeOK
  BY DEF IInv, Control
<1> DEFINE Goes == /\ pc[o] # "none" => pc'[o] # "none" /\ parent'[o] = parent[o]
                   /\ pc[o] \in {"body", "remove", "gone"} => pc'[o] \in {"body", "remove", "gone"}
<1>1. ASSUME NEW v \in Vms, Create(v) \/ OpenGlobal(v) PROVE Goes
  <2>1. PICK t \in Global \cup Once : pc[t] = "none" /\ pc' = [pc EXCEPT ![t] = "start"]
                                     /\ (parent' = parent \/ \E r : parent' = [parent EXCEPT ![t] = r])
    BY <1>1 DEF Create, OpenGlobal
  <2>2. t # o => pc'[o] = pc[o] /\ parent'[o] = parent[o]
    BY <2>1 DEF TypeOK
  <2>3. QED
    BY <2>1, <2>2
<1>2. ASSUME NEW t \in Global \cup Once, Thread(t) PROVE Goes
  <2>1. parent' = parent
    BY <1>2 DEF Thread, StartOnce, PostSave, EndOnce, PostRemove, TellParent, StartGlobal,
                SaveGlobal, LeaveLoop, RemoveGlobal, CloseGlobal, FreeLooper, Crash
  <2>2. t # o => pc'[o] = pc[o]
    BY <1>2 DEF TypeOK, Thread, StartOnce, PostSave, EndOnce, PostRemove, TellParent, StartGlobal,
                SaveGlobal, LeaveLoop, RemoveGlobal, CloseGlobal, FreeLooper, Crash
  <2>3. CASE t = o
    <3>1. StartOnce(o) \/ PostSave(o) \/ EndOnce(o) \/ PostRemove(o)
      BY <1>2, <2>3 DEF Thread
    <3>2. CASE StartOnce(o)
      BY <2>1, <3>2 DEF TypeOK, StartOnce, Crash
    <3>3. CASE PostSave(o)
      BY <2>1, <3>3 DEF TypeOK, PostSave, TellParent, Crash
    <3>4. CASE EndOnce(o)
      BY <2>1, <3>4 DEF TypeOK, EndOnce
    <3>5. CASE PostRemove(o)
      BY <2>1, <3>5 DEF TypeOK, PostRemove, TellParent, Crash
    <3>6. QED
      BY <3>1, <3>2, <3>3, <3>4, <3>5
  <2>4. QED
    BY <2>1, <2>2, <2>3
<1>3. ASSUME pc' = pc, parent' = parent PROVE Goes
  BY <1>3
<1>4. \/ \E v \in Vms : Create(v) \/ OpenGlobal(v)
      \/ \E t \in Global \cup Once : Thread(t)
      \/ pc' = pc /\ parent' = parent
  BY DEF Next, Script, CloseSelf, RegisterCallback, PostLookup, Callback, PostSend, DestroyMain,
         Execute, Take, RunSaveOrRemove, RunCallback, RunAction, Crash
<1>5. QED
  BY <1>1, <1>2, <1>3, <1>4

LEMMA CallersStep ==
    ASSUME IInv, Callers, Next
    PROVE  Callers'
<1> USE DEF threads, shared, queues, tables
<1> TypeOK
  BY DEF IInv, Control
<1>1. ASSUME NEW j \in Jobs, job'[j] = job[j], job'[j].kind = "callback"
      PROVE  job'[j].from \in Once /\ pc'[job'[j].from] \in {"body", "remove", "gone"}
  BY <1>1, OnceForward DEF Callers
<1>2. ASSUME NEW v \in Vms, PostLookup(v) PROVE Callers'
  <2>1. PICK i \in Jobs : \E r :
            job' = [job EXCEPT ![i] = [kind |-> "action", from |-> v, parent |-> r]]
    BY <1>2 DEF PostLookup
  <2>2. \A j \in Jobs : job'[j] = job[j] \/ job'[j].kind = "action"
    BY <2>1 DEF TypeOK
  <2>3. QED
    BY <1>1, <2>2 DEF Callers
<1>3. ASSUME NEW v \in Vms, Callback(v) PROVE Callers'
  <2>1. CASE job' = job
    BY <1>1, <2>1 DEF Callers
  <2>2. CASE job' # job
    <3>1. PICK i \in Jobs : job' = [job EXCEPT ![i] =
                               [kind |-> "callback", from |-> v, parent |-> NoRef]]
      BY <1>3, <2>2 DEF Callback, Crash
    <3>2. v \in Once /\ pc[v] = "body" /\ pc' = pc
      BY <1>3, <2>2 DEF Callback, MayCall, Crash
    <3>3. \A j \in Jobs : job'[j] = job[j] \/ job'[j].from = v
      BY <3>1 DEF TypeOK
    <3>4. QED
      BY <1>1, <3>2, <3>3 DEF Callers
  <2>3. QED
    BY <2>1, <2>2
<1>4. CASE job' = job
  BY <1>1, <1>4 DEF Callers
<1>5. \/ \E v \in Vms : PostLookup(v) \/ Callback(v)
      \/ job' = job
  BY DEF Next, Script, Create, OpenGlobal, CloseSelf, RegisterCallback, PostSend,
                  DestroyMain, Thread, StartOnce, PostSave, EndOnce, PostRemove,
                  TellParent, StartGlobal, SaveGlobal, LeaveLoop, RemoveGlobal, CloseGlobal, FreeLooper,
                  Execute, Take, RunSaveOrRemove, RunCallback, RunAction, Crash
<1>6. QED
  BY <1>2, <1>3, <1>4, <1>5

\* Only a once isolate that started told its creator something.
LEMMA ToldStarted ==
    ASSUME IInv, Callers, NEW o \in Once, NEW m \in Told(o), Queued(m) \cup Taken(m) # {}
    PROVE  pc[o] # "none"
<1>1. m \in Msgs /\ Allocated(m)
  BY ToldTypes DEF IInv, Owned, OneOwner, Nowhere, At
<1>2. CASE m = <<"save", o>> \/ m = <<"remove", o>>
  BY <1>1, <1>2 DEF Allocated
<1>3. CASE m[1] = "callback" /\ job[m[2]].kind = "callback" /\ job[m[2]].from = o
  <2>1. m[2] \in Jobs
    BY <1>1, <1>3, MessageShape
  <2>2. QED
    BY <1>3, <2>1 DEF Callers
<1>4. QED
  BY <1>1, <1>2, <1>3, ToldTypes

\* A step that posts nothing a creator is told.
LEMMA AtParentKept ==
    ASSUME IInv, Callers, AtParent, Next, \A o \in Once : Told(o)' = Told(o),
           \A m \in Msgs : m[1] \in {"save", "remove", "callback"} =>
              Queued(m)' \cup Taken(m)' \subseteq Queued(m) \cup Taken(m)
    PROVE  AtParent'
<1> SUFFICES ASSUME NEW o \in Once, NEW m \in Told(o), Queued(m) \cup Taken(m) # {}
             PROVE  parent'[o] = parent[o]
  BY ToldTypes, MessageShape DEF AtParent, Told
<1>1. QED
  BY ToldStarted, OnceForward

\* What precedes or follows another is told.
LEMMA PrecedesTypes ==
    ASSUME NEW a \in Msgs, NEW b \in Msgs, Precedes(a, b)
    PROVE  a[1] \in {"save", "callback"} /\ b[1] \in {"callback", "remove"} /\ a # b
BY ToldTypes, MessageShape DEF Precedes

\* The message is executed, perhaps with an answer posted to its sender.
LEMMA FinishOrders ==
    ASSUME IInv, IInv', OrderInv, Next, NEW v \in Boxes, cur[v] \in Msgs, Finish(v), job' = job,
           box' = box \/ \E w \in Boxes, m \in Msgs :
                            m[1] = "reply" /\ box' = [box EXCEPT ![w] = Append(@, m)]
    PROVE  AtParent' /\ Ordered'
<1>1. /\ cur \in [Boxes -> Msgs \cup {NoMsg}] /\ NoMsg \notin Msgs /\ box \in [Boxes -> Seq(Msgs)]
      /\ cur' = [cur EXCEPT ![v] = NoMsg] /\ done' = done \cup {cur[v]}
  BY MessageShape DEF IInv, Control, TypeOK, Finish
<1>2. PICK w \in Boxes, m \in Msgs :
         box' = box \/ (m[1] = "reply" /\ box' = [box EXCEPT ![w] = Append(@, m)])
  OBVIOUS
<1>3. \A o \in Once : Told(o)' = Told(o)
  BY DEF Told
<1>4. \A k \in Msgs : k[1] \in {"save", "remove", "callback"} =>
         Queued(k)' \cup Taken(k)' \subseteq Queued(k) \cup Taken(k)
  <2> SUFFICES ASSUME NEW k \in Msgs, k[1] \in {"save", "remove", "callback"}
               PROVE  Queued(k)' \subseteq Queued(k) /\ Taken(k)' \subseteq Taken(k)
    OBVIOUS
  <2>1. Taken(k)' \subseteq Taken(k)
    BY <1>1 DEF Taken
  <2>2. CASE box' = box
    BY <2>1, <2>2 DEF Queued
  <2>3. CASE m[1] = "reply" /\ box' = [box EXCEPT ![w] = Append(@, m)]
    <3>1. \A u \in Boxes : Contains(box'[u], k) => Contains(box[u], k)
      BY <1>1, <2>3, AppendContains
    <3>2. QED
      BY <2>1, <3>1 DEF Queued
  <2>4. QED
    BY <1>2, <2>2, <2>3
<1>5. AtParent'
  BY <1>3, <1>4, AtParentKept DEF OrderInv
<1>6. ASSUME NEW a \in Msgs, NEW b \in Msgs, Precedes(a, b) PROVE Before(a, b)'
  <2>1. Before(a, b) /\ a # b /\ b[1] # "reply"
    BY <1>6, PrecedesTypes DEF OrderInv, Ordered
  <2>2. PICK m2 \in Msgs : b # m2 /\ (box' = box \/ box' = [box EXCEPT ![w] = Append(@, m2)])
    BY <1>2, <2>1
  <2>3. Over(a) => Over(a)'
    BY OverStays
  <2>4. \A u \in Boxes : cur[u] = a => cur'[u] = a \/ Over(a)'
    BY <1>1 DEF Over
  <2>5. \A u \in Boxes : cur'[u] = b => Over(a)'
    BY <1>1, <2>1, <2>3 DEF Before
  <2>6. b \in done' => b \in done \/ Over(a)'
    BY <1>1, <2>1, <2>3 DEF Before
  <2>7. QED
    BY <2>1, <2>2, <2>3, <2>4, <2>5, <2>6, BeforeAppend
<1>7. \A a, b \in Msgs : Precedes(a, b)' => Precedes(a, b)
  BY <1>3 DEF Precedes
<1>8. QED
  BY <1>5, <1>6, <1>7 DEF Ordered

\* A step that posts nothing a creator is told, and executes nothing.
LEMMA QuietOrders ==
    ASSUME IInv, IInv', OrderInv, Next, UNCHANGED <<cur, done>>, \A o \in Once : Told(o)' = Told(o),
           \/ box' = box
           \/ \E w \in Boxes, m \in Msgs :
                 m[1] = "action" /\ box' = [box EXCEPT ![w] = Append(@, m)]
    PROVE  AtParent' /\ Ordered'
<1>1. box \in [Boxes -> Seq(Msgs)]
  BY DEF IInv, Control, TypeOK
<1>2. \A k \in Msgs : k[1] \in {"save", "remove", "callback"} =>
         Queued(k)' \cup Taken(k)' \subseteq Queued(k) \cup Taken(k)
  <2> SUFFICES ASSUME NEW k \in Msgs, k[1] \in {"save", "remove", "callback"},
                      NEW u \in Boxes, Contains(box'[u], k)
               PROVE  Contains(box[u], k)
    BY DEF Queued, Taken
  <2>1. ASSUME NEW w \in Boxes, NEW m \in Msgs, m[1] = "action", box' = [box EXCEPT ![w] = Append(@, m)]
        PROVE  Contains(box[u], k)
    BY <1>1, <2>1, AppendContains
  <2>2. QED
    BY <2>1
<1>3. AtParent'
  BY <1>2, AtParentKept DEF OrderInv
<1>4. ASSUME NEW a \in Msgs, NEW b \in Msgs, Precedes(a, b) PROVE Before(a, b)'
  <2>1. Before(a, b) /\ a # b /\ b[1] # "action"
    BY <1>4, PrecedesTypes DEF OrderInv, Ordered
  <2>2. Over(a) => Over(a)'
    BY OverStays
  <2>3. \A u \in Boxes : cur'[u] = b => Over(a)'
    BY <2>1, <2>2 DEF Before
  <2>4. PICK w \in Boxes, m \in Msgs : b # m /\ (box' = box \/ box' = [box EXCEPT ![w] = Append(@, m)])
    <3>1. Main \in Boxes
      BY DEF Boxes
    <3>2. QED
      BY <2>1, <3>1
  <2>5. QED
    BY <2>1, <2>2, <2>3, <2>4, BeforeAppend
<1>5. \A a, b \in Msgs : Precedes(a, b)' => Precedes(a, b)
  BY DEF Precedes
<1>6. QED
  BY <1>3, <1>4, <1>5 DEF Ordered


\* The head of a queue is taken.
LEMMA TakeOrders ==
    ASSUME IInv, IInv', OrderInv, Next, NEW v \in Boxes, Take(v)
    PROVE  AtParent' /\ Ordered'
<1> DEFINE s == box[v]
<1>1. /\ cur \in [Boxes -> Msgs \cup {NoMsg}] /\ NoMsg \notin Msgs /\ box \in [Boxes -> Seq(Msgs)]
      /\ cur[v] = NoMsg /\ s # <<>> /\ s \in Seq(Msgs) /\ Distinct(s)
      /\ cur' = [cur EXCEPT ![v] = Head(s)] /\ box' = [box EXCEPT ![v] = Tail(s)]
      /\ UNCHANGED <<job, done, freed>>
  BY MessageShape DEF IInv, Control, Owned, TypeOK, Take
<1> HIDE DEF s
<1>2. /\ Head(s) = s[1] /\ Len(Tail(s)) = Len(s) - 1 /\ Len(s) \in Nat \ {0}
      /\ \A i \in 1..Len(Tail(s)) : Tail(s)[i] = s[i + 1]
      /\ Contains(s, Head(s)) /\ \A m \in Msgs : Contains(Tail(s), m) => Contains(s, m)
  BY <1>1, HeadTailProperties, EmptySeq, TailContains
<1>3. /\ box[v] = s /\ box'[v] = Tail(s) /\ cur'[v] = Head(s)
      /\ \A u \in Boxes \ {v} : box'[u] = box[u] /\ cur'[u] = cur[u]
  BY <1>1 DEF s
<1>4. \A o \in Once : Told(o)' = Told(o)
  BY <1>1 DEF Told
<1>5. \A k \in Msgs : Queued(k)' \cup Taken(k)' \subseteq Queued(k) \cup Taken(k)
  <2> SUFFICES ASSUME NEW k \in Msgs, NEW u \in Boxes
               PROVE  /\ Contains(box'[u], k) => Contains(box[u], k)
                      /\ cur'[u] = k => Contains(box[u], k) \/ cur[u] = k
    BY DEF Queued, Taken
  <2>1. CASE u = v
    BY <1>2, <1>3, <2>1
  <2>2. CASE u # v
    BY <1>3, <2>2
  <2>3. QED
    BY <2>1, <2>2
<1>6. AtParent'
  BY <1>4, <1>5, AtParentKept DEF OrderInv
<1>7. ASSUME NEW a \in Msgs, NEW b \in Msgs, Precedes(a, b) PROVE Before(a, b)'
  <2>1. Before(a, b)
    BY <1>7 DEF OrderInv, Ordered
  <2>2. Over(a) => Over(a)'
    BY OverStays
  <2>3. ASSUME NEW u \in Boxes, NEW i \in 1..Len(box'[u]), box'[u][i] = b
        PROVE  \E j \in 1..Len(box[u]) :
                  /\ box[u][j] = b
                  /\ \A k \in 1..j - 1 : box[u][k] = a =>
                        Over(a)' \/ cur'[u] = a \/ \E l \in 1..i - 1 : box'[u][l] = a
    <3>1. CASE u # v
      BY <1>3, <2>3, <3>1
    <3>2. CASE u = v
      <4>1. i \in 1..Len(Tail(s)) /\ i \in Nat /\ i + 1 \in 1..Len(s) /\ s[i + 1] = b
        BY <1>2, <1>3, <2>3, <3>2
      <4>2. ASSUME NEW k \in 1..i, s[k] = a
            PROVE  cur'[u] = a \/ \E l \in 1..i - 1 : box'[u][l] = a
        <5>1. CASE k = 1
          BY <1>2, <1>3, <3>2, <4>2, <5>1
        <5>2. CASE k # 1
          <6>1. k - 1 \in 1..i - 1 /\ k - 1 \in 1..Len(Tail(s)) /\ (k - 1) + 1 = k
            BY <1>2, <4>1, <5>2
          <6>2. Tail(s)[k - 1] = a
            BY <1>2, <4>2, <6>1
          <6>3. QED
            BY <1>3, <3>2, <6>1, <6>2
        <5>3. QED
          BY <5>1, <5>2
      <4>3. (i + 1) - 1 = i
        BY <4>1
      <4>4. QED
        BY <1>3, <3>2, <4>1, <4>2, <4>3
    <3>3. QED
      BY <3>1, <3>2
  <2>4. \A u \in Boxes : cur[u] = a => cur'[u] = a
    BY <1>1, <1>3
  <2>5. ASSUME NEW u \in Boxes, cur'[u] = b PROVE Over(a)'
    <3>1. CASE u # v
      BY <1>3, <2>1, <2>2, <2>5, <3>1 DEF Before
    <3>2. CASE u = v
      <4>1. 1 \in 1..Len(box[v]) /\ box[v][1] = b /\ cur[v] # a /\ 1..1 - 1 = {}
        BY <1>1, <1>2, <1>3, <2>5, <3>2
      <4>2. QED
        BY <2>1, <2>2, <4>1 DEF Before
    <3>3. QED
      BY <3>1, <3>2
  <2>6. b \in done' => b \in done
    BY <1>1
  <2>7. QED
    BY <2>1, <2>2, <2>3, <2>4, <2>5, <2>6, BeforeKept
<1>8. \A a, b \in Msgs : Precedes(a, b)' => Precedes(a, b)
  BY <1>4 DEF Precedes
<1>9. QED
  BY <1>6, <1>7, <1>8 DEF Ordered

\* The head of a queue is released with its loop.
LEMMA DropOrders ==
    ASSUME IInv, IInv', OrderInv, Next, NEW v \in Boxes, box[v] # <<>>,
           freed' = Discarded(v), box' = [box EXCEPT ![v] = Tail(@)], UNCHANGED <<cur, job, done>>
    PROVE  AtParent' /\ Ordered'
<1> DEFINE s == box[v]
<1>1. /\ cur \in [Boxes -> Msgs \cup {NoMsg}] /\ NoMsg \notin Msgs /\ box \in [Boxes -> Seq(Msgs)]
      /\ s # <<>> /\ s \in Seq(Msgs) /\ Distinct(s) /\ box' = [box EXCEPT ![v] = Tail(s)]
  BY MessageShape DEF IInv, Control, Owned, TypeOK
<1> HIDE DEF s
<1>2. /\ Head(s) = s[1] /\ Len(Tail(s)) = Len(s) - 1 /\ Len(s) \in Nat \ {0}
      /\ \A i \in 1..Len(Tail(s)) : Tail(s)[i] = s[i + 1]
      /\ Contains(s, Head(s)) /\ \A m \in Msgs : Contains(Tail(s), m) => Contains(s, m)
  BY <1>1, HeadTailProperties, EmptySeq, TailContains
<1>3. /\ box[v] = s /\ box'[v] = Tail(s) /\ \A u \in Boxes \ {v} : box'[u] = box[u]
  BY <1>1 DEF s
<1>4. ASSUME NEW a \in Msgs, a = Head(s) PROVE Over(a)'
  <2>1. /\ Head(s) \in Msgs /\ OneOwner(Head(s)) /\ Queued(Head(s)) # {}
        /\ freed'[Head(s)] = freed[Head(s)] + 1
    BY <1>1, <1>2, <1>3, HeadTailProperties DEF IInv, Owned, Queued, Discarded
  <2>2. freed'[Head(s)] = 1
    BY <2>1 DEF OneOwner, InQueue, InLoop, InPost, Settled, Nowhere, At
  <2>3. QED
    BY <1>4, <2>2 DEF Over
<1>5. \A o \in Once : Told(o)' = Told(o)
  BY <1>1 DEF Told
<1>6. \A k \in Msgs : Queued(k)' \cup Taken(k)' \subseteq Queued(k) \cup Taken(k)
  <2> SUFFICES ASSUME NEW k \in Msgs, NEW u \in Boxes
               PROVE  /\ Contains(box'[u], k) => Contains(box[u], k)
                      /\ cur'[u] = k => Contains(box[u], k) \/ cur[u] = k
    BY DEF Queued, Taken
  <2>1. CASE u = v
    BY <1>2, <1>3, <2>1
  <2>2. CASE u # v
    BY <1>3, <2>2
  <2>3. QED
    BY <2>1, <2>2
<1>7. AtParent'
  BY <1>5, <1>6, AtParentKept DEF OrderInv
<1>8. ASSUME NEW a \in Msgs, NEW b \in Msgs, Precedes(a, b) PROVE Before(a, b)'
  <2>1. Before(a, b)
    BY <1>8 DEF OrderInv, Ordered
  <2>2. Over(a) => Over(a)'
    BY OverStays
  <2>3. ASSUME NEW u \in Boxes, NEW i \in 1..Len(box'[u]), box'[u][i] = b
        PROVE  \E j \in 1..Len(box[u]) :
                  /\ box[u][j] = b
                  /\ \A k \in 1..j - 1 : box[u][k] = a =>
                        Over(a)' \/ cur'[u] = a \/ \E l \in 1..i - 1 : box'[u][l] = a
    <3>1. CASE u # v
      BY <1>3, <2>3, <3>1
    <3>2. CASE u = v
      <4>1. i \in 1..Len(Tail(s)) /\ i \in Nat /\ i + 1 \in 1..Len(s) /\ s[i + 1] = b
        BY <1>2, <1>3, <2>3, <3>2
      <4>2. ASSUME NEW k \in 1..i, s[k] = a
            PROVE  Over(a)' \/ \E l \in 1..i - 1 : box'[u][l] = a
        <5>1. CASE k = 1
          BY <1>2, <1>4, <4>2, <5>1
        <5>2. CASE k # 1
          <6>1. k - 1 \in 1..i - 1 /\ k - 1 \in 1..Len(Tail(s)) /\ (k - 1) + 1 = k
            BY <1>2, <4>1, <5>2
          <6>2. Tail(s)[k - 1] = a
            BY <1>2, <4>2, <6>1
          <6>3. QED
            BY <1>3, <3>2, <6>1, <6>2
        <5>3. QED
          BY <5>1, <5>2
      <4>3. (i + 1) - 1 = i
        BY <4>1
      <4>4. QED
        BY <1>3, <3>2, <4>1, <4>2, <4>3
    <3>3. QED
      BY <3>1, <3>2
  <2>4. \A u \in Boxes : cur[u] = a => cur'[u] = a
    BY <1>1, <1>3
  <2>5. ASSUME NEW u \in Boxes, cur'[u] = b PROVE Over(a)'
    BY <2>1, <2>2, <2>5 DEF Before
  <2>6. b \in done' => b \in done
    BY <1>1
  <2>7. QED
    BY <2>1, <2>2, <2>3, <2>4, <2>5, <2>6, BeforeKept
<1>9. \A a, b \in Msgs : Precedes(a, b)' => Precedes(a, b)
  BY <1>5 DEF Precedes
<1>10. QED
  BY <1>7, <1>8, <1>9 DEF Ordered

\* What is not allocated was not executed and is in no loop.
LEMMA NotYet ==
    ASSUME IInv, NEW m \in Msgs, ~Allocated(m)
    PROVE  m \notin done /\ Queued(m) = {} /\ Taken(m) = {}
<1>1. Queued(m) = {} /\ Taken(m) = {} /\ freed[m] = 0 /\ ~Leaked(m)
  BY DEF IInv, Owned, OneOwner, Nowhere, At
<1>2. m \notin done
  BY <1>1, MessageShape DEF IInv, Owned, Leaked
<1>3. QED
  BY <1>1, <1>2

\* What o tells its creator is posted for the first time: what precedes it was
\* posted, what follows it was not.
LEMMA ToldOrders ==
    ASSUME IInv, IInv', OrderInv, Next, NEW o \in Once, NEW m \in Msgs, m \in Told(o)',
           pc[o] # "none", ~Allocated(m), UNCHANGED <<cur, done>>,
           \A p \in Once : Told(p)' \subseteq Told(p) \cup {m},
           \/ box' = box
           \/ parent[o].vm \in Boxes /\ box' = [box EXCEPT ![parent[o].vm] = Append(@, m)],
           \A k \in Msgs : k \in Told(o)' /\ k # m =>
              /\ k[1] = "save" \/ m[1] = "remove" => Allocated(k)'
              /\ m[1] = "save" \/ k[1] = "remove" => ~Allocated(k)'
    PROVE  AtParent' /\ Ordered'
<1> DEFINE w == parent[o].vm
<1>1. box \in [Boxes -> Seq(Msgs)] /\ m \notin done /\ Queued(m) = {} /\ Taken(m) = {}
  BY NotYet DEF IInv, Control, TypeOK
<1>2. parent'[o].vm = w
  BY OnceForward
<1>3. box' = box \/ (w \in Boxes /\ box' = [box EXCEPT ![w] = Append(box[w], m)])
  BY <1>1
<1> HIDE DEF w
<1>4. \A v \in Boxes, k \in Msgs :
         Contains(box'[v], k) => Contains(box[v], k) \/ (k = m /\ v = w)
  <2>1. CASE box' = box
    BY <2>1
  <2>2. CASE w \in Boxes /\ box' = [box EXCEPT ![w] = Append(box[w], m)]
    <3>1. box'[w] = Append(box[w], m) /\ \A v \in Boxes \ {w} : box'[v] = box[v]
      BY <1>1, <2>2
    <3>2. \A k \in Msgs : Contains(box'[w], k) => Contains(box[w], k) \/ k = m
      BY <1>1, <2>2, <3>1, AppendContains
    <3> SUFFICES ASSUME NEW v \in Boxes, NEW k \in Msgs, Contains(box'[v], k)
                 PROVE  Contains(box[v], k) \/ (k = m /\ v = w)
      OBVIOUS
    <3>3. v # w => Contains(box[v], k)
      BY <3>1
    <3>4. QED
      BY <3>2, <3>3
  <2>3. QED
    BY <1>3, <2>1, <2>2
<1>5. AtParent'
  <2> SUFFICES ASSUME NEW p \in Once, NEW k \in Told(p)'
               PROVE  (Queued(k) \cup Taken(k))' \subseteq {parent'[p].vm}
    BY DEF AtParent
  <2>1. k \in Msgs
    BY ToldTypes
  <2>2. CASE k = m
    <3>1. p = o
      BY <2>2, MessageShape DEF Told
    <3>2. Queued(m)' \cup Taken(m)' \subseteq {w}
      BY <1>1, <1>4 DEF Queued, Taken
    <3>3. QED
      BY <1>2, <2>2, <3>1, <3>2
  <2>3. CASE k # m
    <3>1. k \in Told(p) /\ Queued(k)' \cup Taken(k)' \subseteq Queued(k) \cup Taken(k)
      BY <1>4, <2>1, <2>3 DEF Queued, Taken
    <3>2. Queued(k) \cup Taken(k) # {} => parent'[p] = parent[p]
      BY <2>1, <3>1, ToldStarted, OnceForward DEF OrderInv
    <3>3. Queued(k) \cup Taken(k) \subseteq {parent[p].vm}
      BY <3>1 DEF OrderInv, AtParent
    <3>4. Queued(k)' \cup Taken(k)' \subseteq {parent'[p].vm}
      BY <3>1, <3>2, <3>3
    <3>5. QED
      BY <3>4
  <2>4. QED
    BY <2>2, <2>3
<1>6. ASSUME NEW a \in Msgs, NEW b \in Msgs, NEW p \in Once, a \in Told(p)', b \in Told(p)', a # b,
             a[1] = "save" \/ b[1] = "remove"
      PROVE  Before(a, b)'
  <2>1. CASE b = m
    <3>1. p = o /\ Allocated(a)'
      BY <1>6, <2>1, MessageShape DEF Told
    <3>2. Over(a)' \/ cur'[w] = a \/ (w \in Boxes /\ Contains(box'[w], a))
      <4>1. InQueue(a)' \/ InLoop(a)' \/ InPost(a)' \/ Settled(a)'
        BY <3>1 DEF IInv, Owned, OneOwner
      <4>2. Queued(a)' \cup Taken(a)' \subseteq {w}
        BY <1>2, <1>5, <1>6, <3>1 DEF AtParent
      <4>3. ~InPost(a)'
        <5>1. a[1] # "action"
          BY <1>6, MessageShape DEF Told
        <5>2. op' \in [Vms -> [to : Global, msg : {"action"} \X Jobs] \cup {NoOp}] /\ NoMsg \notin Msgs
          BY MessageShape DEF IInv, Control, TypeOK
        <5>3. QED
          BY <5>1, <5>2 DEF InPost, At, Pending, NoOp
      <4>4. CASE InQueue(a)'
        BY <4>2, <4>4 DEF InQueue, At, Queued
      <4>5. CASE InLoop(a)'
        BY <4>2, <4>5 DEF InLoop, At, Taken
      <4>6. CASE Settled(a)'
        BY <4>6 DEF Settled, At, Leaked, Over
      <4>7. QED
        BY <4>1, <4>3, <4>4, <4>5, <4>6
    <3>3. ASSUME NEW v \in Boxes, NEW i \in 1..Len(box'[v]), box'[v][i] = m
          PROVE  Over(a)' \/ cur'[v] = a \/ \E k \in 1..i - 1 : box'[v][k] = a
      <4>1. ~Contains(box[v], m) /\ Contains(box'[v], m)
        BY <1>1, <3>3 DEF Queued, Contains
      <4>2. v = w /\ box'[v] = Append(box[v], m) /\ box[v] \in Seq(Msgs)
        BY <1>1, <1>3, <4>1
      <4>3. /\ Len(box'[v]) = Len(box[v]) + 1 /\ Len(box[v]) \in Nat
            /\ \A k \in 1..Len(box[v]) : box'[v][k] = box[v][k]
            /\ box'[v][Len(box[v]) + 1] = m
        BY <4>2, AppendProperties
      <4>4. i = Len(box[v]) + 1
        BY <3>3, <4>1, <4>3 DEF Contains
      <4>5. Contains(box'[v], a) => \E k \in 1..i - 1 : box'[v][k] = a
        BY <1>6, <2>1, <4>3, <4>4 DEF Contains
      <4>6. QED
        BY <3>2, <4>2, <4>5
    <3>4. \A v \in Boxes : cur'[v] # m
      BY <1>1 DEF Taken
    <3>5. QED
      BY <1>1, <2>1, <3>3, <3>4 DEF Before
  <2>2. CASE a = m
    <3>1. ~Allocated(b)'
      <4>1. p = o
        BY <1>6, <2>2, MessageShape DEF Told
      <4>2. QED
        BY <1>6, <2>2, <4>1
    <3>2. Queued(b)' = {} /\ Taken(b)' = {} /\ freed'[b] = 0 /\ ~Leaked(b)'
      BY <3>1 DEF IInv, Owned, OneOwner, Nowhere, At
    <3>3. b \notin done'
      BY <3>2, MessageShape DEF IInv, Owned, Leaked
    <3>4. QED
      BY <3>2, <3>3 DEF Before, Queued, Taken, Contains
  <2>3. CASE a # m /\ b # m
    <3>1. Before(a, b)
      BY <1>6, <2>3 DEF OrderInv, Ordered, Precedes
    <3>2. Over(a) => Over(a)'
      BY OverStays
    <3>3. \A v \in Boxes : cur'[v] = b => Over(a)'
      BY <3>1, <3>2 DEF Before
    <3>4. PICK u \in Boxes : box' = box \/ box' = [box EXCEPT ![u] = Append(@, m)]
      BY <1>3 DEF Boxes
    <3>5. QED
      BY <2>3, <3>1, <3>2, <3>3, <3>4, BeforeAppend
  <2>4. QED
    BY <2>1, <2>2, <2>3
<1>7. QED
  BY <1>5, <1>6 DEF Ordered, Precedes


\* Where a post that is accepted puts the message.
LEMMA SendPuts ==
    ASSUME IInv, NEW r \in Refs, PointsRight(r), NEW m \in Msgs, NEW f, Send(r, m, f)
    PROVE  box' = box \/ (r.vm \in Boxes /\ box' = [box EXCEPT ![r.vm] = Append(@, m)])
BY PostOutcome DEF Send, Enqueue, IInv, Control

\* A step that does not touch the arguments.
LEMMA StillOrders ==
    ASSUME IInv, IInv', OrderInv, Next, UNCHANGED <<box, cur, done, job>>
    PROVE  AtParent' /\ Ordered'
<1>1. \A o \in Once : Told(o)' = Told(o)
  BY DEF Told
<1>2. QED
  BY <1>1, QuietOrders

LEMMA TellParentOrders ==
    ASSUME IInv, IInv', OrderInv, Next, NEW o \in Once, PostSave(o) \/ PostRemove(o)
    PROVE  AtParent' /\ Ordered'
<1> USE DEF threads, shared, queues, tables
<1>1. CASE PointerFault(parent[o]) # "none"
  BY <1>1, StillOrders DEF PostSave, PostRemove, TellParent, Crash
<1>2. CASE PointerFault(parent[o]) = "none"
  <2>1. PICK kind \in {"save", "remove"}, next \in {"body", "gone"} :
           /\ pc[o] = kind /\ TellParent(o, kind, next)
           /\ kind = "save" <=> next = "body"
    BY DEF PostSave, PostRemove
  <2>2. /\ Send(parent[o], <<kind, o>>, freed) /\ pc' = [pc EXCEPT ![o] = next]
        /\ UNCHANGED <<job, cur, done>>
    BY <1>2, <2>1 DEF TellParent
  <2>3. <<kind, o>> \in Msgs /\ parent[o] \in Refs /\ PointsRight(parent[o]) /\ pc'[o] = next
    BY <2>1, <2>2, MessageShape DEF IInv, Control, Started, RefsGood, TypeOK
  <2>4. \/ box' = box
        \/ parent[o].vm \in Boxes /\ box' = [box EXCEPT ![parent[o].vm] = Append(@, <<kind, o>>)]
    BY <2>2, <2>3, SendPuts
  <2>5. \A p \in Once : Told(p)' = Told(p)
    BY <2>2 DEF Told
  <2>6. <<kind, o>> \in Told(o)' /\ ~Allocated(<<kind, o>>)
    BY <2>1 DEF Told, Allocated
  <2>7. ASSUME NEW k \in Msgs, k \in Told(o)', k # <<kind, o>>
        PROVE  /\ k[1] = "save" \/ kind = "remove" => Allocated(k)'
               /\ kind = "save" \/ k[1] = "remove" => ~Allocated(k)'
    <3>1. \/ k = <<"save", o>> \/ k = <<"remove", o>>
          \/ k[1] = "callback" /\ job[k[2]].kind = "callback" /\ job[k[2]].from = o
      BY <2>5, <2>7, ToldTypes
    <3>2. CASE k = <<"save", o>>
      <4>1. kind = "remove" /\ pc'[o] = "gone"
        BY <2>1, <2>3, <2>7, <3>2
      <4>2. QED
        BY <3>2, <4>1 DEF Allocated
    <3>3. CASE k = <<"remove", o>>
      <4>1. kind = "save" /\ pc'[o] = "body"
        BY <2>1, <2>3, <2>7, <3>3
      <4>2. QED
        BY <3>3, <4>1 DEF Allocated
    <3>4. CASE k[1] = "callback" /\ job[k[2]].kind = "callback" /\ job[k[2]].from = o
      <4>1. k[2] \in Jobs
        BY <2>7, <3>4, MessageShape
      <4>2. kind = "remove"
        BY <2>1, <3>4, <4>1 DEF OrderInv, Callers
      <4>3. Allocated(k)'
        BY <2>2, <3>4 DEF Allocated
      <4>4. QED
        BY <3>4, <4>2, <4>3
    <3>5. QED
      BY <3>1, <3>2, <3>3, <3>4
  <2>8. pc[o] # "none"
    BY <2>1
  <2>9. PICK m \in Msgs : m = <<kind, o>> /\ m[1] = kind
    BY <2>3
  <2>10. QED
    BY <2>2, <2>4, <2>5, <2>6, <2>7, <2>8, <2>9, ToldOrders
<1>3. QED
  BY <1>1, <1>2

LEMMA CallbackOrders ==
    ASSUME IInv, IInv', OrderInv, Next, NEW o \in Vms, Callback(o)
    PROVE  AtParent' /\ Ordered'
<1> USE DEF threads, shared, queues, tables
<1>1. CASE o \notin Once \/ LooperFault(parent[o]) # "none"
  BY <1>1, StillOrders DEF Callback, Crash
<1>2. CASE o \in Once /\ LooperFault(parent[o]) = "none"
  <2>1. PICK j \in Jobs :
           /\ job[j] = NoJob
           /\ job' = [job EXCEPT ![j] = [kind |-> "callback", from |-> o, parent |-> NoRef]]
           /\ Send(parent[o], <<"callback", j>>, freed)
    BY <1>2 DEF Callback
  <2>2. pc[o] = "body" /\ UNCHANGED <<pc, cur, done>>
    BY <1>2 DEF Callback, MayCall
  <2>3. PICK m \in Msgs : m = <<"callback", j>> /\ m[1] = "callback"
    BY MessageShape
  <2>4. parent[o] \in Refs /\ PointsRight(parent[o])
    BY <1>2, <2>2 DEF IInv, Control, Started, RefsGood
  <2>5. \/ box' = box
        \/ parent[o].vm \in Boxes /\ box' = [box EXCEPT ![parent[o].vm] = Append(@, m)]
    BY <2>1, <2>3, <2>4, SendPuts
  <2>6. /\ job'[j] = [kind |-> "callback", from |-> o, parent |-> NoRef]
        /\ \A i \in Jobs \ {j} : job'[i] = job[i]
    BY <2>1 DEF IInv, Control, TypeOK
  <2>7. ASSUME NEW p \in Once PROVE Told(p)' \subseteq Told(p) \cup {m}
    BY <2>3, <2>6 DEF Told
  <2>8. m \in Told(o)' /\ ~Allocated(m)
    BY <2>1, <2>3, <2>6 DEF Told, Allocated, NoJob
  <2>9. ASSUME NEW k \in Msgs, k \in Told(o)', k # m
        PROVE  /\ k[1] = "save" \/ m[1] = "remove" => Allocated(k)'
               /\ m[1] = "save" \/ k[1] = "remove" => ~Allocated(k)'
    <3>1. k = <<"save", o>> \/ k = <<"remove", o>> \/ k[1] = "callback"
      BY <2>9 DEF Told
    <3>2. QED
      BY <2>2, <2>3, <3>1 DEF Allocated
  <2>10. pc[o] # "none"
    BY <2>2
  <2>11. QED
    BY <1>2, <2>2, <2>5, <2>7, <2>8, <2>9, <2>10, ToldOrders
<1>3. QED
  BY <1>1, <1>2

LEMMA PostOrders ==
    ASSUME IInv, IInv', OrderInv, Next, NEW v \in Vms, PostLookup(v) \/ PostSend(v)
    PROVE  AtParent' /\ Ordered'
<1> USE DEF threads, shared, queues, tables
<1>1. CASE PostLookup(v)
  <2>1. PICK j \in Jobs : \E r :
           /\ job[j] = NoJob
           /\ job' = [job EXCEPT ![j] = [kind |-> "action", from |-> v, parent |-> r]]
    BY <1>1 DEF PostLookup
  <2>2. \A i \in Jobs : job'[i] = job[i] \/ (job'[i].kind = "action" /\ job[i].kind = "none")
    BY <2>1 DEF IInv, Control, TypeOK, NoJob
  <2>3. \A o \in Once : Told(o)' = Told(o)
    BY <2>2 DEF Told
  <2>4. UNCHANGED <<box, cur, done>>
    BY <1>1 DEF PostLookup
  <2>5. QED
    BY <2>3, <2>4, QuietOrders
<1>2. CASE PostSend(v)
  <2> DEFINE r == [type |-> "global", vm |-> op[v].to]
  <2>1. /\ r \in Refs /\ PointsRight(r) /\ op[v].msg \in Msgs /\ op[v].msg[1] = "action"
    <3>1. op[v] \in [to : Global, msg : {"action"} \X Jobs]
      BY <1>2 DEF PostSend, IInv, Control, TypeOK
    <3>2. op[v].to \in Global /\ op[v].msg \in {"action"} \X Jobs
      BY <3>1
    <3>3. r \in Refs /\ PointsRight(r)
      BY <3>2 DEF Refs, PointsRight, Vms
    <3>4. QED
      BY <3>2, <3>3 DEF Msgs
  <2>2. /\ UNCHANGED <<cur, done, job>>
        /\ box' = box \/ Send(r, op[v].msg, freed)
    BY <1>2 DEF PostSend, Crash
  <2>3. \A o \in Once : Told(o)' = Told(o)
    BY <2>2 DEF Told
  <2>4. box' = box \/ (r.vm \in Boxes /\ box' = [box EXCEPT ![r.vm] = Append(@, op[v].msg)])
    BY <2>1, <2>2, SendPuts
  <2> HIDE DEF r
  <2>5. \/ box' = box
        \/ \E u \in Boxes, m \in Msgs : m[1] = "action" /\ box' = [box EXCEPT ![u] = Append(@, m)]
    BY <2>1, <2>4
  <2>6. QED
    BY <2>2, <2>3, <2>5, QuietOrders
<1>3. QED
  BY <1>1, <1>2

LEMMA RunOrders ==
    ASSUME IInv, IInv', OrderInv, Next, NEW v \in Boxes,
           RunSaveOrRemove(v) \/ RunCallback(v) \/ (v \in Global /\ RunAction(v))
    PROVE  AtParent' /\ Ordered'
<1> USE DEF threads, shared, queues, tables
<1>1. cur[v] \in Msgs
  BY MessageShape DEF IInv, Control, TypeOK, RunSaveOrRemove, RunCallback, RunAction, NoMsg
<1>2. CASE Finish(v)
  <2>1. job' = job
    BY DEF RunSaveOrRemove, RunCallback, RunAction, Crash
  <2>2. CASE RunSaveOrRemove(v) \/ RunCallback(v)
    <3>1. box' = box
      BY <2>2 DEF RunSaveOrRemove, RunCallback, Crash
    <3>2. QED
      BY <1>1, <1>2, <2>1, <3>1, FinishOrders
  <2>3. CASE v \in Global /\ RunAction(v)
    <3> DEFINE j == cur[v][2]
               r == job[j].parent
    <3>1. j \in Jobs /\ <<"reply", j>> \in Msgs
      BY <1>1, <2>3, MessageShape DEF RunAction
    <3>2. box' = box \/ (WantsReply(r) /\ \E f : Send(r, <<"reply", j>>, f))
      BY <2>3 DEF RunAction, Crash
    <3>3. WantsReply(r) => r \in Refs /\ PointsRight(r)
      <4>1. job[j].parent \in Refs \cup {NoRef} /\ PointsRight(job[j].parent)
        BY <3>1 DEF IInv, Control, TypeOK, RefsGood, NoJob
      <4>2. ~WantsReply(NoRef)
        BY DEF WantsReply, NoRef
      <4>3. QED
        BY <4>1, <4>2
    <3>4. PICK m \in Msgs : m = <<"reply", j>> /\ m[1] = "reply"
      BY <3>1
    <3> HIDE DEF j, r
    <3>5. box' = box \/ (r.vm \in Boxes /\ box' = [box EXCEPT ![r.vm] = Append(@, m)])
      BY <3>2, <3>3, <3>4, SendPuts
    <3>6. \/ box' = box
          \/ \E w \in Boxes, k \in Msgs : k[1] = "reply" /\ box' = [box EXCEPT ![w] = Append(@, k)]
      BY <3>4, <3>5
    <3>7. QED
      BY <1>1, <1>2, <2>1, <3>6, FinishOrders
  <2>4. QED
    BY <2>2, <2>3
<1>3. CASE ~Finish(v)
  BY <1>3, StillOrders DEF RunSaveOrRemove, RunCallback, RunAction, Crash
<1>4. QED
  BY <1>2, <1>3

LEMMA OrderStep == IInv /\ IInv' /\ OrderInv /\ [Next]_vars => OrderInv'
<1> SUFFICES ASSUME IInv, IInv', OrderInv, [Next]_vars PROVE OrderInv'
  OBVIOUS
<1> USE DEF threads, shared, queues, tables
<1>1. CASE UNCHANGED vars
  BY <1>1 DEF vars, OrderInv, Callers, AtParent, Told, Queued, Taken, Ordered, Precedes, Before, Over
<1>2. CASE Next
  <2>1. Callers'
    BY <1>2, CallersStep DEF OrderInv
  <2>2. ASSUME NEW v \in Vms, Script(v) \/ PostSend(v) PROVE AtParent' /\ Ordered'
    <3>1. CASE Callback(v)
      BY <1>2, <3>1, CallbackOrders
    <3>2. CASE PostLookup(v) \/ PostSend(v)
      BY <1>2, <3>2, PostOrders
    <3>3. CASE Create(v) \/ OpenGlobal(v) \/ CloseSelf(v) \/ RegisterCallback(v)
      BY <1>2, <3>3, StillOrders DEF Create, OpenGlobal, CloseSelf, RegisterCallback
    <3>4. QED
      BY <2>2, <3>1, <3>2, <3>3 DEF Script
  <2>3. ASSUME DestroyMain PROVE AtParent' /\ Ordered'
    <3>1. UNCHANGED <<box, cur, done, job>>
      BY <2>3 DEF DestroyMain
    <3>2. QED
      BY <1>2, <3>1, StillOrders
  <2>4. ASSUME NEW t \in Global \cup Once, Thread(t) PROVE AtParent' /\ Ordered'
    <3>1. CASE t \in Once /\ (PostSave(t) \/ PostRemove(t))
      BY <1>2, <3>1, TellParentOrders
    <3>2. CASE t \in Global /\ FreeLooper(t)
      <4>1. t \in Boxes /\ box \in [Boxes -> Seq(Msgs)]
        BY <3>2 DEF Boxes, IInv, Control, TypeOK
      <4>2. CASE UNCHANGED <<box, cur, done, job>>
        BY <1>2, <4>2, StillOrders
      <4>3. CASE ~UNCHANGED <<box, cur, done, job>>
        <5>1. /\ freed' = Discarded(t) /\ UNCHANGED <<cur, done, job>>
              /\ box' = [box EXCEPT ![t] = IF @ = <<>> THEN @ ELSE Tail(@)]
          BY <3>2, <4>3 DEF FreeLooper, Crash
        <5>2. box[t] # <<>>
          BY <4>1, <4>3, <5>1
        <5>3. box' = [box EXCEPT ![t] = Tail(@)]
          BY <4>1, <5>1, <5>2
        <5>4. QED
          BY <1>2, <4>1, <5>1, <5>2, <5>3, DropOrders
      <4>4. QED
        BY <4>2, <4>3
    <3>3. CASE UNCHANGED <<box, cur, done, job>>
      BY <1>2, <3>3, StillOrders
    <3>4. \/ t \in Once /\ (PostSave(t) \/ PostRemove(t))
          \/ t \in Global /\ FreeLooper(t)
          \/ UNCHANGED <<box, cur, done, job>>
      BY <2>4 DEF Thread, StartOnce, EndOnce, StartGlobal, SaveGlobal, LeaveLoop, RemoveGlobal, CloseGlobal, Crash
    <3>5. QED
      BY <3>1, <3>2, <3>3, <3>4
  <2>5. ASSUME NEW v \in Boxes, Execute(v) PROVE AtParent' /\ Ordered'
    BY <1>2, <2>5, TakeOrders, RunOrders DEF Execute
  <2>6. QED
    BY <1>2, <2>1, <2>2, <2>3, <2>4, <2>5 DEF Next, OrderInv
<1>3. QED
  BY <1>1, <1>2

LEMMA OrderInit == Init => OrderInv
<1> SUFFICES ASSUME Init PROVE OrderInv
  OBVIOUS
<1>1. Callers
  BY DEF Init, Callers, NoJob
<1>2. \A m \in Msgs : Queued(m) = {} /\ Taken(m) = {} /\ m \notin done
  BY MessageShape DEF Init, Queued, Taken, Contains
<1>3. AtParent
  BY <1>2, ToldTypes DEF AtParent
<1>4. Ordered
  BY <1>2 DEF Ordered, Before, Queued, Taken, Contains
<1>5. QED
  BY <1>1, <1>3, <1>4 DEF OrderInv

\* The messages of a child stand in its creator's queue in the order it sent
\* them (save_or_remove_in_post, callback), and each has one owner.
THEOREM OrderInvariance == Spec => [](IInv /\ OrderInv)
<1>1. Init => IInv /\ OrderInv
  BY InvariantInit, OrderInit
<1>2. IInv /\ OrderInv /\ [Next]_vars => (IInv /\ OrderInv)'
  BY InvariantStep, OrderStep
<1>3. QED
  BY <1>1, <1>2, PTL DEF Spec

\* What a once isolate tells its creator (that it began, its callbacks, that it
\* ended: isolate.c in_thread, isolate.callback) is executed in that order, or
\* was freed without being executed.
THEOREM InOrder == Spec => []ChildOrder
<1>1. IInv /\ OrderInv => ChildOrder
  <2> SUFFICES ASSUME IInv, OrderInv, NEW o \in Once
               PROVE  /\ \A j \in Jobs : job[j].kind = "callback" /\ job[j].from = o =>
                           /\ <<"callback", j>> \in done => freed[<<"save", o>>] = 1
                           /\ <<"remove", o>> \in done =>
                                 <<"callback", j>> \in done \/ freed[<<"callback", j>>] = 1
                      /\ <<"remove", o>> \in done => freed[<<"save", o>>] = 1
    BY DEF ChildOrder
  <2>1. /\ <<"save", o>> \in Told(o) /\ <<"remove", o>> \in Told(o)
        /\ <<"save", o>> \in Msgs /\ <<"remove", o>> \in Msgs /\ <<"save", o>> # <<"remove", o>>
    BY MessageShape DEF Told
  <2>2. Over(<<"save", o>>) => freed[<<"save", o>>] = 1
    BY DEF Over, IInv, Owned
  <2>3. <<"remove", o>> \in done => freed[<<"save", o>>] = 1
    <3>1. Precedes(<<"save", o>>, <<"remove", o>>)
      BY <2>1 DEF Precedes
    <3>2. QED
      BY <2>1, <2>2, <3>1 DEF OrderInv, Ordered, Before
  <2>4. ASSUME NEW j \in Jobs, job[j].kind = "callback", job[j].from = o
        PROVE  /\ <<"callback", j>> \in done => freed[<<"save", o>>] = 1
               /\ <<"remove", o>> \in done => Over(<<"callback", j>>)
    <3>1. PICK m \in Msgs : m = <<"callback", j>>
      BY MessageShape
    <3>2. m \in Told(o)
      BY <2>4, <3>1 DEF Told
    <3>3. m # <<"save", o>> /\ m # <<"remove", o>>
      BY <3>1
    <3>4. Precedes(<<"save", o>>, m) /\ Precedes(m, <<"remove", o>>)
      BY <2>1, <3>2, <3>3 DEF Precedes
    <3>5. Before(<<"save", o>>, m) /\ Before(m, <<"remove", o>>)
      BY <2>1, <3>4 DEF OrderInv, Ordered
    <3>6. QED
      BY <2>2, <3>1, <3>5 DEF Before
  <2>5. QED
    BY <2>3, <2>4 DEF Over
<1>2. QED
  BY <1>1, OrderInvariance, PTL


----------------------------------------------------------------------------
(***************************************************************************)
(* The table of children, as long as names differ: it has the names of the *)
(* children that run, and their number.                                    *)
(***************************************************************************)
Unnamed == \A o \in Once : pc[o] = "none" => name[o] = Null

Fits(v) ==
    /\ children[v].names = {name[o] : o \in Running(v)}
    /\ IsFiniteSet(Running(v)) /\ children[v].num = Cardinality(Running(v))

Counted == NamesDiffer => \A v \in Boxes : vm[v] = "open" => Fits(v)

CountInv == PhaseInv /\ OrderInv /\ Unnamed /\ Counted

\* A name is given once.
LEMMA NamesStay ==
    ASSUME IInv, Next, Unnamed, NEW o \in Once
    PROVE  /\ pc[o] # "none" => name'[o] = name[o]
           /\ name[o] # Null => name'[o] = name[o]
           /\ pc'[o] = "none" => name'[o] = Null
<1> USE DEF threads, shared, queues, tables
<1> TypeOK
  BY DEF IInv, Control
<1> DEFINE Same == /\ pc[o] # "none" => name'[o] = name[o]
                   /\ name[o] # Null => name'[o] = name[o]
                   /\ pc'[o] = "none" => name'[o] = Null
<1>1. ASSUME NEW v \in Vms, Create(v) \/ OpenGlobal(v) PROVE Same
  <2>1. PICK t \in Global \cup Once : \E n : /\ pc[t] = "none" /\ pc' = [pc EXCEPT ![t] = "start"]
                                             /\ name' = [name EXCEPT ![t] = n]
    BY <1>1 DEF Create, OpenGlobal
  <2>2. o \in Vms /\ t \in Vms
    BY DEF Vms
  <2>3. CASE t = o
    BY <2>1, <2>2, <2>3 DEF TypeOK, Unnamed
  <2>4. CASE t # o
    BY <2>1, <2>2, <2>4 DEF TypeOK, Unnamed
  <2>5. QED
    BY <2>3, <2>4
<1>2. CASE ~\E v \in Vms : Create(v) \/ OpenGlobal(v)
  <2>1. name' = name
    BY <1>2 DEF Next, Script, CloseSelf, RegisterCallback, PostLookup, Callback, PostSend,
                DestroyMain, Thread, StartOnce, PostSave, EndOnce, PostRemove,
                TellParent, StartGlobal, SaveGlobal, LeaveLoop, RemoveGlobal, CloseGlobal, FreeLooper,
                Execute, Take, RunSaveOrRemove, RunCallback, RunAction, Crash
  <2>2. QED
    BY <2>1, OnceForward DEF Unnamed
<1>3. QED
  BY <1>1, <1>2

LEMMA NamesDiffered ==
    ASSUME IInv, Next, Unnamed, NamesDiffer'
    PROVE  NamesDiffer
<1> SUFFICES ASSUME NEW o \in Once, NEW p \in Once, o # p, name[o] # Null, name[o] = name[p]
             PROVE  FALSE
  BY DEF NamesDiffer
<1>1. name'[o] = name[o] /\ name'[p] = name[p]
  BY NamesStay
<1>2. QED
  BY <1>1 DEF NamesDiffer

\* A child of which something was executed has its name and its creator.
LEMMA ChildKept ==
    ASSUME IInv, Next, Unnamed, NEW o \in Once,
           <<"save", o>> \in done \/ cur[parent[o].vm] \in {<<"save", o>>, <<"remove", o>>},
           parent[o].vm \in Boxes
    PROVE  pc[o] # "none" /\ name[o] \in Names /\ name'[o] = name[o] /\ parent'[o] = parent[o]
<1>1. PICK m \in Msgs : (m = <<"save", o>> \/ m = <<"remove", o>>) /\ (m \in done \/ Taken(m) # {})
  BY MessageShape DEF Taken
<1>2. Allocated(m)
  BY <1>1, NotYet
<1>3. pc[o] # "none"
  BY <1>1, <1>2 DEF Allocated
<1>4. QED
  BY <1>3, NamesStay, OnceForward DEF IInv, Control, Started

\* As long as no loop hears of a child the table stays.
LEMMA FitsKept ==
    ASSUME IInv, Next, Unnamed, NEW v \in Boxes, Fits(v), children'[v] = children[v],
           \A o \in Once : /\ <<"save", o>> \in done' <=> <<"save", o>> \in done
                           /\ parent[o].vm = v =>
                                 (<<"remove", o>> \in done' <=> <<"remove", o>> \in done)
    PROVE  Fits(v)'
<1>1. ASSUME NEW o \in Once, <<"save", o>> \in done
      PROVE  name'[o] = name[o] /\ parent'[o] = parent[o]
  <2>1. PICK m \in Msgs : m = <<"save", o>>
    BY MessageShape
  <2>2. Allocated(m)
    BY <1>1, <2>1, NotYet
  <2>3. pc[o] # "none"
    BY <2>1, <2>2 DEF Allocated
  <2>4. QED
    BY <2>3, NamesStay, OnceForward
<1>2. Running(v)' = Running(v)
  BY <1>1 DEF Running
<1>3. {name'[o] : o \in Running(v)} = {name[o] : o \in Running(v)}
  BY <1>1 DEF Running
<1>4. QED
  BY <1>2, <1>3 DEF Fits

LEMMA SaveOrRemoveCounts ==
    ASSUME CountInv, IInv', Next, NEW v \in Boxes, RunSaveOrRemove(v), NamesDiffer',
           NEW u \in Boxes, vm'[u] = "open"
    PROVE  Fits(u)'
<1> USE DEF threads, shared, queues, tables
<1>0. IInv /\ OrderInv /\ Unnamed /\ NamesDiffer
  BY NamesDiffered DEF CountInv, PhaseInv
<1>1. PICK m \in Msgs : m = cur[v] /\ m[1] \in {"save", "remove"}
  BY <1>0, MessageShape DEF RunSaveOrRemove, IInv, Control, TypeOK, NoMsg
<1>2. PICK o \in Once : m = <<m[1], o>> /\ m[2] = o
  BY <1>1, MessageShape
<1>3. /\ done' = done \cup {m} /\ vm' = vm /\ name' = name /\ parent' = parent
      /\ children' = IF vm[v] # "open" THEN children
                     ELSE [children EXCEPT ![v] =
                             IF m[1] = "save" THEN SaveChild(@, name[o])
                                              ELSE RemoveChild(@, name[o])]
  BY <1>1, <1>2 DEF RunSaveOrRemove, Finish
<1>4. parent[o].vm = v
  <2>1. m \in Told(o) /\ v \in Taken(m)
    BY <1>1, <1>2 DEF Told, Taken
  <2>2. QED
    BY <1>0, <2>1 DEF OrderInv, AtParent
<1>5. m \notin done /\ freed[m] = 0
  <2>1. v \in Taken(m)
    BY <1>1 DEF Taken
  <2>2. InLoop(m)
    BY <1>0, <2>1 DEF IInv, Owned, OneOwner, InQueue, InLoop, InPost, Settled, Nowhere, At
  <2>3. freed[m] = 0
    BY <2>2 DEF InLoop, At
  <2>4. QED
    BY <1>0, <1>1, <2>3 DEF IInv, Owned
<1>6. Fits(u)
  BY <1>0, <1>3 DEF CountInv, Counted
<1>7. name[o] \in Names
  BY <1>0, <1>1, <1>2, <1>4, ChildKept
<1>8. children \in [Boxes -> [names : SUBSET Names, num : Nat]]
  BY <1>0 DEF IInv, Control, TypeOK
<1>9. CASE u # v
  <2>1. children'[u] = children[u]
    BY <1>3, <1>8, <1>9
  <2>2. Running(u)' = Running(u)
    BY <1>2, <1>3, <1>4, <1>9 DEF Running
  <2>3. QED
    BY <1>3, <1>6, <2>1, <2>2 DEF Fits
<1>10. CASE u = v /\ m[1] = "save"
  <2>1. <<"remove", o>> \notin done
    <3>1. PICK b \in Msgs : b = <<"remove", o>>
      BY MessageShape
    <3>2. Precedes(m, b)
      BY <1>2, <1>10, <3>1 DEF Precedes, Told
    <3>3. b \in done => Over(m)
      BY <1>0, <3>2 DEF OrderInv, Ordered, Before
    <3>4. QED
      BY <1>5, <3>1, <3>3 DEF Over
  <2>2. o \notin Running(v) /\ Running(v)' = Running(v) \cup {o}
    BY <1>2, <1>3, <1>4, <1>5, <1>10, <2>1 DEF Running
  <2>3. children'[v] = [names |-> children[v].names \cup {name[o]}, num |-> children[v].num + 1]
    BY <1>3, <1>8, <1>10 DEF SaveChild
  <2>4. IsFiniteSet(Running(v)') /\ Cardinality(Running(v)') = Cardinality(Running(v)) + 1
    <3>1. IsFiniteSet(Running(v))
      BY <1>6, <1>10 DEF Fits
    <3>2. /\ IsFiniteSet(Running(v) \cup {o})
          /\ Cardinality(Running(v) \cup {o}) = Cardinality(Running(v)) + 1
      BY <2>2, <3>1, FS_AddElement
    <3>3. QED
      BY <2>2, <3>2
  <2>5. {name[p] : p \in Running(v)'} = {name[p] : p \in Running(v)} \cup {name[o]}
    BY <2>2
  <2>6. QED
    BY <1>3, <1>6, <1>10, <2>3, <2>4, <2>5 DEF Fits
<1>11. CASE u = v /\ m[1] = "remove"
  <2>1. Running(v)' = Running(v) \ {o}
    BY <1>2, <1>3, <1>4, <1>11 DEF Running
  <2>2. children'[v] = RemoveChild(children[v], name[o])
    BY <1>3, <1>8, <1>11
  <2>3. \A p \in Running(v) : p # o => name[p] # name[o]
    BY <1>0, <1>7 DEF Running, NamesDiffer
  <2>4. CASE o \in Running(v)
    <3>1. name[o] \in children[v].names
      BY <1>6, <1>11, <2>4 DEF Fits
    <3>2. children'[v] = [names |-> children[v].names \ {name[o]}, num |-> children[v].num - 1]
      BY <2>2, <3>1 DEF RemoveChild
    <3>3. IsFiniteSet(Running(v)') /\ Cardinality(Running(v)') = Cardinality(Running(v)) - 1
      BY <1>6, <1>11, <2>1, <2>4, FS_RemoveElement DEF Fits
    <3>4. {name[p] : p \in Running(v)'} = {name[p] : p \in Running(v)} \ {name[o]}
      BY <2>1, <2>3
    <3>5. QED
      BY <1>3, <1>6, <1>11, <3>2, <3>3, <3>4 DEF Fits
  <2>5. CASE o \notin Running(v)
    <3>1. name[o] \notin children[v].names
      BY <1>6, <1>11, <2>3, <2>5 DEF Fits
    <3>2. children'[v] = children[v] /\ Running(v)' = Running(v)
      BY <2>1, <2>2, <2>5, <3>1 DEF RemoveChild
    <3>3. QED
      BY <1>3, <1>6, <1>11, <3>2 DEF Fits
  <2>6. QED
    BY <2>4, <2>5
<1>12. QED
  BY <1>1, <1>9, <1>10, <1>11

\* A global isolate begins without children, and nobody was created by it.
LEMMA StartGlobalCounts ==
    ASSUME CountInv, NEW g \in Global, StartGlobal(g)
    PROVE  Fits(g)'
<1> USE DEF threads, shared, queues, tables
<1>1. vm[g] = "none" /\ g \in Boxes
  BY DEF CountInv, PhaseInv, Phases, Phase, StartGlobal, Boxes
<1>2. children[g].names = {} /\ children[g].num = 0 /\ UNCHANGED <<children, parent, name, done>>
  BY <1>1 DEF CountInv, PhaseInv, Phases, StartGlobal
<1>3. Running(g) = {}
  <2> SUFFICES ASSUME NEW o \in Once, parent[o].vm = g, <<"save", o>> \in done PROVE FALSE
    BY DEF Running
  <2>1. PICK m \in Msgs : m = <<"save", o>>
    BY MessageShape
  <2>2. Allocated(m)
    BY <2>1, NotYet DEF CountInv, PhaseInv
  <2>3. pc[o] # "none"
    BY <2>1, <2>2 DEF Allocated
  <2>4. QED
    BY <1>1, <2>3 DEF CountInv, PhaseInv, Known
<1>4. Running(g)' = {}
  BY <1>2, <1>3 DEF Running
<1>5. QED
  BY <1>2, <1>4, FS_EmptySet DEF Fits

LEMMA CountStep == CountInv /\ [Next]_vars => CountInv'
<1> SUFFICES ASSUME CountInv, [Next]_vars PROVE CountInv'
  OBVIOUS
<1> USE DEF threads, shared, queues, tables
<1>1. PhaseInv' /\ OrderInv' /\ IInv'
  BY PhaseInvStep, OrderStep DEF CountInv, PhaseInv
<1>2. CASE UNCHANGED vars
  <2>1. Unnamed' /\ Counted'
    BY <1>2 DEF vars, CountInv, Unnamed, Counted, NamesDiffer, Fits, Running
  <2>2. QED
    BY <1>1, <2>1 DEF CountInv
<1>3. CASE Next
  <2>1. Unnamed'
    BY <1>3, NamesStay DEF CountInv, PhaseInv, Unnamed
  <2>2. ASSUME NamesDiffer', NEW u \in Boxes, vm'[u] = "open" PROVE Fits(u)'
    <3>1. CASE \E v \in Boxes : RunSaveOrRemove(v)
      BY <1>1, <1>3, <2>2, <3>1, SaveOrRemoveCounts
    <3>2. CASE u \in Global /\ StartGlobal(u)
      BY <3>2, StartGlobalCounts
    <3>3. CASE ~(\E v \in Boxes : RunSaveOrRemove(v)) /\ ~(u \in Global /\ StartGlobal(u))
      <4>1. children' = children
        BY <1>3, <3>3 DEF Next, Script, Create, OpenGlobal, CloseSelf, RegisterCallback, PostLookup,
                Callback, PostSend, DestroyMain, Thread, StartOnce, PostSave, EndOnce, PostRemove,
                TellParent, StartGlobal, SaveGlobal, LeaveLoop, RemoveGlobal, CloseGlobal, FreeLooper,
                Execute, Take, RunCallback, RunAction, Crash
      <4>2. \A k \in Msgs : k[1] \in {"save", "remove"} => (k \in done' <=> k \in done)
        <5>1. \/ done' = done
              \/ \E v \in Boxes : /\ cur[v][1] \in {"callback", "reply", "action"}
                                  /\ done' = done \cup {cur[v]}
          BY <1>3, <3>3 DEF Next, Script, Create, OpenGlobal, CloseSelf, RegisterCallback, PostLookup,
                Callback, PostSend, DestroyMain, Thread, StartOnce, PostSave, EndOnce, PostRemove,
                TellParent, StartGlobal, SaveGlobal, LeaveLoop, RemoveGlobal, CloseGlobal, FreeLooper,
                Execute, Take, RunCallback, RunAction, Finish, Crash
        <5>2. QED
          BY <5>1
      <4>3. vm[u] = "open"
        <5>1. vm \in [Vms -> {"none", "open", "closed"}] /\ u \notin Once /\ u \in Vms
          BY DEF CountInv, PhaseInv, IInv, Control, TypeOK, Boxes, Vms
        <5>2. \/ vm' = vm
              \/ \E t \in Vms : vm' = [vm EXCEPT ![t] = "closed"]
              \/ \E t \in Vms : t # u /\ vm' = [vm EXCEPT ![t] = "open"]
          <6>1. ASSUME NEW t \in Global \cup Once, Thread(t)
                PROVE  \/ vm' = vm
                       \/ vm' = [vm EXCEPT ![t] = "closed"]
                       \/ t # u /\ vm' = [vm EXCEPT ![t] = "open"]
            BY <3>3, <5>1, <6>1 DEF Thread, StartOnce, PostSave, EndOnce, PostRemove, TellParent,
                StartGlobal, SaveGlobal, LeaveLoop, RemoveGlobal, CloseGlobal, FreeLooper, Crash
          <6>2. DestroyMain => vm' = [vm EXCEPT ![Main] = "closed"] /\ Main \in Vms
            BY DEF DestroyMain, Vms
          <6>3. ASSUME NEW v \in Vms, Script(v) \/ PostSend(v) PROVE vm' = vm
            BY <6>3 DEF Script, Create, OpenGlobal, CloseSelf, RegisterCallback, PostLookup,
                        Callback, PostSend, Crash
          <6>4. ASSUME NEW v \in Boxes, Execute(v) PROVE vm' = vm
            BY <6>4 DEF Execute, Take, RunSaveOrRemove, RunCallback, RunAction, Crash
          <6>5. Global \cup Once \subseteq Vms
            BY DEF Vms
          <6>6. QED
            BY <1>3, <6>1, <6>2, <6>3, <6>4, <6>5 DEF Next
        <5>3. QED
          BY <2>2, <5>1, <5>2
      <4>4. NamesDiffer
        BY <1>3, <2>2, NamesDiffered DEF CountInv, PhaseInv
      <4>5. Fits(u)
        BY <2>2, <4>3, <4>4 DEF CountInv, Counted
      <4>6. \A o \in Once : /\ <<"save", o>> \in done' <=> <<"save", o>> \in done
                            /\ <<"remove", o>> \in done' <=> <<"remove", o>> \in done
        BY <4>2, MessageShape
      <4>7. QED
        BY <1>3, <4>1, <4>5, <4>6, FitsKept DEF CountInv, PhaseInv
    <3>4. QED
      BY <3>1, <3>2, <3>3
  <2>3. Counted'
    BY <2>2 DEF Counted
  <2>4. QED
    BY <1>1, <2>1, <2>3 DEF CountInv
<1>4. QED
  BY <1>2, <1>3

LEMMA CountInit == Init => CountInv
<1> SUFFICES ASSUME Init PROVE CountInv
  OBVIOUS
<1>1. Unnamed
  BY DEF Init, Unnamed, Vms
<1>2. ASSUME NEW v \in Boxes PROVE Fits(v)
  <2>1. Running(v) = {} /\ children[v].names = {} /\ children[v].num = 0
    BY DEF Init, Running
  <2>2. QED
    BY <2>1, FS_EmptySet DEF Fits
<1>3. QED
  BY <1>1, <1>2, PhaseInvInit, OrderInit DEF CountInv, Counted

\* The table of children holds the names of those that run, and its count is
\* their number, as long as the names differ (save_or_remove_in_post).
THEOREM CountInvariance == Spec => []CountInv
<1>1. QED
  BY CountInit, CountStep, PTL DEF Spec

\* isolate.children() answers the number of children that run: of those whose
\* save_or_remove_in_post was executed when they began and not yet when they
\* ended, as long as their names differ.
THEOREM CountsChildren == Spec => []ChildrenCounted
<1>1. CountInv => ChildrenCounted
  BY DEF CountInv, Counted, Fits, ChildrenCounted
<1>2. QED
  BY <1>1, CountInvariance, PTL

=============================================================================
