---------------------------- MODULE IsolateProps ----------------------------
(***************************************************************************)
(* Correctness of isolates: who owns a copied argument, what the map of    *)
(* global isolates and the tables of children hold, in which order a child *)
(* and its creator hear of each other, and what eventually happens.        *)
(***************************************************************************)
EXTENDS Isolate

\* Every variable has a value of its type.
TypeOK ==
    /\ vm \in [Vms -> {"none", "open", "closed"}]
    /\ name \in [Vms -> Names \cup {Null}]
    /\ pc \in [Global \cup Once -> {"none", "start", "save", "body", "remove", "unnamed",
                                    "loop", "ended", "close", "exit", "gone"}]
    /\ parent \in [Once -> Refs \cup {NoRef}]
    /\ registry \in [Names -> Global \cup {Null}] /\ structs \subseteq Global
    /\ javaVms \in Seq(Global)
    /\ mode \in [Global -> {"none", "open", "draining", "closing", "closed"}]
    /\ box \in [Boxes -> Seq(Msgs)] /\ cur \in [Boxes -> Msgs \cup {NoMsg}]
    /\ op \in [Vms -> [to : Global, msg : {"action"} \X Jobs] \cup {NoOp}]
    /\ job \in [Jobs -> [kind : {"action", "callback"}, from : Vms,
                         parent : Refs \cup {NoRef}] \cup {NoJob}]
    /\ children \in [Boxes -> [names : SUBSET Names, num : Nat]]
    /\ registered \subseteq Vms
    /\ done \subseteq Msgs /\ freed \in [Msgs -> Nat]
    /\ fault \in Faults \cup {"none"}

----------------------------------------------------------------------------
\* The argument m was allocated.
Allocated(m) ==
    CASE m[1] = "save"   -> pc[m[2]] \in {"body", "remove", "gone"}
      [] m[1] = "remove" -> pc[m[2]] = "gone"
      [] m[1] = "reply"  -> /\ <<"action", m[2]>> \in done
                            /\ job[m[2]].parent.type \in {"main", "global"}
      [] OTHER           -> job[m[2]].kind = m[1]

\* A callback that found no registered function keeps its argument for ever.
Leaked(m) == m \in done /\ m[1] \in {"callback", "reply"} /\ freed[m] = 0

\* Where m is: in a queue, in the hands of an executing loop, in a pending post.
Queued(m)  == {v \in Boxes : Contains(box[v], m)}
Taken(m)   == {v \in Boxes : cur[v] = m}
Pending(m) == {v \in Vms : op[v].msg = m}

\* How many places own m: one of these, the heap's free list, or nobody because
\* it leaked.
Owners(m) ==
      Cardinality(Queued(m)) + Cardinality(Taken(m)) + Cardinality(Pending(m))
    + freed[m] + (IF Leaked(m) THEN 1 ELSE 0)

\* A copied argument has one owner at every moment, and is freed once: by the
\* function that ran, by the poster if the post failed before it reached a loop
\* (result < 0), by the loop if it refused or discarded it (result > 0).
ArgsOwnedOnce == \A m \in Msgs : Owners(m) = IF Allocated(m) THEN 1 ELSE 0

\* A name resolves to the isolate that took it last: one that runs its loop or,
\* between the return of loop() and remove_global_isolate, has just left it,
\* whose VM is open and whose struct is allocated; also when two isolates took
\* the name, and whichever of them closes first.
RegistryAlive ==
    \A n \in Names : LET g == registry[n] IN
        g # Null => /\ pc[g] \in {"loop", "ended"} /\ vm[g] = "open" /\ g \in structs
                    /\ name[g] = n

\* The children v was told of and not yet that they ended.
Running(v) ==
    {o \in Once : /\ parent[o].vm = v
                  /\ <<"save", o>> \in done /\ <<"remove", o>> \notin done}

NamesDiffer == \A o, p \in Once : o # p /\ name[o] # Null => name[o] # name[p]

\* isolate.children() counts the children that are running, as long as their
\* names differ.
ChildrenCounted ==
    NamesDiffer => \A v \in Boxes : vm[v] = "open" => children[v].num = Cardinality(Running(v))

\* What a once isolate tells its creator arrives in the order it happened: that
\* it began, its callbacks, that it ended.
ChildOrder ==
    \A o \in Once :
       /\ \A j \in Jobs : job[j].kind = "callback" /\ job[j].from = o =>
             /\ <<"callback", j>> \in done => freed[<<"save", o>>] = 1
             /\ <<"remove", o>> \in done =>
                   <<"callback", j>> \in done \/ freed[<<"callback", j>>] = 1
       /\ <<"remove", o>> \in done => freed[<<"save", o>>] = 1

\* The structs that were freed after they had been saved.
FreedStructs == {g \in Global : mode[g] # "none" /\ g \notin structs}

\* What has to happen before a program of isolates can go wrong: a struct is
\* only freed by an isolate of the same name that left its loop, a looper only
\* by its own thread, a callback only meets a null lua_State after the main VM
\* was destroyed, and the Globals of a creator are only missed after the VM of
\* that creator, which is no global isolate, was closed.  Without closeSelf and
\* Globals.destroy what is left is to call back without a creator and a once
\* isolate that ends before one it created has begun.
FaultCauses ==
    /\ fault = "freed_isolate" =>
         \E g \in FreedStructs, h \in Global :
            name[g] = name[h] /\ pc[h] \in {"close", "exit", "gone"}
    /\ fault = "freed_looper" => \E g \in Global : pc[g] = "gone"
    /\ fault = "freed_node"   => \E g \in Global : pc[g] = "exit" /\ box[g] # <<>>
    /\ fault = "null_vm"      => vm[Main] = "closed"
    /\ fault = "no_parent"    => \E v \in Boxes : "callback" \in Allowed[v]
    /\ fault = "no_globals"   =>
         \E o \in Once : LET p == parent[o].vm IN
            pc[o] = "start" /\ p \notin Global /\ vm[p] = "closed"
    /\ fault = "closed_twice" =>
         \E g, h \in Global : g # h /\ pc[g] = "close" /\ vm[h] # "none"

----------------------------------------------------------------------------
LoopsOpen == vm[Main] = "open" /\ \A g \in Global : mode[g] \in {"none", "open"}

\* An action that the main VM or a global isolate posts with autoCallback is
\* executed and answered, unless an isolate closes itself.
RepliesArrive ==
    \A j \in Jobs :
        job[j].from \in Boxes /\ job[j].parent # NoRef
            ~> (<<"reply", j>> \in done \/ ~LoopsOpen)

\* Whatever was posted is eventually freed or, a callback nobody registered
\* for, dropped; a loop that closes or was closed does it as well.
ArgsSettle ==
    \A m \in Msgs : Allocated(m) ~> (freed[m] = 1 \/ Leaked(m) \/ fault # "none")

\* A global isolate that closed itself ends its thread.
CloseEnds == \A g \in Global : mode[g] \in {"draining", "closing"}
                                ~> (pc[g] = "gone" \/ fault # "none")

----------------------------------------------------------------------------
\* What the comments say and the code does not do.

\* isolate.c:1448, "no isolate named": a post to an isolate that is closing is
\* answered, not sent through a pointer to its freed struct.
PostsAnswered == fault # "freed_isolate"
=============================================================================
