------------------------------- MODULE Isolate -------------------------------
(***************************************************************************)
(* Isolates, japi/isolate.c: Lua VMs on threads of their own that exchange *)
(* copied values.  A once isolate runs one function and ends; a global     *)
(* isolate has a message loop and is found by name; both, and the main VM  *)
(* behind an Android Handler, run the functions other isolates post.       *)
(*                                                                         *)
(* A loop is what Mailbox says it is.  What this module adds is who holds  *)
(* which pointer: names resolve to shared Isolate structs that a closing   *)
(* isolate frees, and once isolates keep the pointer of their creator.     *)
(***************************************************************************)
EXTENDS Naturals, FiniteSets, SequencesExt

CONSTANTS Main,      \* the main VM
          Global,    \* the threads that openGlobal may start
          Once,      \* the threads that create may start
          Jobs,      \* the arguments that post and callback may copy
          Names,     \* names of isolates
          MainName,  \* "main"
          Allowed,   \* the functions the script of each VM may call
          Null

Vms   == {Main} \cup Global \cup Once
Boxes == {Main} \cup Global
Msgs  == ({"save", "remove"} \X Once) \cup ({"action", "callback", "reply"} \X Jobs)
NoMsg == <<"none", Null>>

\* A pointer to an Isolate.  A "global" one points to the struct in the map of
\* global isolates, the others to a private copy.
Refs  == [type : {"main", "once", "global"}, vm : Vms]
NoRef == [type |-> "none", vm |-> Null]

Functions == {"create", "open", "close", "register", "post", "post_acb", "callback",
              "destroy"}
Faults    == {"freed_isolate", "freed_looper", "freed_node", "no_parent", "no_globals",
              "null_vm", "closed_twice"}

ASSUME IsolateConstants ==
    /\ Main \notin Global \cup Once /\ Global \cap Once = {}
    /\ MainName \in Names
    /\ Null \notin Vms \cup Names \cup Jobs
    /\ Allowed \in [Vms -> SUBSET Functions]

VARIABLES vm,        \* the lua_State of each VM: none, open, closed
          name,      \* __ICN of each VM
          pc,        \* where each thread is in in_thread
          parent,    \* the creator a once isolate knows: ta->parent, later __parentL
          registry,  \* the map of global isolates
          structs,   \* the isolates whose struct in the map is allocated
          javaVms,   \* g_cahce: the global VMs Java knows, in the order of their addresses
          mode,      \* of each loop: none, open, draining, closing, closed
          box,       \* the queue of each loop and of the main Handler
          cur,       \* the message each of them is executing
          op,        \* the isolate and the message of the post a VM is in
          job,       \* what each argument was copied for
          children,  \* __children_L: the names and the count at index 2
          registered,\* the VMs that called registerCallback
          done,      \* messages whose function returned
          freed,     \* how often each argument was freed
          fault      \* the undefined behaviour or crash that ended the program, if any

threads == <<vm, name, pc, parent>>
shared  == <<registry, structs, javaVms>>
queues  == <<mode, box, cur>>
tables  == <<children, registered>>
vars    == <<threads, shared, queues, op, job, tables, done, freed, fault>>

NoOp  == [to |-> Null, msg |-> NoMsg]
NoJob == [kind |-> "none", from |-> Null, parent |-> NoRef]

Init ==
    /\ vm   = [v \in Vms |-> IF v = Main THEN "open" ELSE "none"]
    /\ name = [v \in Vms |-> IF v = Main THEN MainName ELSE Null]
    /\ pc   = [t \in Global \cup Once |-> "none"]
    /\ parent = [o \in Once |-> NoRef]
    /\ registry = [n \in Names |-> Null] /\ structs = {} /\ javaVms = <<>>
    /\ mode = [g \in Global |-> "none"]
    /\ box = [v \in Boxes |-> <<>>] /\ cur = [v \in Boxes |-> NoMsg]
    /\ op = [v \in Vms |-> NoOp] /\ job = [j \in Jobs |-> NoJob]
    /\ children = [v \in Boxes |-> [names |-> {}, num |-> 0]] /\ registered = {}
    /\ done = {} /\ freed = [m \in Msgs |-> 0]
    /\ fault = "none"

Crash(f) ==
    /\ fault' = f
    /\ UNCHANGED <<threads, shared, queues, op, job, tables, done, freed>>

----------------------------------------------------------------------------
\* Pointers.

Dangling(r) == r.type = "global" /\ r.vm \notin structs

\* What is wrong with posting through a pointer to the map, or through a copy.
LooperFault(r) == IF r.type = "global" /\ pc[r.vm] = "gone" THEN "freed_looper" ELSE "none"
PointerFault(r) == IF Dangling(r) THEN "freed_isolate" ELSE LooperFault(r)

\* Mutant of CurrentIsolate: the result of the lookup is not tested.
CurrentUntested(v) == [type |-> "global", vm |-> registry[name[v]]]
\* getCurrentIsolate: the struct in the map under the caller's name, or a copy.
CurrentIsolate(v) ==
    LET g == registry[name[v]] IN
    CASE g # Null                            -> [type |-> "global", vm |-> g]
      [] g = Null /\ name[v] = MainName      -> [type |-> "main", vm |-> v]
      [] g = Null /\ name[v] # MainName      -> [type |-> "once", vm |-> v]

\* Globals.getGlobalsByLState finds the VM.
KnownToJava(v) == IF v \in Global THEN v \in ToSet(javaVms) ELSE vm[v] = "open"

\* Mutant of FreeRef: the struct in the map is freed too.
FreeAnyRef(r) == structs' = structs \ {r.vm}
\* The owner of a pointer frees private copies only.
FreeRef(r) == UNCHANGED structs

----------------------------------------------------------------------------
\* Posting.

\* post: accepted, failed before it entered a loop, or refused inside the loop
\* (which then frees the argument itself).
Outcome(r) ==
    CASE r.type = "main"   -> IF r.vm = Main /\ vm[Main] = "open" THEN "posted" ELSE "before"
      [] r.type = "global" -> IF mode[r.vm] = "open" THEN "posted" ELSE "inside"
      [] r.type = "once"   -> "before"

\* Mutant of CallerFrees: whenever the post failed.
CallerFreesIfFailed(out) == out # "posted"
\* post_and_deal_with_error: negative results leave the argument to the caller.
CallerFrees(out) == out = "before"

\* Mutant of Enqueue: the last message runs first.
EnqueueFirst(q, m) == <<m>> \o q
Enqueue(q, m)      == Append(q, m)

Frees(out) == (IF out = "inside" THEN 1 ELSE 0) + (IF CallerFrees(out) THEN 1 ELSE 0)

\* free_thread_arg reads the type of the pointer in the argument.
FreeFault(m) ==
    IF m[1] = "action" /\ Dangling(job[m[2]].parent) THEN "freed_isolate" ELSE "none"

\* Post m through a pointer that is good, and count in "freedBy" what else
\* the same step frees.
Send(r, m, freedBy) ==
    LET out == Outcome(r) IN
    /\ box' = IF out = "posted" THEN [box EXCEPT ![r.vm] = Enqueue(@, m)] ELSE box
    /\ freed' = [freedBy EXCEPT ![m] = @ + Frees(out)]

----------------------------------------------------------------------------
\* What a script may call.  The script of the main VM runs on the main thread,
\* that of a global isolate inside a message that calls Lua, that of a once
\* isolate in its function.
InScript(g) == cur[g][1] = "action" \/ (cur[g][1] \in {"callback", "reply"} /\ g \in registered)

MayCall(v, f) ==
    /\ f \in Allowed[v] /\ vm[v] = "open" /\ op[v] = NoOp
    /\ v \in Global => InScript(v)
    /\ v \in Once => pc[v] = "body"

\* isolate.create
Create(v) ==
    /\ MayCall(v, "create")
    /\ \E o \in Once, n \in Names :
          /\ pc[o] = "none"
          /\ pc' = [pc EXCEPT ![o] = "start"]
          /\ name' = [name EXCEPT ![o] = n]
          /\ parent' = [parent EXCEPT ![o] = CurrentIsolate(v)]
    /\ UNCHANGED <<vm, shared, queues, op, job, tables, done, freed, fault>>

\* isolate.openGlobal; nothing happens when the name is known already.
OpenGlobal(v) ==
    /\ MayCall(v, "open")
    /\ \E g \in Global, n \in Names :
          /\ pc[g] = "none" /\ registry[n] = Null
          /\ pc' = [pc EXCEPT ![g] = "start"]
          /\ name' = [name EXCEPT ![g] = n]
    /\ UNCHANGED <<vm, parent, shared, queues, op, job, tables, done, freed, fault>>

\* isolate.closeSelf; a second one is refused.
CloseSelf(v) ==
    /\ v \in Global /\ MayCall(v, "close") /\ mode[v] = "open"
    /\ \E m \in {"draining", "closing"} : mode' = [mode EXCEPT ![v] = m]
    /\ UNCHANGED <<threads, shared, box, cur, op, job, tables, done, freed, fault>>

RegisterCallback(v) ==
    /\ MayCall(v, "register")
    /\ registered' = registered \cup {v}
    /\ UNCHANGED <<threads, shared, queues, op, job, children, done, freed, fault>>

\* isolate.post, first half: look the isolate up and copy the arguments.
PostLookup(v) ==
    /\ \E n \in Names, j \in Jobs, acb \in BOOLEAN :
          /\ MayCall(v, IF acb THEN "post_acb" ELSE "post")
          /\ registry[n] # Null /\ job[j] = NoJob
          /\ op' = [op EXCEPT ![v] = [to |-> registry[n], msg |-> <<"action", j>>]]
          /\ job' = [job EXCEPT ![j] =
                [kind |-> "action", from |-> v,
                 parent |-> IF acb THEN CurrentIsolate(v) ELSE NoRef]]
    /\ UNCHANGED <<threads, shared, queues, tables, done, freed, fault>>

\* isolate.post, second half: use what was looked up.
PostSend(v) ==
    LET r == [type |-> "global", vm |-> op[v].to]
        m == op[v].msg
    IN  /\ op[v] # NoOp
        /\ CASE PointerFault(r) # "none" -> Crash(PointerFault(r))
             [] PointerFault(r) = "none" /\ Outcome(r) # "posted" /\ FreeFault(m) # "none" ->
                  Crash(FreeFault(m))
             [] OTHER ->
                  /\ Send(r, m, freed)
                  /\ op' = [op EXCEPT ![v] = NoOp]
                  /\ UNCHANGED <<threads, shared, mode, cur, job, tables, done, fault>>

\* isolate.callback: through the copy of the creator's Isolate in __parentL,
\* which only a once isolate has.
Callback(v) ==
    /\ MayCall(v, "callback")
    /\ \E j \in Jobs :
          /\ job[j] = NoJob
          /\ CASE v \notin Once -> Crash("no_parent")
               [] v \in Once /\ LooperFault(parent[v]) # "none" -> Crash(LooperFault(parent[v]))
               [] OTHER ->
                    /\ job' = [job EXCEPT ![j] =
                          [kind |-> "callback", from |-> v, parent |-> NoRef]]
                    /\ Send(parent[v], <<"callback", j>>, freed)
                    /\ UNCHANGED <<threads, shared, mode, cur, op, tables, done, fault>>

\* Globals.destroy of the main VM, which no Lua function is running in.  What
\* was posted to the Handler stays there.
DestroyMain ==
    /\ MayCall(Main, "destroy") /\ cur[Main] = NoMsg
    /\ vm' = [vm EXCEPT ![Main] = "closed"]
    /\ UNCHANGED <<name, pc, parent, shared, queues, op, job, tables, done, freed, fault>>

----------------------------------------------------------------------------
\* The thread of a once isolate: in_thread and _inner_in_thread.

\* new_lvm; Java copies the resource finders of the creator's Globals.
StartOnce(o) ==
    /\ pc[o] = "start"
    /\ CASE Dangling(parent[o]) -> Crash("freed_isolate")
         [] ~Dangling(parent[o]) /\ ~KnownToJava(parent[o].vm) -> Crash("no_globals")
         [] OTHER ->
              /\ vm' = [vm EXCEPT ![o] = "open"]
              /\ pc' = [pc EXCEPT ![o] = "save"]
              /\ UNCHANGED <<name, parent, shared, queues, op, job, tables, done, freed, fault>>

\* The creator is told that the child began, or ended; a failed post only frees.
TellParent(o, kind, next) ==
    LET r == parent[o] IN
    IF PointerFault(r) # "none"
      THEN Crash(PointerFault(r))
      ELSE /\ Send(r, <<kind, o>>, freed)
           /\ pc' = [pc EXCEPT ![o] = next]
           /\ UNCHANGED <<vm, name, parent, registry, javaVms, mode, cur, op, job,
                          tables, done, fault>>

PostSave(o) == pc[o] = "save" /\ TellParent(o, "save", "body") /\ UNCHANGED structs

\* The function returned: close_lvm.
EndOnce(o) ==
    /\ pc[o] = "body" /\ op[o] = NoOp
    /\ vm' = [vm EXCEPT ![o] = "closed"]
    /\ pc' = [pc EXCEPT ![o] = "remove"]
    /\ UNCHANGED <<name, parent, shared, queues, op, job, tables, done, freed, fault>>

\* The last thing the thread does, and it frees its pointer.
PostRemove(o) ==
    /\ pc[o] = "remove" /\ TellParent(o, "remove", "gone")
    /\ IF fault' = "none" THEN FreeRef(parent[o]) ELSE UNCHANGED structs

----------------------------------------------------------------------------
\* The thread of a global isolate.

\* prepare_loop and new_lvm; the address of the VM may be any.
StartGlobal(g) ==
    /\ pc[g] = "start"
    /\ vm' = [vm EXCEPT ![g] = "open"]
    /\ pc' = [pc EXCEPT ![g] = "unnamed"]
    /\ \E i \in 1..Len(javaVms) + 1 : javaVms' = InsertAt(javaVms, i, g)
    /\ UNCHANGED <<name, parent, registry, structs, queues, op, job, tables, done, freed, fault>>

\* save_global_isolate, and loop() begins.  A struct that is there under the
\* same name is replaced and never freed.
SaveGlobal(g) ==
    /\ pc[g] = "unnamed"
    /\ registry' = [registry EXCEPT ![name[g]] = g]
    /\ structs' = structs \cup {g}
    /\ mode' = [mode EXCEPT ![g] = "open"]
    /\ pc' = [pc EXCEPT ![g] = "loop"]
    /\ UNCHANGED <<vm, name, parent, javaVms, box, cur, op, job, tables, done, freed, fault>>

\* Mutant of MayLeave: an unsafe quit drains too.
LeaveWhenEmpty(g) == mode[g] \in {"draining", "closing"} /\ box[g] = <<>>
MayLeave(g) == mode[g] = "closing" \/ (mode[g] = "draining" /\ box[g] = <<>>)

\* loop() returns; the name still leads here.
LeaveLoop(g) ==
    /\ pc[g] = "loop" /\ cur[g] = NoMsg /\ MayLeave(g)
    /\ mode' = [mode EXCEPT ![g] = "closed"]
    /\ pc' = [pc EXCEPT ![g] = "ended"]
    /\ UNCHANGED <<vm, name, parent, shared, box, cur, op, job, tables, done, freed, fault>>

\* Mutant of Unregister: remove_global_isolate is forgotten.
KeepRegistered(g) == UNCHANGED <<registry, structs>>
\* remove_global_isolate: whatever the map has under the name goes.
Unregister(g) ==
    /\ registry' = [registry EXCEPT ![name[g]] = Null]
    /\ structs' = structs \ {registry[name[g]]}

RemoveGlobal(g) ==
    /\ pc[g] = "ended"
    /\ Unregister(g)
    /\ pc' = [pc EXCEPT ![g] = "close"]
    /\ UNCHANGED <<vm, name, parent, javaVms, queues, op, job, tables, done, freed, fault>>

\* close_lvm.  __onGlobalsDestroyInNative skips the VM with the lowest address
\* (index > 0), and destroys the others, which closes the lua_State of a VM
\* without creator; close_lvm then closes it again.
CloseGlobal(g) ==
    /\ pc[g] = "close"
    /\ IF Head(javaVms) # g
         THEN Crash("closed_twice")
         ELSE /\ vm' = [vm EXCEPT ![g] = "closed"]
              /\ pc' = [pc EXCEPT ![g] = "exit"]
              /\ UNCHANGED <<name, parent, shared, queues, op, job, tables, done, freed, fault>>

\* Mutant of Discarded: nothing is freed.
DiscardNothing(g) == freed
\* The function of the first message that is left frees its argument.
Discarded(g) == [m \in Msgs |-> IF box[g] # <<>> /\ m = Head(box[g]) THEN freed[m] + 1
                                                               ELSE freed[m]]

\* The thread ends and its looper is freed.  The destructor frees the node that
\* follows the one whose function it called: with one message left that is
\* NULL, with more it then reads the node it has just freed.
FreeLooper(g) ==
    /\ pc[g] = "exit"
    /\ IF box[g] # <<>> /\ FreeFault(Head(box[g])) # "none"
         THEN Crash("freed_isolate")
         ELSE /\ freed' = Discarded(g)
              /\ box' = [box EXCEPT ![g] = IF @ = <<>> THEN @ ELSE Tail(@)]
              /\ \/ Len(box[g]) > 1 /\ fault' = "freed_node" /\ UNCHANGED pc
                 \/ Len(box[g]) <= 1 /\ pc' = [pc EXCEPT ![g] = "gone"] /\ UNCHANGED fault
              /\ UNCHANGED <<vm, name, parent, shared, mode, cur, op, job, tables, done>>

----------------------------------------------------------------------------
\* Executing messages: a loop runs them while it is not quit, the main Handler
\* also after the VM was destroyed.
Take(v) ==
    /\ cur[v] = NoMsg /\ op[v] = NoOp /\ box[v] # <<>>
    /\ v \in Global => pc[v] = "loop" /\ mode[v] # "closing"
    /\ cur' = [cur EXCEPT ![v] = Head(box[v])]
    /\ box' = [box EXCEPT ![v] = Tail(@)]
    /\ UNCHANGED <<threads, shared, mode, op, job, tables, done, freed, fault>>

Finish(v) ==
    /\ cur' = [cur EXCEPT ![v] = NoMsg]
    /\ done' = done \cup {cur[v]}

\* Mutant of RemoveChild: the count is kept.
RemoveKeepsCount(c, n) == [c EXCEPT !.names = @ \ {n}]
SaveChild(c, n)   == [names |-> c.names \cup {n}, num |-> c.num + 1]
RemoveChild(c, n) == IF n \in c.names THEN [names |-> c.names \ {n}, num |-> c.num - 1]
                                      ELSE c

\* save_or_remove_in_post; a VM that is gone has no table any more.
RunSaveOrRemove(v) ==
    LET m == cur[v] IN
    /\ m[1] \in {"save", "remove"} /\ op[v] = NoOp
    /\ Finish(v)
    /\ children' = IF vm[v] # "open" THEN children
                   ELSE [children EXCEPT ![v] =
                           IF m[1] = "save" THEN SaveChild(@, name[m[2]])
                                            ELSE RemoveChild(@, name[m[2]])]
    /\ freed' = [freed EXCEPT ![m] = @ + 1]
    /\ UNCHANGED <<threads, shared, mode, box, op, job, registered, fault>>

\* call_callback: calls the registered function with the arguments and frees
\* them; without one it returns at once and they leak.
RunCallback(v) ==
    LET m == cur[v] IN
    /\ m[1] \in {"callback", "reply"} /\ op[v] = NoOp
    /\ IF vm[v] # "open"
         THEN Crash("null_vm")
         ELSE /\ Finish(v)
              /\ freed' = [freed EXCEPT ![m] = @ + IF v \in registered THEN 1 ELSE 0]
              /\ UNCHANGED <<threads, shared, mode, box, op, job, tables, fault>>

\* Mutant of WantsReply: the main VM is forgotten.
OnlyGlobalReplied(r) == r.type = "global"
WantsReply(r) == r.type \in {"main", "global"}

\* call_post_action: the posted function ran; its results go to the callback of
\* the isolate that asked for it, unless that one has no loop.
RunAction(g) ==
    LET m == cur[g]
        r == job[m[2]].parent
        freedArg == [freed EXCEPT ![m] = @ + 1]
    IN  /\ m[1] = "action" /\ op[g] = NoOp
        /\ IF PointerFault(r) # "none" THEN Crash(PointerFault(r))
           ELSE /\ Finish(g)
                /\ IF WantsReply(r)
                     THEN Send(r, <<"reply", m[2]>>, freedArg)
                     ELSE freed' = freedArg /\ UNCHANGED box
                /\ UNCHANGED <<threads, shared, mode, op, job, tables, fault>>

----------------------------------------------------------------------------
Script(v) == \/ Create(v) \/ OpenGlobal(v) \/ CloseSelf(v) \/ RegisterCallback(v)
             \/ PostLookup(v) \/ Callback(v)

Thread(t) == \/ t \in Once /\ (StartOnce(t) \/ PostSave(t) \/ EndOnce(t) \/ PostRemove(t))
             \/ t \in Global /\ (\/ StartGlobal(t) \/ SaveGlobal(t) \/ LeaveLoop(t)
                                 \/ RemoveGlobal(t) \/ CloseGlobal(t) \/ FreeLooper(t))

Execute(v) == Take(v) \/ RunSaveOrRemove(v) \/ RunCallback(v)
                 \/ (v \in Global /\ RunAction(v))

Next == /\ fault = "none"
        /\ \/ \E v \in Vms : Script(v) \/ PostSend(v)
           \/ DestroyMain
           \/ \E t \in Global \cup Once : Thread(t)
           \/ \E v \in Boxes : Execute(v)

Spec == Init /\ [][Next]_vars

\* Threads run, the main looper dispatches, and every script returns; what a
\* script calls before it does is its own choice.
Fairness ==
    /\ \A v \in Vms : WF_vars(fault = "none" /\ PostSend(v))
    /\ \A t \in Global \cup Once : WF_vars(fault = "none" /\ Thread(t))
    /\ \A v \in Boxes : WF_vars(fault = "none" /\ Execute(v))

FairSpec == Spec /\ Fairness
=============================================================================
