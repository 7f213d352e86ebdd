--------------------------- MODULE MessageLooper ---------------------------
(***************************************************************************)
(* The message loop of one thread, japi/message_looper.c: a singly linked  *)
(* list of messages behind a recursive mutex and a condition variable.     *)
(* The thread that owns the looper prepares it, runs loop() and, when it   *)
(* ends, destroys it (a thread-local destructor); any thread may post.     *)
(*                                                                         *)
(* The critical sections of post_message and poll_once are one action      *)
(* each: they hold the lock from the first to the last access.  The lock   *)
(* itself is a variable only because loop() has a return that keeps it.    *)
(***************************************************************************)
EXTENDS Naturals, SequencesExt

CONSTANTS Owner,      \* the thread the looper belongs to
          Posters,    \* the other threads that hold a pointer to the looper
          Quitters,   \* the threads that call post_quit
          Msg,        \* user messages: each is posted once and has its own ud
          Sentinel,       \* the sentinel node, l->head
          Quit,       \* the node of the quit message
          Null

Threads == Posters \cup {Owner}
Nodes   == Msg \cup {Sentinel, Quit}

ASSUME LooperConstants ==
    /\ Owner \notin Posters
    /\ Quitters \subseteq Threads
    /\ Sentinel \notin Msg /\ Quit \notin Msg /\ Null \notin Msg
    /\ Sentinel # Quit /\ Sentinel # Null /\ Quit # Null

VARIABLES state,     \* l->state
          next,      \* the next field of every node
          tail,      \* l->tail
          heap,      \* the nodes that are allocated
          held,      \* loop() returned without releasing the lock
          pc,        \* where the owner thread is; "undefined" once the program has
                     \* executed undefined behaviour: then nothing runs any more
          cur,       \* the message the owner took and has not freed
          quit,      \* the utype of the accepted quit message
          call,      \* the post_message call each thread is in
          accepted,  \* user messages that entered the queue, in lock order
          handled,   \* user messages whose handler returned, in order
          released   \* user messages whose free function ran, in order

vars == <<state, next, tail, heap, held, pc, cur, quit, call,
          accepted, handled, released>>

looperVars == <<state, next, tail, heap, quit>>
history    == <<accepted, handled, released>>

States  == {"INIT", "LOOP", "QUITING", "QUIT"}
PCs     == {"none", "init", "top", "poll", "waiting", "handling", "left",
            "freeing", "gone", "undefined"}
NoCall  == [type |-> "none", msg |-> Null, h |-> FALSE]
Calls   == [type : {"user"}, msg : Msg, h : BOOLEAN]
             \cup [type : {"safe", "unsafe"}, msg : {Quit}, h : {TRUE}]
             \cup {NoCall}

Calling  == {call[t].msg : t \in Threads}
Fresh(m) == m \notin ToSet(accepted) \cup ToSet(released) \cup Calling

----------------------------------------------------------------------------
Init ==
    /\ state = "INIT" /\ pc = "none" /\ cur = Null /\ quit = "none"
    /\ next = [n \in Nodes |-> Null] /\ tail = Sentinel /\ heap = {}
    /\ held = FALSE
    /\ call = [t \in Threads |-> NoCall]
    /\ accepted = <<>> /\ handled = <<>> /\ released = <<>>

\* prepare_loop: the sentinel is both ends of an empty list.
PrepareLoop ==
    /\ pc = "none"
    /\ pc' = "init" /\ state' = "INIT"
    /\ heap' = heap \cup {Sentinel}
    /\ next' = [next EXCEPT ![Sentinel] = Null]
    /\ tail' = Sentinel
    /\ UNCHANGED <<held, cur, quit, call, history>>

\* A thread may start a post while it can have the pointer: another thread as
\* long as the looper exists, the owner before loop() or from a handler.
MayCall(t) ==
    /\ call[t] = NoCall
    /\ IF t = Owner THEN pc = "init" \/ (pc = "handling" /\ cur \in Msg)
                    ELSE pc \notin {"none", "gone", "undefined"}

CallPost(t) ==
    /\ MayCall(t)
    /\ \E m \in Msg, h \in BOOLEAN :
          /\ Fresh(m)
          /\ call' = [call EXCEPT ![t] = [type |-> "user", msg |-> m, h |-> h]]
    /\ UNCHANGED <<looperVars, held, pc, cur, history>>

\* post_quit: a post of the quit message.  isolate.closeSelf calls it from a
\* handler; the header's example calls it from another thread.
CallQuit(t) ==
    /\ t \in Quitters /\ MayCall(t)
    /\ t = Owner => pc = "handling"
    /\ \E type \in {"safe", "unsafe"} :
          call' = [call EXCEPT ![t] = [type |-> type, msg |-> Quit, h |-> TRUE]]
    /\ UNCHANGED <<looperVars, held, pc, cur, history>>

\* The free function of a message: the quit message has none.
Release(m) ==
    released' = IF m \in Msg THEN Append(released, m) ELSE released

Accepting == state \notin {"QUITING", "QUIT"}

Refuse(c) ==
    /\ Release(c.msg)
    /\ UNCHANGED <<state, quit, next, tail, heap, accepted>>

InsertFront(n) ==
    /\ next' = [next EXCEPT ![Sentinel] = n, ![n] = next[Sentinel]]
    /\ UNCHANGED tail

InsertBack(n) ==
    /\ next' = [next EXCEPT ![n] = Null, ![tail] = n]
    /\ tail' = n

\* Mutants of Insert: all messages in front, every quit in front.
InsertAllFront(c)  == InsertFront(c.msg)
InsertQuitFront(c) == IF c.type = "user" THEN InsertBack(c.msg) ELSE InsertFront(c.msg)

Insert(c) == IF c.type = "unsafe" THEN InsertFront(c.msg) ELSE InsertBack(c.msg)

\* Mutant of Signal: the condition is not signalled.
NoSignal == UNCHANGED pc

\* pthread_cond_signal: only the owner ever waits.
Signal == pc' = IF pc = "waiting" THEN "poll" ELSE pc

Enqueue(c) ==
    /\ Insert(c)
    /\ heap' = heap \cup {c.msg}
    /\ IF c.type = "user"
         THEN /\ accepted' = Append(accepted, c.msg)
              /\ UNCHANGED <<state, quit>>
         ELSE /\ state' = "QUITING" /\ quit' = c.type
              /\ UNCHANGED accepted
    /\ Signal
    /\ UNCHANGED released

\* Mutant of MayLock: the owner sleeps with the lock.
MayLockUnlessAsleep(t) == pc # "waiting"
MayLock(t) == held => t = Owner

\* The critical section of post_message.  The mutex is recursive: the owner
\* enters it even when loop() left it locked.
Post(t) ==
    LET c == call[t] IN
    /\ c # NoCall /\ pc \notin {"gone", "undefined"}
    /\ MayLock(t)
    /\ IF Accepting /\ c.h THEN Enqueue(c) ELSE Refuse(c) /\ UNCHANGED pc
    /\ call' = [call EXCEPT ![t] = NoCall]
    /\ UNCHANGED <<held, cur, handled>>

\* The same call when the owner has already freed the looper.
PostAfterFree(t) ==
    /\ call[t] # NoCall /\ pc = "gone"
    /\ pc' = "undefined"
    /\ UNCHANGED <<looperVars, held, cur, call, history>>

----------------------------------------------------------------------------
\* loop(), the entry: a looper that is not in its initial state makes it
\* return, with the lock it has just taken.
LoopEnter ==
    /\ pc = "init" /\ call[Owner] = NoCall
    /\ IF state = "INIT"
         THEN state' = "LOOP" /\ pc' = "top" /\ UNCHANGED held
         ELSE pc' = "left" /\ held' = TRUE /\ UNCHANGED state
    /\ UNCHANGED <<next, tail, heap, quit, cur, call, history>>

NeverLeave == FALSE    \* mutant of MustLeave
MustLeave  == state = "QUIT"

\* The test of l->state before each poll.
LoopTest ==
    /\ pc = "top"
    /\ pc' = IF MustLeave THEN "left" ELSE "poll"
    /\ UNCHANGED <<looperVars, held, cur, call, history>>

\* poll_once: the queue is empty, pthread_cond_wait.
PollWait ==
    /\ pc = "poll" /\ next[Sentinel] = Null
    /\ pc' = "waiting"
    /\ UNCHANGED <<looperVars, held, cur, call, history>>

SpuriousWakeup ==
    /\ pc = "waiting"
    /\ pc' = "poll"
    /\ UNCHANGED <<looperVars, held, cur, call, history>>

UnlinkNothing(n) == UNCHANGED next    \* mutant of Unlink
Unlink(n) == next' = [next EXCEPT ![Sentinel] = next[n]]

\* Mutants of TailWithout: the tail stays on the unlinked node, or takes its next.
TailKept(n)    == tail
TailToNext(n)  == IF tail = n THEN next[n] ELSE tail
TailWithout(n) == IF tail = n THEN Sentinel ELSE tail

\* poll_once: take the first message.
PollTake ==
    LET ret == next[Sentinel] IN
    /\ pc = "poll" /\ ret # Null
    /\ Unlink(ret) /\ tail' = TailWithout(ret)
    /\ cur' = ret /\ pc' = "handling"
    /\ UNCHANGED <<state, heap, held, quit, call, history>>

\* The handler of a user message returns, and loop() frees the node.
HandleUser ==
    /\ pc = "handling" /\ cur \in Msg /\ call[Owner] = NoCall
    /\ handled' = Append(handled, cur)
    /\ heap' = heap \ {cur}
    /\ cur' = Null /\ pc' = "top"
    /\ UNCHANGED <<state, next, tail, quit, held, call, accepted, released>>

\* _handle_quit_message, and the node is freed.
HandleQuit ==
    /\ pc = "handling" /\ cur = Quit
    /\ state' = "QUIT"
    /\ heap' = heap \ {cur}
    /\ cur' = Null /\ pc' = "top"
    /\ UNCHANGED <<next, tail, quit, held, call, history>>

\* The thread function returns and pthread runs the destructor _free_loop.
ThreadExit ==
    /\ pc = "left"
    /\ pc' = "freeing"
    /\ UNCHANGED <<looperVars, held, cur, call, history>>

\* One turn of the loop in _free_loop.  It unlinks the first node and then
\* frees l->head->next, which by then is the node after it.
FreeNode ==
    LET n == next[Sentinel] IN
    /\ pc = "freeing" /\ n # Null
    /\ Release(n)
    /\ Unlink(n)
    /\ heap' = heap \ {next[n]}
    /\ UNCHANGED <<state, tail, held, quit, pc, cur, call, accepted, handled>>

\* The same turn when the node it reads is freed memory that no longer holds
\* the message; FreeNode is the outcome where it still does.
FreeReadsFreedNode ==
    /\ pc = "freeing" /\ next[Sentinel] # Null /\ next[Sentinel] \notin heap
    /\ pc' = "undefined"
    /\ UNCHANGED <<looperVars, held, cur, call, history>>

AlreadyDrained == TRUE    \* mutant of Drained
Drained == next[Sentinel] = Null

FreeLooper ==
    /\ pc = "freeing" /\ Drained
    /\ pc' = "gone" /\ heap' = heap \ {Sentinel}
    /\ UNCHANGED <<state, next, tail, held, quit, cur, call, history>>

----------------------------------------------------------------------------
OwnerStep == PrepareLoop \/ LoopEnter \/ LoopTest \/ PollWait \/ PollTake
                \/ HandleUser \/ HandleQuit \/ ThreadExit \/ FreeNode
                \/ FreeReadsFreedNode \/ FreeLooper

Answer(t) == Post(t) \/ PostAfterFree(t)

Next == \/ OwnerStep
        \/ SpuriousWakeup
        \/ \E t \in Threads : CallPost(t) \/ CallQuit(t) \/ Answer(t)

Spec == Init /\ [][Next]_vars

\* The scheduler runs the owner whenever it can run, a thread inside
\* post_message gets the lock once it is free, and a handler returns, however
\* often it posts before it does.  Nobody is obliged to post or to quit.
Fairness == /\ WF_vars(OwnerStep)
            /\ SF_vars(HandleUser)
            /\ \A t \in Threads : WF_vars(Answer(t))

FairSpec == Spec /\ Fairness
=============================================================================
