------------------------- MODULE MessageLooperProofs -------------------------
(***************************************************************************)
(* Proofs about the message loop, for any number of threads and messages.  *)
(***************************************************************************)
EXTENDS MessageLooperProps, TLAPS, SequenceTheorems, FiniteSetTheorems,
        WellFoundedInduction

USE LooperConstants

\* A thread is in no call, in a call for a user message, or in one for the
\* quit message.
LEMMA CallTypes ==
    /\ NoCall \in Calls
    /\ \A m \in Msg, h \in BOOLEAN : [type |-> "user", msg |-> m, h |-> h] \in Calls
    /\ \A y \in {"safe", "unsafe"} : [type |-> y, msg |-> Quit, h |-> TRUE] \in Calls
    /\ \A c \in Calls : c # NoCall =>
         /\ c.h \in BOOLEAN
         /\ \/ c.type = "user" /\ c.msg \in Msg
            \/ c.type \in {"safe", "unsafe"} /\ c.msg = Quit
  BY DEF Calls, NoCall

LEMMA InitTypeOK == Init => TypeOK
  <1> SUFFICES ASSUME Init PROVE TypeOK
    OBVIOUS
  <1>1. call \in [Threads -> Calls]
    BY CallTypes DEF Init
  <1>2. accepted \in Seq(Msg) /\ handled \in Seq(Msg) /\ released \in Seq(Msg)
    BY DEF Init
  <1> QED
    BY <1>1, <1>2 DEF Init, TypeOK, States, PCs, Nodes

\* Type correctness is inductive on its own.
LEMMA NextTypeOK == TypeOK /\ [Next]_vars => TypeOK'
  <1> SUFFICES ASSUME TypeOK, [Next]_vars PROVE TypeOK'
    OBVIOUS
  <1> USE DEF TypeOK, States, PCs, Nodes
  <1>1. CASE PrepareLoop
    BY <1>1 DEF PrepareLoop, history
  <1>2. CASE LoopEnter \/ LoopTest \/ PollWait \/ SpuriousWakeup \/ ThreadExit
    BY <1>2 DEF LoopEnter, LoopTest, PollWait, SpuriousWakeup, ThreadExit,
                looperVars, history
  <1>3. CASE PollTake
    BY <1>3 DEF PollTake, Unlink, TailWithout, history
  <1>4. CASE HandleUser
    BY <1>4 DEF HandleUser
  <1>5. CASE HandleQuit
    BY <1>5 DEF HandleQuit, history
  <1>6. CASE FreeNode
    BY <1>6 DEF FreeNode, Release, Unlink
  <1>7. CASE FreeReadsFreedNode \/ FreeLooper
    BY <1>7 DEF FreeReadsFreedNode, FreeLooper, looperVars, history
  <1>8. ASSUME NEW t \in Threads, CallPost(t) \/ CallQuit(t) PROVE TypeOK'
    <2>1. PICK c \in Calls : call' = [call EXCEPT ![t] = c]
      BY <1>8, CallTypes DEF CallPost, CallQuit
    <2>2. call' \in [Threads -> Calls]
      BY <2>1
    <2> QED
      BY <1>8, <2>2 DEF CallPost, CallQuit, looperVars, history
  <1>9. ASSUME NEW t \in Threads, Post(t) PROVE TypeOK'
    <2> DEFINE c == call[t]
    <2>1. /\ c \in Calls /\ c # NoCall /\ call' = [call EXCEPT ![t] = NoCall]
          /\ UNCHANGED <<held, cur, handled>>
      BY <1>9 DEF Post
    <2>2. /\ c.msg \in Msg \cup {Quit}
          /\ c.type = "user" => c.msg \in Msg
          /\ c.type # "user" => c.type \in {"safe", "unsafe"}
      BY <2>1, CallTypes
    <2>3. call' \in [Threads -> Calls]
      BY <2>1, CallTypes
    <2>4. CASE Enqueue(c)
      <3>1. next' \in [Nodes -> Msg \cup {Quit, Null}] /\ tail' \in Nodes
        BY <2>2, <2>4 DEF Enqueue, Insert, InsertFront, InsertBack
      <3>2. pc' \in PCs /\ heap' \subseteq Nodes /\ released' \in Seq(Msg)
        BY <2>2, <2>4 DEF Enqueue, Signal
      <3>3. /\ accepted' \in Seq(Msg) /\ state' \in States
            /\ quit' \in {"none", "safe", "unsafe"}
        <4>1. CASE c.type = "user"
          <5>1. /\ accepted' = Append(accepted, c.msg)
                /\ state' = state /\ quit' = quit
            BY <2>4, <4>1 DEF Enqueue
          <5>2. accepted \in Seq(Msg) /\ c.msg \in Msg
            BY <2>2, <4>1
          <5>3. accepted' \in Seq(Msg)
            BY <5>1, <5>2, AppendProperties
          <5> QED
            BY <5>1, <5>3
        <4>2. CASE c.type # "user"
          <5>1. state' = "QUITING" /\ quit' = c.type /\ accepted' = accepted
            BY <2>4, <4>2 DEF Enqueue
          <5> QED
            BY <2>2, <4>2, <5>1
        <4> QED
          BY <4>1, <4>2
      <3> QED
        BY <2>1, <2>3, <3>1, <3>2, <3>3
    <2>5. CASE Refuse(c) /\ UNCHANGED pc
      BY <2>1, <2>2, <2>3, <2>5 DEF Refuse, Release
    <2> QED
      BY <1>9, <2>4, <2>5 DEF Post
  <1>10. ASSUME NEW t \in Threads, PostAfterFree(t) PROVE TypeOK'
    BY <1>10 DEF PostAfterFree, looperVars, history
  <1>11. CASE UNCHANGED vars
    BY <1>11 DEF vars
  <1> QED
    BY <1>1, <1>2, <1>3, <1>4, <1>5, <1>6, <1>7, <1>8, <1>9, <1>10, <1>11
    DEF Next, OwnerStep, Answer

----------------------------------------------------------------------------
(***************************************************************************)
(* The inductive invariant.  ListShape alone is not inductive: appending   *)
(* keeps the pointers right only because the message is not in the queue   *)
(* yet (CallsAreFresh, AcceptedOnce), and taking only because the message  *)
(* the owner holds is the next one (CurIsNext).                            *)
(***************************************************************************)
CallsAreFresh ==
    /\ \A t \in Threads, i \in 1..Len(accepted) : call[t].msg # accepted[i]
    /\ \A t, u \in Threads : call[t].msg \in Msg /\ call[t].msg = call[u].msg => t = u

AcceptedOnce ==
    \A i, j \in 1..Len(accepted) : accepted[i] = accepted[j] => i = j

HandledIsPrefix ==
    /\ Len(handled) <= Len(accepted)
    /\ \A i \in 1..Len(handled) : handled[i] = accepted[i]

CurIsNext ==
    /\ (pc = "handling") = (cur # Null)
    /\ cur # Null => Live
    /\ cur \in Msg => /\ Len(handled) < Len(accepted)
                      /\ cur = accepted[Len(handled) + 1]

QuitState ==
    /\ Accepting = (quit = "none")
    /\ cur = Quit => /\ state = "QUITING"
                     /\ quit = "safe" => Len(handled) = Len(accepted)
    /\ state = "QUIT" /\ quit = "safe" => Len(handled) = Len(accepted)
    /\ pc = "init" => state # "LOOP"
    /\ pc \in {"poll", "waiting"} => state # "QUIT"
    /\ pc = "none" => /\ state = "INIT" /\ heap = {} /\ accepted = <<>>
                      /\ \A t \in Threads : call[t] = NoCall
    /\ pc \in {"left", "freeing", "gone", "undefined"} => ~Accepting

IInv == /\ TypeOK /\ CallsAreFresh /\ AcceptedOnce /\ HandledIsPrefix
        /\ CurIsNext /\ QuitState /\ ListShape /\ NoLostWakeup

LEMMA InitIInv == Init => IInv
  <1> SUFFICES ASSUME Init PROVE IInv
    OBVIOUS
  <1>1. TypeOK
    BY InitTypeOK
  <1>2. Len(accepted) = 0 /\ Len(handled) = 0
    BY DEF Init
  <1>3. CallsAreFresh /\ AcceptedOnce /\ HandledIsPrefix
    BY <1>2 DEF Init, CallsAreFresh, AcceptedOnce, HandledIsPrefix, NoCall
  <1>4. CurIsNext /\ QuitState /\ ListShape /\ NoLostWakeup
    BY DEF Init, CurIsNext, QuitState, Accepting, ListShape, Live, NoLostWakeup
  <1> QED
    BY <1>1, <1>3, <1>4 DEF IInv

\* A step that moves neither the list nor the histories keeps the shape.
LEMMA QuietStep ==
    ASSUME IInv, UNCHANGED <<looperVars, cur, accepted, handled>>, Live' => Live
    PROVE  AcceptedOnce' /\ HandledIsPrefix' /\ ListShape'
  BY DEF IInv, looperVars, AcceptedOnce, HandledIsPrefix, ListShape, Links,
         TailIsLast, HeapIsQueue, QuitFirst, QuitLast, Taken, Accepting

\* PollTake: what the pointer to the first node says about the message taken.
LEMMA FirstNode ==
    ASSUME IInv, Live, cur = Null, next[Sentinel] # Null
    PROVE  \/ /\ next[Sentinel] = Quit /\ QuitFirst
           \/ /\ next[Sentinel] = Quit /\ QuitLast /\ Len(handled) = Len(accepted)
           \/ /\ ~QuitFirst /\ Len(handled) < Len(accepted)
              /\ next[Sentinel] = accepted[Len(handled) + 1]
              /\ next[Sentinel] \in Msg
  <1>1. Taken = Len(handled) /\ Len(handled) \in Nat /\ Len(accepted) \in Nat
    BY DEF Taken, IInv, TypeOK
  <1>2. Len(handled) <= Len(accepted)
    BY DEF IInv, HandledIsPrefix
  <1>3. Links
    BY DEF IInv, ListShape
  <1>4. CASE QuitFirst
    BY <1>3, <1>4 DEF Links
  <1>5. CASE ~QuitFirst /\ Len(handled) < Len(accepted)
    <2>1. accepted[Len(handled) + 1] \in Msg
      BY <1>1, <1>5 DEF IInv, TypeOK
    <2> QED
      BY <1>1, <1>3, <1>5, <2>1 DEF Links
  <1>6. CASE ~QuitFirst /\ Len(handled) = Len(accepted)
    BY <1>1, <1>3, <1>6 DEF Links
  <1> QED
    BY <1>1, <1>2, <1>4, <1>5, <1>6

LEMMA PollTakeStep == IInv /\ PollTake => IInv'
  <1> SUFFICES ASSUME IInv, PollTake PROVE IInv'
    OBVIOUS
  <1> DEFINE ret == next[Sentinel]
             len == Len(accepted)
             h   == Len(handled)
  <1>1. TypeOK /\ TypeOK'
    BY NextTypeOK DEF IInv, Next, OwnerStep
  <1>2. /\ pc = "poll" /\ pc' = "handling" /\ cur = Null /\ cur' = ret /\ ret # Null
        /\ Live /\ Live' /\ Taken = h /\ h \in Nat /\ len \in Nat /\ h <= len
        /\ UNCHANGED <<state, heap, held, quit, call, accepted, handled, released>>
    BY <1>1 DEF PollTake, IInv, CurIsNext, Live, Taken, TypeOK, history, HandledIsPrefix
  <1>3. /\ next' = [next EXCEPT ![Sentinel] = next[ret]]
        /\ tail' = IF tail = ret THEN Sentinel ELSE tail
    BY DEF PollTake, Unlink, TailWithout
  <1>4. CallsAreFresh' /\ AcceptedOnce' /\ HandledIsPrefix' /\ HeapIsQueue' /\ NoLostWakeup'
    BY <1>2 DEF IInv, CallsAreFresh, AcceptedOnce, HandledIsPrefix, ListShape,
                HeapIsQueue, NoLostWakeup
  <1>5. \A i \in 1..len : accepted[i] \in Msg
    BY <1>1 DEF TypeOK
  <1>6. CurIsNext' /\ QuitState' /\ Links' /\ TailIsLast'
    <2>1. CASE ret = Quit /\ QuitFirst
      <3>1. Taken' = h /\ ~QuitFirst' /\ ~QuitLast' /\ ~QuitLast /\ ~Accepting'
        BY <1>2, <2>1 DEF Taken, QuitFirst, QuitLast, Accepting
      <3>2. Links'
        BY <1>1, <1>2, <1>3, <1>5, <2>1, <3>1 DEF IInv, ListShape, Links, TypeOK, Nodes
      <3> QED
        BY <1>2, <2>1, <3>1, <3>2
        DEF IInv, CurIsNext, QuitState, TailIsLast, QuitFirst, Accepting, Live
    <2>2. CASE ret = Quit /\ QuitLast /\ h = len
      <3>1. Taken' = h /\ ~QuitFirst' /\ ~QuitLast' /\ ~QuitFirst /\ ~Accepting'
        BY <1>2, <2>2 DEF Taken, QuitFirst, QuitLast, Accepting
      <3>2. Links'
        BY <1>1, <1>2, <1>3, <1>5, <2>2, <3>1 DEF IInv, ListShape, Links, TypeOK, Nodes
      <3> QED
        BY <1>2, <2>2, <3>1, <3>2
        DEF IInv, CurIsNext, QuitState, TailIsLast, QuitLast, Accepting, Live
    <2>3. CASE ~QuitFirst /\ h < len /\ ret = accepted[h + 1] /\ ret \in Msg
      <3>1. Taken' = h + 1 /\ ~QuitFirst' /\ QuitLast' = QuitLast /\ Accepting' = Accepting
        BY <1>2, <2>3 DEF Taken, QuitFirst, QuitLast, Accepting
      <3>2. \A i \in h + 2 .. len : next'[accepted[i]] = next[accepted[i]]
        BY <1>1, <1>3, <1>5 DEF TypeOK, Nodes
      <3>3. next'[Sentinel] = next[ret] /\ next'[Quit] = next[Quit]
        BY <1>1, <1>3 DEF TypeOK, Nodes
      <3>4. Links'
        BY <1>2, <2>3, <3>1, <3>2, <3>3 DEF IInv, ListShape, Links
      <3>5. TailIsLast'
        BY <1>2, <1>3, <2>3, <3>1 DEF IInv, ListShape, TailIsLast, AcceptedOnce
      <3> QED
        BY <1>2, <2>3, <3>1, <3>4, <3>5 DEF IInv, CurIsNext, QuitState, Accepting, Live
    <2> QED
      BY <1>2, <2>1, <2>2, <2>3, FirstNode
  <1> QED
    BY <1>1, <1>4, <1>6 DEF IInv, ListShape

\* The owner's other steps on the list: a handler returns, the node is freed.
LEMMA HandleStep == IInv /\ (HandleUser \/ HandleQuit) => IInv'
  <1> SUFFICES ASSUME IInv, HandleUser \/ HandleQuit PROVE IInv'
    OBVIOUS
  <1> DEFINE len == Len(accepted)
             h   == Len(handled)
  <1>1. TypeOK /\ TypeOK'
    BY NextTypeOK DEF IInv, Next, OwnerStep
  <1>2. /\ pc = "handling" /\ pc' = "top" /\ cur' = Null /\ heap' = heap \ {cur}
        /\ Live /\ Live' /\ h \in Nat /\ len \in Nat /\ h <= len
        /\ UNCHANGED <<next, tail, quit, held, call, accepted, released>>
    BY <1>1 DEF HandleUser, HandleQuit, IInv, Live, TypeOK, history, HandledIsPrefix
  <1>3. \A i \in 1..len : accepted[i] \in Msg
    BY <1>1 DEF TypeOK
  <1>4. CallsAreFresh' /\ AcceptedOnce' /\ NoLostWakeup'
    BY <1>2 DEF IInv, CallsAreFresh, AcceptedOnce, NoLostWakeup
  <1>5. CASE HandleUser
    <2>1. /\ cur \in Msg /\ handled' = Append(handled, cur) /\ Len(handled') = h + 1
          /\ h < len /\ cur = accepted[h + 1] /\ state' = state
      BY <1>1, <1>5 DEF HandleUser, IInv, CurIsNext, TypeOK
    <2>2. HandledIsPrefix'
      BY <1>1, <1>2, <2>1 DEF IInv, HandledIsPrefix, TypeOK
    <2>3. /\ Taken = h + 1 /\ Taken' = h + 1
          /\ QuitFirst' = QuitFirst /\ QuitLast' = QuitLast /\ Accepting' = Accepting
      BY <1>2, <2>1 DEF Taken, QuitFirst, QuitLast, Accepting
    <2>4. Links' /\ TailIsLast'
      BY <1>2, <2>3 DEF IInv, ListShape, Links, TailIsLast
    <2>5. HeapIsQueue'
      <3>1. {accepted[i] : i \in h + 2 .. len} = {accepted[i] : i \in h + 1 .. len} \ {cur}
        BY <1>2, <2>1 DEF IInv, AcceptedOnce
      <3> QED
        BY <1>2, <2>1, <3>1 DEF IInv, ListShape, HeapIsQueue
    <2>6. CurIsNext' /\ QuitState'
      BY <1>2, <2>1, <2>3 DEF IInv, CurIsNext, QuitState
    <2> QED
      BY <1>1, <1>4, <2>2, <2>4, <2>5, <2>6 DEF IInv, ListShape
  <1>6. CASE HandleQuit
    <2>1. cur = Quit /\ state = "QUITING" /\ state' = "QUIT" /\ handled' = handled
      BY <1>6 DEF HandleQuit, IInv, QuitState, history
    <2>2. /\ Taken = h /\ Taken' = h /\ ~Accepting' /\ ~Accepting
          /\ ~QuitFirst /\ ~QuitFirst' /\ ~QuitLast /\ ~QuitLast'
      BY <1>2, <2>1 DEF Taken, QuitFirst, QuitLast, Accepting
    <2>3. Links' /\ TailIsLast' /\ HandledIsPrefix'
      BY <1>2, <2>1, <2>2 DEF IInv, ListShape, Links, TailIsLast, HandledIsPrefix
    <2>4. HeapIsQueue'
      BY <1>2, <1>3, <2>1 DEF IInv, ListShape, HeapIsQueue
    <2>5. CurIsNext'
      BY <1>2 DEF CurIsNext
    <2>6. QuitState'
      <3>1. quit # "none" /\ (quit = "safe" => h = len)
        BY <2>1, <2>2 DEF IInv, QuitState
      <3> QED
        BY <1>2, <2>1, <3>1 DEF QuitState, Accepting
    <2> QED
      BY <1>1, <1>4, <2>3, <2>4, <2>5, <2>6 DEF IInv, ListShape
  <1> QED
    BY <1>5, <1>6

\* Steps of the owner that do not touch the list.
LEMMA OwnerQuietStep ==
    ASSUME IInv, PrepareLoop \/ LoopEnter \/ LoopTest \/ PollWait \/ SpuriousWakeup
                   \/ ThreadExit \/ FreeNode \/ FreeReadsFreedNode \/ FreeLooper
    PROVE  IInv'
  <1>1. TypeOK /\ TypeOK'
    BY NextTypeOK DEF IInv, Next, OwnerStep
  <1>2. /\ cur = Null /\ cur' = Null /\ UNCHANGED <<call, quit, accepted, handled>>
    BY DEF PrepareLoop, LoopEnter, LoopTest, PollWait, SpuriousWakeup, ThreadExit,
           FreeNode, FreeReadsFreedNode, FreeLooper, looperVars, history, IInv, CurIsNext
  <1>3. CallsAreFresh' /\ AcceptedOnce' /\ HandledIsPrefix' /\ CurIsNext'
    <2>1. pc' # "handling"
      BY DEF PrepareLoop, LoopEnter, LoopTest, PollWait, SpuriousWakeup, ThreadExit,
             FreeNode, FreeReadsFreedNode, FreeLooper
    <2> QED
      BY <1>2, <2>1 DEF IInv, CallsAreFresh, AcceptedOnce, HandledIsPrefix, CurIsNext
  <1>4. CASE PrepareLoop
    <2>1. /\ pc = "none" /\ state = "INIT" /\ state' = "INIT" /\ pc' = "init"
          /\ next'[Sentinel] = Null /\ tail' = Sentinel /\ heap' = {Sentinel}
          /\ accepted = <<>> /\ Len(accepted) = 0 /\ Len(handled) = 0
      BY <1>1, <1>4 DEF PrepareLoop, IInv, QuitState, HandledIsPrefix, TypeOK, Nodes
    <2>2. ListShape'
      BY <1>2, <2>1 DEF ListShape, Links, TailIsLast, HeapIsQueue, Taken, QuitFirst, QuitLast
    <2> QED
      BY <1>1, <1>2, <1>3, <2>1, <2>2 DEF IInv, QuitState, Accepting, NoLostWakeup
  <1>5. CASE LoopEnter
    <2>1. pc = "init" /\ UNCHANGED <<next, tail, heap>> /\ Live /\ Live'
      BY <1>5 DEF LoopEnter, Live
    <2>2. \/ state = "INIT" /\ state' = "LOOP" /\ pc' = "top"
          \/ state # "INIT" /\ state' = state /\ pc' = "left"
      BY <1>5 DEF LoopEnter
    <2>3. ListShape'
      BY <1>2, <2>1, <2>2 DEF IInv, ListShape, Links, TailIsLast, HeapIsQueue, Taken,
                              QuitFirst, QuitLast, Accepting
    <2>4. QuitState' /\ NoLostWakeup'
      <3>1. CASE state = "INIT"
        BY <1>2, <2>2, <3>1 DEF IInv, QuitState, Accepting, NoLostWakeup
      <3>2. CASE state # "INIT"
        <4>1. state # "LOOP"
          BY <2>1 DEF IInv, QuitState
        <4> QED
          BY <1>1, <1>2, <2>2, <3>2, <4>1
          DEF IInv, QuitState, Accepting, NoLostWakeup, TypeOK, States
      <3> QED
        BY <3>1, <3>2
    <2> QED
      BY <1>1, <1>3, <2>3, <2>4 DEF IInv
  <1>6. CASE LoopTest \/ PollWait \/ SpuriousWakeup
    <2>1. /\ UNCHANGED looperVars /\ Live /\ Live'
          /\ pc \in {"top", "poll", "waiting"} /\ pc' \in {"left", "poll", "waiting"}
          /\ pc' = "left" => state = "QUIT"
          /\ pc' = "waiting" => next[Sentinel] = Null
      BY <1>6 DEF LoopTest, PollWait, SpuriousWakeup, Live, MustLeave
    <2>2. ListShape'
      BY <1>2, <2>1, QuietStep
    <2>3. QuitState'
      <3>1. pc' \in {"poll", "waiting"} => state # "QUIT"
        BY <1>6 DEF LoopTest, PollWait, SpuriousWakeup, MustLeave, IInv, QuitState
      <3> QED
        BY <1>2, <2>1, <3>1 DEF IInv, QuitState, Accepting, looperVars
    <2> QED
      BY <1>1, <1>3, <2>1, <2>2, <2>3 DEF IInv, NoLostWakeup, looperVars
  <1>7. CASE ThreadExit \/ FreeNode \/ FreeReadsFreedNode \/ FreeLooper
    <2>1. /\ pc \in {"left", "freeing"} /\ pc' \in {"freeing", "gone", "undefined"}
          /\ state' = state
      BY <1>7 DEF ThreadExit, FreeNode, FreeReadsFreedNode, FreeLooper, looperVars
    <2> QED
      BY <1>1, <1>2, <1>3, <2>1
      DEF IInv, QuitState, Accepting, NoLostWakeup, ListShape, Live
  <1> QED
    BY <1>4, <1>5, <1>6, <1>7

----------------------------------------------------------------------------
LEMMA CallStep ==
    ASSUME IInv, NEW t \in Threads, CallPost(t) \/ CallQuit(t)
    PROVE  IInv'
  <1>1. TypeOK /\ TypeOK'
    BY NextTypeOK DEF IInv, Next
  <1>2. UNCHANGED <<looperVars, held, pc, cur, accepted, handled>>
    BY DEF CallPost, CallQuit, history
  <1>3. AcceptedOnce' /\ HandledIsPrefix' /\ ListShape'
    BY <1>2, QuietStep DEF Live
  <1>4. CurIsNext' /\ QuitState' /\ NoLostWakeup'
    <2>1. pc # "none"
      BY DEF CallPost, CallQuit, MayCall
    <2> QED
      BY <1>2, <2>1 DEF IInv, CurIsNext, QuitState, NoLostWakeup, Accepting, Live, looperVars
  <1>5. CallsAreFresh'
    <2>1. \A i \in 1..Len(accepted) : accepted[i] \in Msg /\ accepted[i] \in ToSet(accepted)
      BY <1>1 DEF TypeOK, ToSet
    <2>2. CASE CallPost(t)
      <3>1. PICK m \in Msg, h \in BOOLEAN :
              Fresh(m) /\ call' = [call EXCEPT ![t] = [type |-> "user", msg |-> m, h |-> h]]
        BY <2>2 DEF CallPost
      <3>2. m \notin ToSet(accepted) /\ \A u \in Threads : call[u].msg # m
        BY <3>1 DEF Fresh, Calling
      <3>3. call'[t].msg = m /\ \A u \in Threads \ {t} : call'[u] = call[u]
        BY <1>1, <3>1 DEF TypeOK
      <3> QED
        BY <1>2, <2>1, <3>2, <3>3 DEF IInv, CallsAreFresh
    <2>3. CASE CallQuit(t)
      <3>1. call'[t].msg = Quit /\ \A u \in Threads \ {t} : call'[u] = call[u]
        BY <1>1, <2>3 DEF CallQuit, TypeOK
      <3> QED
        BY <1>2, <2>1, <3>1 DEF IInv, CallsAreFresh
    <2> QED
      BY <2>2, <2>3
  <1> QED
    BY <1>1, <1>3, <1>4, <1>5 DEF IInv

\* post_message, a user message is appended.
LEMMA EnqueueUserStep ==
    ASSUME IInv, NEW t \in Threads, Post(t), Accepting, call[t].h,
           call[t].type = "user"
    PROVE  IInv'
  <1> DEFINE n   == call[t].msg
             len == Len(accepted)
             h   == Len(handled)
  <1>1. TypeOK /\ TypeOK'
    BY NextTypeOK DEF IInv, Next, Answer
  <1>2. call[t] \in Calls /\ call[t] # NoCall /\ Enqueue(call[t])
    BY <1>1 DEF Post, TypeOK
  <1>3. n \in Msg
    BY <1>2, CallTypes
  <1>4. /\ next' = [next EXCEPT ![n] = Null, ![tail] = n] /\ tail' = n
        /\ heap' = heap \cup {n} /\ accepted' = Append(accepted, n)
        /\ call' = [call EXCEPT ![t] = NoCall]
        /\ UNCHANGED <<state, quit, released, held, cur, handled>>
        /\ pc' = IF pc = "waiting" THEN "poll" ELSE pc
    BY <1>2, <1>3 DEF Post, Enqueue, Insert, InsertBack, Signal
  <1>5. /\ len \in Nat /\ h \in Nat /\ h <= len /\ Len(accepted') = len + 1
        /\ \A i \in 1..len : accepted[i] \in Msg /\ accepted'[i] = accepted[i]
        /\ accepted'[len + 1] = n
    BY <1>1, <1>3, <1>4 DEF TypeOK, IInv, HandledIsPrefix
  <1>6. \A i \in 1..len : accepted[i] # n
    BY DEF IInv, CallsAreFresh
  <1>7. /\ call'[t] = NoCall /\ \A u \in Threads \ {t} : call'[u] = call[u]
        /\ NoCall.msg = Null
    BY <1>1, <1>4 DEF TypeOK, NoCall
  <1>8. CallsAreFresh'
    BY <1>3, <1>5, <1>7 DEF IInv, CallsAreFresh
  <1>9. AcceptedOnce'
    BY <1>5, <1>6 DEF IInv, AcceptedOnce
  <1>10. HandledIsPrefix'
    BY <1>4, <1>5 DEF IInv, HandledIsPrefix
  <1>11. CurIsNext'
    BY <1>4, <1>5 DEF IInv, CurIsNext, Live
  <1>12. /\ Live /\ Live' /\ cur # Quit /\ ~QuitFirst /\ ~QuitLast
         /\ ~QuitFirst' /\ ~QuitLast' /\ Accepting'
    <2>1. Live
      BY <1>1, <1>2 DEF IInv, QuitState, Live, TypeOK, PCs, Post
    <2> QED
      BY <1>4, <2>1 DEF IInv, QuitState, Accepting, QuitFirst, QuitLast, Live
  <1>13. QuitState'
    BY <1>4, <1>5, <1>12 DEF IInv, QuitState, Accepting, Live
  <1>14. NoLostWakeup'
    BY <1>4 DEF NoLostWakeup
  <1>15. HeapIsQueue'
    BY <1>4, <1>5, <1>12 DEF IInv, ListShape, HeapIsQueue
  <1>16. /\ Taken' = Taken /\ Taken \in Nat /\ Taken <= len /\ Links /\ TailIsLast
    BY <1>4, <1>5, <1>12 DEF Taken, IInv, CurIsNext, ListShape
  <1>17. TailIsLast'
    BY <1>4, <1>5, <1>16 DEF TailIsLast
  <1>18. Links'
    <2>1. next \in [Nodes -> Msg \cup {Quit, Null}] /\ n \in Nodes /\ tail \in Nodes
      BY <1>1, <1>3 DEF TypeOK, Nodes
    <2>2. tail = IF Taken < len THEN accepted[len] ELSE Sentinel
      BY <1>16 DEF TailIsLast
    <2>3. tail # n
      BY <1>3, <1>5, <1>6, <1>16, <2>2
    <2>4. /\ next'[n] = Null /\ next'[tail] = n
          /\ \A x \in Nodes : x # n /\ x # tail => next'[x] = next[x]
      BY <1>4, <2>1, <2>3
    <2>5. ASSUME NEW i \in Taken + 1 .. len
          PROVE  next'[accepted[i]] = accepted'[i + 1]
      <3>1. CASE i = len
        BY <1>5, <1>16, <2>2, <2>4, <3>1
      <3>2. CASE i < len
        <4>1. accepted[i] # accepted[len]
          BY <1>5, <1>16, <3>2 DEF IInv, AcceptedOnce
        <4>2. next'[accepted[i]] = next[accepted[i]]
          BY <1>3, <1>5, <1>6, <1>16, <2>2, <2>4, <4>1, <3>2 DEF Nodes
        <4> QED
          BY <1>5, <1>12, <1>16, <3>2, <4>2 DEF Links
      <3> QED
        BY <1>5, <1>16, <3>1, <3>2
    <2>6. next'[Sentinel] = accepted'[Taken + 1]
      <3>1. CASE Taken < len
        <4>1. next'[Sentinel] = next[Sentinel]
          BY <1>3, <1>5, <1>16, <2>2, <2>4, <3>1 DEF Nodes
        <4> QED
          BY <1>5, <1>12, <1>16, <3>1, <4>1 DEF Links
      <3>2. CASE Taken = len
        BY <1>5, <1>16, <2>2, <2>4, <3>2
      <3> QED
        BY <1>5, <1>16, <3>1, <3>2
    <2> QED
      BY <1>5, <1>12, <1>16, <2>4, <2>5, <2>6 DEF Links
  <1> QED
    BY <1>1, <1>8, <1>9, <1>10, <1>11, <1>13, <1>14, <1>15, <1>17, <1>18
    DEF IInv, ListShape

\* post_message, a quit message is put behind or in front.
LEMMA EnqueueQuitStep ==
    ASSUME IInv, NEW t \in Threads, Post(t), Accepting, call[t].h,
           call[t].type # "user"
    PROVE  IInv'
  <1> DEFINE len == Len(accepted)
             h   == Len(handled)
             y   == call[t].type
  <1>1. TypeOK /\ TypeOK'
    BY NextTypeOK DEF IInv, Next, Answer
  <1>2. call[t] \in Calls /\ call[t] # NoCall /\ Enqueue(call[t])
    BY <1>1 DEF Post, TypeOK
  <1>3. y \in {"safe", "unsafe"} /\ call[t].msg = Quit
    BY <1>2, CallTypes
  <1>4. /\ heap' = heap \cup {Quit} /\ state' = "QUITING" /\ quit' = y
        /\ call' = [call EXCEPT ![t] = NoCall]
        /\ UNCHANGED <<accepted, released, held, cur, handled>>
        /\ pc' = IF pc = "waiting" THEN "poll" ELSE pc
    BY <1>2, <1>3 DEF Post, Enqueue, Signal
  <1>5. /\ len \in Nat /\ h \in Nat /\ h <= len
        /\ \A i \in 1..len : accepted[i] \in Msg
    BY <1>1 DEF TypeOK, IInv, HandledIsPrefix
  <1>6. /\ call'[t] = NoCall /\ \A u \in Threads \ {t} : call'[u] = call[u]
        /\ NoCall.msg = Null
    BY <1>1, <1>4 DEF TypeOK, NoCall
  <1>7. CallsAreFresh' /\ AcceptedOnce' /\ HandledIsPrefix'
    BY <1>4, <1>5, <1>6 DEF IInv, CallsAreFresh, AcceptedOnce, HandledIsPrefix
  <1>8. /\ Live /\ Live' /\ cur # Quit /\ state \in {"INIT", "LOOP"} /\ ~Accepting'
        /\ ~QuitFirst /\ ~QuitLast /\ QuitFirst' = (y = "unsafe") /\ QuitLast' = (y = "safe")
    <2>1. Live
      BY <1>1, <1>2 DEF IInv, QuitState, Live, TypeOK, PCs, Post
    <2>2. cur # Quit /\ state \in {"INIT", "LOOP"}
      BY <1>1 DEF IInv, QuitState, Accepting, TypeOK, States
    <2> QED
      BY <1>4, <2>1, <2>2 DEF Accepting, QuitFirst, QuitLast, Live
  <1>9. CurIsNext' /\ NoLostWakeup'
    BY <1>4, <1>8 DEF IInv, CurIsNext, NoLostWakeup
  <1>10. QuitState'
    BY <1>3, <1>4, <1>8 DEF QuitState, Live, Accepting
  <1>11. HeapIsQueue' /\ TailIsLast'
    BY <1>4, <1>8 DEF IInv, ListShape, HeapIsQueue, TailIsLast
  <1>12. /\ Taken' = Taken /\ Taken \in Nat /\ Taken <= len /\ Links /\ TailIsLast
    BY <1>4, <1>5, <1>8 DEF Taken, IInv, CurIsNext, ListShape
  <1>13. next \in [Nodes -> Msg \cup {Quit, Null}] /\ Quit \in Nodes /\ Sentinel \in Nodes
    BY <1>1 DEF TypeOK, Nodes
  <1>14. CASE y = "unsafe"
    <2>1. next' = [next EXCEPT ![Sentinel] = Quit, ![Quit] = next[Sentinel]]
      BY <1>2, <1>3, <1>14 DEF Enqueue, Insert, InsertFront
    <2>2. \A i \in 1..len : next'[accepted[i]] = next[accepted[i]]
      BY <1>5, <1>13, <2>1 DEF Nodes
    <2>3. next'[Sentinel] = Quit /\ next'[Quit] = next[Sentinel]
      BY <1>13, <2>1
    <2>4. next[Sentinel] = IF Taken < len THEN accepted[Taken + 1] ELSE Null
      BY <1>8, <1>12 DEF Links
    <2>5. \A i \in Taken + 1 .. len :
            next'[accepted[i]] = IF i < len THEN accepted[i + 1] ELSE Null
      BY <1>5, <1>8, <1>12, <2>2 DEF Links
    <2>6. ~QuitLast' /\ QuitFirst'
      BY <1>8, <1>14
    <2>7. Links'
      BY <1>4, <1>12, <2>3, <2>4, <2>5, <2>6 DEF Links
    <2> QED
      BY <1>1, <1>7, <1>9, <1>10, <1>11, <2>7 DEF IInv, ListShape
  <1>15. CASE y = "safe"
    <2>1. next' = [next EXCEPT ![Quit] = Null, ![tail] = Quit]
      BY <1>2, <1>3, <1>15 DEF Enqueue, Insert, InsertBack
    <2>2. tail = IF Taken < len THEN accepted[len] ELSE Sentinel
      BY <1>8, <1>12 DEF TailIsLast, Accepting
    <2>3. tail \in Nodes /\ tail # Quit
      BY <1>5, <1>12, <2>2 DEF Nodes
    <2>4. /\ next'[Quit] = Null /\ next'[tail] = Quit
          /\ \A x \in Nodes : x # Quit /\ x # tail => next'[x] = next[x]
      BY <1>13, <2>1, <2>3
    <2>5. ASSUME NEW i \in Taken + 1 .. len
          PROVE  next'[accepted[i]] = IF i < len THEN accepted[i + 1] ELSE Quit
      <3>1. CASE i = len
        BY <1>5, <1>12, <2>2, <2>4, <3>1
      <3>2. CASE i < len
        <4>1. accepted[i] # accepted[len]
          BY <1>5, <1>12, <3>2 DEF IInv, AcceptedOnce
        <4>2. next'[accepted[i]] = next[accepted[i]]
          BY <1>5, <1>12, <2>2, <2>4, <4>1, <3>2 DEF Nodes
        <4> QED
          BY <1>5, <1>8, <1>12, <3>2, <4>2 DEF Links
      <3> QED
        BY <1>5, <1>12, <3>1, <3>2
    <2>6. next'[Sentinel] = IF Taken < len THEN accepted[Taken + 1] ELSE Quit
      <3>1. CASE Taken < len
        <4>1. next'[Sentinel] = next[Sentinel]
          BY <1>5, <1>12, <1>13, <2>2, <2>4, <3>1
        <4> QED
          BY <1>5, <1>8, <1>12, <3>1, <4>1 DEF Links
      <3>2. CASE Taken = len
        BY <1>5, <1>12, <2>2, <2>4, <3>2
      <3> QED
        BY <1>5, <1>12, <3>1, <3>2
    <2>7. Links'
      BY <1>4, <1>5, <1>8, <1>12, <1>15, <2>4, <2>5, <2>6 DEF Links
    <2> QED
      BY <1>1, <1>7, <1>9, <1>10, <1>11, <2>7 DEF IInv, ListShape
  <1> QED
    BY <1>3, <1>14, <1>15

\* post_message refuses, or reads a looper that was freed.
LEMMA OtherAnswerStep ==
    ASSUME IInv, NEW t \in Threads,
           PostAfterFree(t) \/ (Post(t) /\ ~(Accepting /\ call[t].h))
    PROVE  IInv'
  <1>1. TypeOK /\ TypeOK'
    BY NextTypeOK DEF IInv, Next, Answer
  <1>2. /\ UNCHANGED <<looperVars, cur, accepted, handled>>
        /\ \A u \in Threads : call'[u] = call[u] \/ call'[u] = NoCall
        /\ pc' = pc \/ (pc = "gone" /\ pc' = "undefined")
    BY <1>1 DEF PostAfterFree, Post, Refuse, looperVars, history, TypeOK
  <1>3. Live' => Live
    BY <1>2 DEF Live
  <1>4. CallsAreFresh'
    <2>1. \A i \in 1..Len(accepted) : accepted[i] \in Msg
      BY <1>1 DEF TypeOK
    <2> QED
      BY <1>2, <2>1 DEF IInv, CallsAreFresh, NoCall
  <1>5. AcceptedOnce' /\ HandledIsPrefix' /\ ListShape'
    BY <1>2, <1>3, QuietStep
  <1>6. CurIsNext' /\ QuitState' /\ NoLostWakeup'
    BY <1>2 DEF IInv, CurIsNext, QuitState, NoLostWakeup, Accepting, Live, looperVars
  <1> QED
    BY <1>1, <1>4, <1>5, <1>6 DEF IInv

LEMMA StutterStep == IInv /\ UNCHANGED vars => IInv'
  BY QuietStep, NextTypeOK
  DEF vars, looperVars, IInv, CallsAreFresh, CurIsNext, QuitState, NoLostWakeup,
      Accepting, Live

LEMMA NextIInv == IInv /\ [Next]_vars => IInv'
  <1> SUFFICES ASSUME IInv, [Next]_vars PROVE IInv'
    OBVIOUS
  <1>1. CASE PollTake
    BY <1>1, PollTakeStep
  <1>2. CASE HandleUser \/ HandleQuit
    BY <1>2, HandleStep
  <1>3. CASE PrepareLoop \/ LoopEnter \/ LoopTest \/ PollWait \/ SpuriousWakeup
               \/ ThreadExit \/ FreeNode \/ FreeReadsFreedNode \/ FreeLooper
    BY <1>3, OwnerQuietStep
  <1>4. ASSUME NEW t \in Threads, CallPost(t) \/ CallQuit(t) PROVE IInv'
    BY <1>4, CallStep
  <1>5. ASSUME NEW t \in Threads, Answer(t) PROVE IInv'
    <2>1. CASE Post(t) /\ Accepting /\ call[t].h
      BY <2>1, EnqueueUserStep, EnqueueQuitStep
    <2> QED
      BY <1>5, <2>1, OtherAnswerStep DEF Answer
  <1>6. CASE UNCHANGED vars
    BY <1>6, StutterStep
  <1> QED
    BY <1>1, <1>2, <1>3, <1>4, <1>5, <1>6 DEF Next, OwnerStep

\* At every moment the list is well formed for where the thread of the loop is
\* in message_looper.c, messages are accepted once and handled in their order,
\* and no wakeup of the loop is lost.
THEOREM Invariance == Spec => []IInv
  BY InitIInv, NextIInv, PTL DEF Spec

----------------------------------------------------------------------------
\* Every variable of the message loop keeps its type, whatever the threads do.
THEOREM TypeCorrect == Spec => []TypeOK
  <1>1. IInv => TypeOK
    BY DEF IInv
  <1> QED
    BY <1>1, Invariance, PTL

\* post_message and poll_once keep the list equal to the queue of the accepted
\* messages not taken yet, with l->tail at its end while posts are accepted and
\* no freed node in it.
THEOREM ListIsQueue == Spec => []ListShape
  <1>1. IInv => ListShape
    BY DEF IInv
  <1> QED
    BY <1>1, Invariance, PTL

\* poll_once never sleeps on a list that has a message.
THEOREM WakeupsAreNotLost == Spec => []NoLostWakeup
  <1>1. IInv => NoLostWakeup
    BY DEF IInv
  <1> QED
    BY <1>1, Invariance, PTL

\* Two sequences with the same length and elements are equal; a sequence whose
\* elements begin another is its prefix.
LEMMA PrefixByElements ==
    ASSUME NEW S, NEW s \in Seq(S), NEW u \in Seq(S), Len(s) <= Len(u),
           \A i \in 1..Len(s) : s[i] = u[i]
    PROVE  IsPrefix(s, u) /\ (Len(s) = Len(u) => s = u)
  <1>1. SubSeq(u, 1, Len(s)) = s
    BY SubSeqProperties, SeqEqual
  <1>2. SubSeq(s, 1, Len(s)) = s
    BY SubSeqProperties, SeqEqual
  <1>3. Len(s) = Len(u) => s = u
    BY SeqEqual
  <1> QED
    BY <1>1, <1>2, <1>3 DEF IsPrefix

\* Handlers run in the order post_message accepted the messages; none is skipped.
THEOREM HandlersRunInOrder == Spec => []HandledInOrder
  <1>1. IInv => HandledInOrder
    BY PrefixByElements DEF IInv, TypeOK, HandledIsPrefix, HandledInOrder
  <1> QED
    BY <1>1, Invariance, PTL

\* When a safe quit was handled, every accepted message was handled before it.
THEOREM SafeQuitRunsAll == Spec => []SafeQuitDrains
  <1>1. IInv => SafeQuitDrains
    BY PrefixByElements DEF IInv, TypeOK, HandledIsPrefix, QuitState, SafeQuitDrains
  <1> QED
    BY <1>1, Invariance, PTL

\* After an unsafe quit was accepted poll_once hands out no user message.
THEOREM UnsafeQuitStopsAll == Spec => UnsafeQuitStops
  <1> DEFINE A == quit = "unsafe" /\ cur = Null => cur' \notin Msg
  <1>1. IInv /\ [Next]_vars => [A]_vars
    <2> SUFFICES ASSUME IInv, Next, quit = "unsafe", cur = Null PROVE cur' \notin Msg
      BY DEF A
    <2>1. CASE PollTake
      <3>1. Live /\ QuitFirst
        BY <2>1 DEF PollTake, IInv, TypeOK, States, QuitState, Accepting, QuitFirst, Live
      <3> QED
        BY <2>1, <3>1, FirstNode DEF PollTake
    <2>2. CASE ~PollTake
      <3>1. cur' \in {cur, Null}
        BY <2>2 DEF Next, OwnerStep, Answer, PrepareLoop, LoopEnter, LoopTest, PollWait,
             SpuriousWakeup, HandleUser, HandleQuit, ThreadExit, FreeNode,
             FreeReadsFreedNode, FreeLooper, CallPost, CallQuit, Post, PostAfterFree
      <3> QED
        BY <3>1
    <2> QED
      BY <2>1, <2>2
  <1>2. Spec => [][A]_vars
    BY <1>1, Invariance, PTL DEF Spec
  <1> QED
    BY <1>2 DEF UnsafeQuitStops
----------------------------------------------------------------------------
(***************************************************************************)
(* What becomes of a message, until the looper is gone.  The list stands   *)
(* at a message d of accepted: the ones after it are linked, the ones      *)
(* before it were taken or, when the looper is destroyed, released.        *)
(***************************************************************************)
Spells(d, first, last) ==
    LET end  == IF last THEN Quit ELSE Null
        head == IF d < Len(accepted) THEN accepted[d + 1] ELSE end
    IN  /\ \A i \in d + 1 .. Len(accepted) :
              next[accepted[i]] = IF i < Len(accepted) THEN accepted[i + 1] ELSE end
        /\ next[Sentinel] = IF first THEN Quit ELSE head
        /\ first => next[Quit] = head /\ ~last
        /\ last => next[Quit] = Null

Stands(d, first, last) ==
    /\ d \in Taken .. Len(accepted)
    /\ Spells(d, first, last)
    /\ \A i \in 1..Len(accepted) : accepted[i] \in ToSet(released) <=> Taken < i /\ i <= d
    /\ Live => d = Taken /\ first = QuitFirst /\ last = QuitLast

ReleasedOnce ==
    /\ \A i, j \in 1..Len(released) : released[i] = released[j] => i = j
    /\ \A t \in Threads : call[t].msg \notin ToSet(released)

HeldOrQuit ==
    /\ held => quit # "none" /\ pc \notin {"none", "init", "top", "poll", "waiting", "handling"}
    /\ pc \in {"left", "freeing", "gone", "undefined"} => held \/ state = "QUIT"
    /\ pc \in {"none", "init"} => handled = <<>>

FateInv == /\ ReleasedOnce /\ HeldOrQuit
           /\ \E d \in Nat, first, last \in BOOLEAN : Stands(d, first, last)

\* Every set of naturals that has an element has a least one.
LEMMA LeastNatural ==
    ASSUME NEW T \in SUBSET Nat, T # {}
    PROVE  \E n \in T : \A m \in T : n <= m
  <1>1. PICK n \in T : \A m \in T : <<m, n>> \notin OpToRel(<, Nat)
    BY NatLessThanWellFounded, WFMin
  <1>2. ASSUME NEW m \in T PROVE n <= m
    <2>1. ~(m < n)
      BY <1>1 DEF OpToRel
    <2> QED
      BY <2>1
  <1> QED
    BY <1>2

\* What the walk over the list is: any function that satisfies its recursion.
LEMMA NodeAtIs ==
    ASSUME NEW N \in Nat, N = Cardinality(Msg), NEW g,
           g = [k \in 0..N |->
                  IF k = 0 THEN IF next[Sentinel] = Quit THEN next[Quit] ELSE next[Sentinel]
                  ELSE IF g[k - 1] \in Msg THEN next[g[k - 1]] ELSE Null]
    PROVE  NodeAt = g
  <1>1. NodeAt = [k \in 0..N |->
                  IF k = 0 THEN IF next[Sentinel] = Quit THEN next[Quit] ELSE next[Sentinel]
                  ELSE IF NodeAt[k - 1] \in Msg THEN next[NodeAt[k - 1]] ELSE Null]
    BY Zenon DEF NodeAt
  <1> DEFINE T == {k \in 0..N : NodeAt[k] # g[k]}
  <1>2. T = {}
    <2> SUFFICES ASSUME T # {} PROVE FALSE
      OBVIOUS
    <2> T \in SUBSET Nat
      OBVIOUS
    <2> HIDE DEF T
    <2>1. PICK k \in T : \A m \in T : k <= m
      BY LeastNatural
    <2>2. k \in 0..N /\ NodeAt[k] # g[k]
      BY DEF T
    <2>3. CASE k = 0
      <3>1. NodeAt[k] = IF next[Sentinel] = Quit THEN next[Quit] ELSE next[Sentinel]
        BY <1>1, <2>2, <2>3
      <3>2. g[k] = IF next[Sentinel] = Quit THEN next[Quit] ELSE next[Sentinel]
        BY <2>2, <2>3
      <3> QED
        BY <2>2, <3>1, <3>2
    <2>4. CASE k # 0
      <3>1. k - 1 \in 0..N /\ ~(k <= k - 1)
        BY <2>2, <2>4
      <3>2. NodeAt[k - 1] = g[k - 1]
        BY <2>1, <3>1 DEF T
      <3>3. NodeAt[k] = IF NodeAt[k - 1] \in Msg THEN next[NodeAt[k - 1]] ELSE Null
        BY <1>1, <2>2, <2>4
      <3>4. g[k] = IF g[k - 1] \in Msg THEN next[g[k - 1]] ELSE Null
        BY <2>2, <2>4
      <3> QED
        BY <2>2, <3>2, <3>3, <3>4
    <2> QED
      BY <2>3, <2>4
  <1>3. \A k \in 0..N : NodeAt[k] = g[k]
    BY <1>2
  <1>4. DOMAIN NodeAt = 0..N /\ NodeAt = [k \in 0..N |-> NodeAt[k]]
    BY <1>1
  <1>5. DOMAIN g = 0..N /\ g = [k \in 0..N |-> g[k]]
    OBVIOUS
  <1> HIDE DEF T
  <1> QED
    BY <1>3, <1>4, <1>5

\* No message is accepted twice, so that the walk is long enough.
LEMMA AcceptedFits ==
    ASSUME TypeOK, AcceptedOnce
    PROVE  Cardinality(Msg) \in Nat /\ Len(accepted) <= Cardinality(Msg)
  <1> DEFINE f == [i \in 1..Len(accepted) |-> accepted[i]]
  <1>1. Len(accepted) \in Nat /\ f \in Injection(1..Len(accepted), Msg)
    BY DEF TypeOK, AcceptedOnce, Injection, IsInjective
  <1>2. Cardinality(1..Len(accepted)) = Len(accepted) /\ IsFiniteSet(1..Len(accepted))
    <2>1. ASSUME NEW n \in Nat PROVE Cardinality(1..n) = n /\ IsFiniteSet(1..n)
      BY FS_Interval
    <2> QED
      BY <1>1, <2>1
  <1>3. Cardinality(1..Len(accepted)) <= Cardinality(Msg)
    BY <1>1, FS_Injection, FiniteMessages
  <1>4. Cardinality(Msg) \in Nat
    BY FS_CardinalityType, FiniteMessages
  <1> QED
    BY <1>2, <1>3, <1>4

\* The walk finds the messages after the one the list stands at.
LEMMA InboxIs ==
    ASSUME TypeOK, AcceptedOnce, NEW d \in 0..Len(accepted),
           NEW first \in BOOLEAN, NEW last \in BOOLEAN, Spells(d, first, last)
    PROVE  Inbox = SubSeq(accepted, d + 1, Len(accepted))
  <1> DEFINE N   == Cardinality(Msg)
             len == Len(accepted)
             end == IF last THEN Quit ELSE Null
             g   == [k \in 0..N |-> IF k < len - d THEN accepted[d + 1 + k]
                                    ELSE IF k = len - d /\ k > 0 THEN end ELSE Null]
  <1>1. N \in Nat /\ len \in Nat /\ len <= N /\ d \in Nat /\ d <= len
    BY AcceptedFits DEF TypeOK
  <1>2. \A i \in 1..len : accepted[i] \in Msg
    BY DEF TypeOK
  <1>3. end \notin Msg
    OBVIOUS
  <1>4. g[0] = IF next[Sentinel] = Quit THEN next[Quit] ELSE next[Sentinel]
    <2>1. CASE d < len
      <3>1. next[Sentinel] = (IF first THEN Quit ELSE accepted[d + 1])
            /\ (first => next[Quit] = accepted[d + 1])
        BY <1>1, <2>1 DEF Spells
      <3>2. accepted[d + 1] # Quit /\ g[0] = accepted[d + 1]
        BY <1>1, <1>2, <2>1
      <3> HIDE DEF g
      <3> QED
        BY <3>1, <3>2
    <2>2. CASE d = len
      <3>1. next[Sentinel] = (IF first THEN Quit ELSE end)
            /\ (first => next[Quit] = Null) /\ (last => next[Quit] = Null)
        BY <1>1, <2>2 DEF Spells
      <3>2. g[0] = Null
        BY <1>1, <2>2
      <3> HIDE DEF g
      <3> QED
        BY <3>1, <3>2
    <2> QED
      BY <1>1, <2>1, <2>2
  <1>5. ASSUME NEW k \in 1..N
        PROVE  g[k] = IF g[k - 1] \in Msg THEN next[g[k - 1]] ELSE Null
    <2>1. CASE k <= len - d
      <3>1. g[k - 1] = accepted[d + k] /\ g[k - 1] \in Msg
        BY <1>1, <1>2, <2>1
      <3>2. next[accepted[d + k]] = IF d + k < len THEN accepted[d + k + 1] ELSE end
        BY <1>1, <2>1 DEF Spells
      <3>3. g[k] = IF k < len - d THEN accepted[d + 1 + k] ELSE end
        BY <1>1, <2>1
      <3>4. d + 1 + k = d + k + 1 /\ (k < len - d <=> d + k < len)
        BY <1>1
      <3> HIDE DEF g
      <3> QED
        BY <3>1, <3>2, <3>3, <3>4
    <2>2. CASE k > len - d
      <3>1. g[k - 1] \notin Msg /\ g[k] = Null
        BY <1>1, <1>3, <2>2
      <3> QED
        BY <3>1
    <2> QED
      BY <1>1, <2>1, <2>2
  <1>6. NodeAt = g
    <2>1. g = [k \in 0..N |->
                 IF k = 0 THEN IF next[Sentinel] = Quit THEN next[Quit] ELSE next[Sentinel]
                 ELSE IF g[k - 1] \in Msg THEN next[g[k - 1]] ELSE Null]
      <3>1. \A k \in 0..N : g[k] =
                 IF k = 0 THEN IF next[Sentinel] = Quit THEN next[Quit] ELSE next[Sentinel]
                 ELSE IF g[k - 1] \in Msg THEN next[g[k - 1]] ELSE Null
        <4> HIDE DEF g
        <4> QED
          BY <1>1, <1>4, <1>5
      <3>2. g = [k \in 0..N |-> g[k]]
        OBVIOUS
      <3> HIDE DEF g
      <3> QED
        BY <3>1, <3>2
    <2> HIDE DEF g
    <2> QED
      BY <1>1, <2>1, NodeAtIs
  <1>7. {k \in 0..N : NodeAt[k] \in Msg} = 0..(len - d - 1)
    BY <1>1, <1>2, <1>3, <1>6
  <1>8. Cardinality(0..(len - d - 1)) = len - d
    BY <1>1, FS_Interval
  <1>9. Inbox = [i \in 1..len - d |-> accepted[d + i]]
    <2>1. Inbox = [i \in 1..len - d |-> g[i - 1]]
      <3> HIDE DEF g
      <3> QED
        BY <1>6, <1>7, <1>8 DEF Inbox
    <2>2. \A i \in 1..len - d : g[i - 1] = accepted[d + i]
      BY <1>1
    <2> HIDE DEF g
    <2> QED
      BY <2>1, <2>2
  <1> QED
    BY <1>1, <1>2, <1>9, SubSeqProperties

LEMMA AppendSet ==
    ASSUME NEW S, NEW s \in Seq(S), NEW e \in S
    PROVE  /\ ToSet(s) = {s[i] : i \in 1..Len(s)}
           /\ ToSet(Append(s, e)) = ToSet(s) \cup {e}
  <1>1. /\ Append(s, e) \in Seq(S) /\ Len(Append(s, e)) = Len(s) + 1 /\ Len(s) \in Nat
        /\ \A i \in 1..Len(s) : Append(s, e)[i] = s[i]
        /\ Append(s, e)[Len(s) + 1] = e
    BY AppendProperties
  <1>2. DOMAIN s = 1..Len(s) /\ DOMAIN Append(s, e) = 1..Len(s) + 1
    BY <1>1, LenProperties
  <1>3. ToSet(s) = {s[i] : i \in 1..Len(s)}
    BY <1>2 DEF ToSet
  <1>4. ToSet(Append(s, e)) = {Append(s, e)[i] : i \in 1..Len(s) + 1}
    BY <1>2 DEF ToSet
  <1>5. 1..Len(s) + 1 = 1..Len(s) \cup {Len(s) + 1}
    BY <1>1
  <1> QED
    BY <1>1, <1>3, <1>4, <1>5

LEMMA InitFate == Init => FateInv
  <1> SUFFICES ASSUME Init PROVE FateInv
    OBVIOUS
  <1>1. Len(accepted) = 0 /\ Len(released) = 0 /\ ToSet(released) = {} /\ Taken = 0
    BY DEF Init, ToSet, Taken
  <1>2. Stands(0, FALSE, FALSE)
    BY <1>1 DEF Init, Stands, Spells, Live, Nodes
  <1>3. ReleasedOnce /\ HeldOrQuit
    BY <1>1 DEF Init, ReleasedOnce, HeldOrQuit
  <1> QED
    BY <1>2, <1>3 DEF FateInv

\* As long as the looper lives the list is what ListShape says.
LEMMA LiveStands ==
    ASSUME IInv', Live',
           \A i \in 1..Len(accepted') : accepted'[i] \notin ToSet(released')
    PROVE  (\E d \in Nat, first, last \in BOOLEAN : Stands(d, first, last))'
  <1>1. PICK d, first, last : d = Taken' /\ first = QuitFirst' /\ last = QuitLast'
    OBVIOUS
  <1>2. first \in BOOLEAN /\ last \in BOOLEAN /\ (first => ~last)
    BY <1>1 DEF QuitFirst, QuitLast
  <1>3. d \in Nat /\ Len(accepted') \in Nat /\ d <= Len(accepted')
    BY <1>1 DEF IInv, TypeOK, Taken, HandledIsPrefix, CurIsNext
  <1>4. Links'
    BY DEF IInv, ListShape
  <1>5. Spells(d, first, last)'
    BY <1>1, <1>2, <1>4 DEF Links, Spells
  <1>6. \A i \in 1..Len(accepted') : accepted'[i] \in ToSet(released') <=> Taken' < i /\ i <= d
    BY <1>1, <1>3
  <1> QED
    BY <1>1, <1>2, <1>3, <1>5, <1>6 DEF Stands

\* A living looper has released nothing it accepted.
LEMMA LiveReleasedNone ==
    ASSUME IInv, FateInv, Live \/ accepted = << >>
    PROVE  \A i \in 1..Len(accepted) : accepted[i] \notin ToSet(released)
  <1>1. PICK d \in Nat, first \in BOOLEAN, last \in BOOLEAN : Stands(d, first, last)
    BY DEF FateInv
  <1>2. Taken \in Nat
    BY DEF Taken, IInv, TypeOK
  <1>3. CASE Live
    BY <1>1, <1>2, <1>3 DEF Stands
  <1>4. CASE accepted = << >>
    BY <1>4
  <1> QED
    BY <1>3, <1>4

\* A step that moves neither the list nor the histories.
LEMMA FateQuiet ==
    ASSUME IInv, IInv', FateInv, UNCHANGED <<next, cur, history>>,
           Live' => Live \/ pc = "none"
    PROVE  (\E d \in Nat, first, last \in BOOLEAN : Stands(d, first, last))'
  <1>1. CASE Live'
    <2>1. Live \/ accepted = << >>
      BY <1>1 DEF IInv, QuitState
    <2> QED
      BY <1>1, <2>1, LiveStands, LiveReleasedNone DEF history
  <1>2. CASE ~Live'
    <2>1. PICK d \in Nat, first \in BOOLEAN, last \in BOOLEAN : Stands(d, first, last)
      BY DEF FateInv
    <2>2. Spells(d, first, last)' /\ Taken' = Taken
      BY <2>1 DEF Stands, Spells, Taken, history
    <2>3. Stands(d, first, last)'
      BY <1>2, <2>1, <2>2 DEF Stands, history
    <2> QED
      BY <2>3
  <1> QED
    BY <1>1, <1>2

\* Taking a message, and the end of its handler.
LEMMA FateHandle ==
    ASSUME IInv, IInv', FateInv, PollTake \/ HandleUser \/ HandleQuit \/ PrepareLoop
    PROVE  FateInv'
  <1>1. /\ Live' /\ UNCHANGED <<call, accepted, released, quit, held>>
        /\ Live \/ pc = "none"
        /\ pc' \notin {"left", "freeing", "gone", "undefined"}
        /\ ~held
    BY DEF PollTake, HandleUser, HandleQuit, PrepareLoop, history, Live, FateInv, HeldOrQuit
  <1>2. Live \/ accepted = << >>
    BY <1>1 DEF IInv, QuitState
  <1>3. (\E d \in Nat, first, last \in BOOLEAN : Stands(d, first, last))'
    BY <1>1, <1>2, LiveStands, LiveReleasedNone
  <1>4. ReleasedOnce'
    BY <1>1 DEF FateInv, ReleasedOnce
  <1>5. HeldOrQuit'
    BY <1>1 DEF FateInv, HeldOrQuit, PollTake, HandleUser, HandleQuit, PrepareLoop, history
  <1> QED
    BY <1>3, <1>4, <1>5 DEF FateInv

\* Steps of the owner and of callers that leave the list and the histories alone.
LEMMA FateOwnerQuiet ==
    ASSUME IInv, IInv', FateInv,
           LoopEnter \/ LoopTest \/ PollWait \/ SpuriousWakeup \/ ThreadExit
             \/ FreeReadsFreedNode \/ FreeLooper
    PROVE  FateInv'
  <1>1. UNCHANGED <<next, cur, history, call, quit>> /\ (Live' => Live)
    BY DEF LoopEnter, LoopTest, PollWait, SpuriousWakeup, ThreadExit,
           FreeReadsFreedNode, FreeLooper, looperVars, Live
  <1>2. (\E d \in Nat, first, last \in BOOLEAN : Stands(d, first, last))'
    BY <1>1, FateQuiet
  <1>3. ReleasedOnce'
    BY <1>1 DEF FateInv, ReleasedOnce, history
  <1>4. HeldOrQuit'
    <2>1. CASE LoopEnter
      BY <1>1, <2>1 DEF LoopEnter, FateInv, HeldOrQuit, IInv, QuitState, Accepting, TypeOK,
                        States, history
    <2>2. CASE LoopTest
      BY <1>1, <2>2 DEF LoopTest, MustLeave, FateInv, HeldOrQuit, looperVars, history
    <2>3. CASE PollWait \/ SpuriousWakeup \/ ThreadExit \/ FreeReadsFreedNode \/ FreeLooper
      BY <1>1, <2>3 DEF PollWait, SpuriousWakeup, ThreadExit, FreeReadsFreedNode, FreeLooper,
                        FateInv, HeldOrQuit, looperVars, history
    <2> QED
      BY <2>1, <2>2, <2>3
  <1> QED
    BY <1>2, <1>3, <1>4 DEF FateInv

LEMMA FateCall ==
    ASSUME IInv, IInv', FateInv, NEW t \in Threads, CallPost(t) \/ CallQuit(t)
    PROVE  FateInv'
  <1>1. UNCHANGED <<next, cur, history, quit, pc, held, state>>
    BY DEF CallPost, CallQuit, looperVars
  <1>2. (\E d \in Nat, first, last \in BOOLEAN : Stands(d, first, last))'
    BY <1>1, FateQuiet DEF Live
  <1>3. HeldOrQuit'
    BY <1>1 DEF FateInv, HeldOrQuit, history
  <1>4. ToSet(released) \subseteq Msg
    BY DEF IInv, TypeOK, ToSet
  <1>5. \A u \in Threads : call'[u].msg = call[u].msg \/ call'[u].msg \notin ToSet(released)
    <2>1. CASE CallPost(t)
      <3>1. PICK m \in Msg, h \in BOOLEAN :
              Fresh(m) /\ call' = [call EXCEPT ![t] = [type |-> "user", msg |-> m, h |-> h]]
        BY <2>1 DEF CallPost
      <3> QED
        BY <3>1 DEF Fresh, IInv, TypeOK
    <2>2. CASE CallQuit(t)
      BY <1>4, <2>2 DEF CallQuit, IInv, TypeOK
    <2> QED
      BY <2>1, <2>2
  <1> QED
    BY <1>1, <1>2, <1>3, <1>5 DEF FateInv, ReleasedOnce, history

\* _free_loop releases the message the list stands at, or drops the quit message.
LEMMA FateFreeNode == IInv /\ IInv' /\ FateInv /\ FreeNode => FateInv'
  <1> SUFFICES ASSUME IInv, IInv', FateInv, FreeNode PROVE FateInv'
    OBVIOUS
  <1> DEFINE n   == next[Sentinel]
             len == Len(accepted)
  <1>1. PICK d \in Nat, first \in BOOLEAN, last \in BOOLEAN : Stands(d, first, last)
    BY DEF FateInv
  <1>2. /\ pc = "freeing" /\ pc' = "freeing" /\ n # Null /\ ~Live'
        /\ next' = [next EXCEPT ![Sentinel] = next[n]]
        /\ released' = IF n \in Msg THEN Append(released, n) ELSE released
        /\ UNCHANGED <<state, held, quit, cur, call, accepted, handled>>
    BY DEF FreeNode, Unlink, Release, Live
  <1>3. /\ TypeOK /\ len \in Nat /\ Taken \in Nat /\ Taken' = Taken /\ d <= len
        /\ \A i \in 1..len : accepted[i] \in Msg
        /\ Sentinel \in Nodes
    BY <1>1, <1>2 DEF IInv, TypeOK, Taken, Nodes, Stands
  <1>4. next'[Sentinel] = next[n] /\ \A x \in Msg \cup {Quit} : next'[x] = next[x]
    BY <1>2, <1>3 DEF TypeOK, Nodes
  <1>5. HeldOrQuit'
    BY <1>2 DEF FateInv, HeldOrQuit
  <1>6. CASE ~first /\ d < len
    <2>1. n = accepted[d + 1] /\ n \in Msg /\ released \in Seq(Msg)
      BY <1>1, <1>3, <1>6 DEF Stands, Spells, TypeOK
    <2>2. /\ ToSet(released') = ToSet(released) \cup {n} /\ released' = Append(released, n)
          /\ ToSet(released) = {released[i] : i \in 1..Len(released)}
      BY <1>2, <2>1, AppendSet
    <2>3. Spells(d + 1, FALSE, last)'
      <3>1. next'[Sentinel] = IF d + 1 < len THEN accepted[d + 2]
                              ELSE IF last THEN Quit ELSE Null
        <4>1. d + 1 \in d + 1 .. len /\ d + 1 + 1 = d + 2
          BY <1>3, <1>6
        <4> QED
          BY <1>1, <1>4, <2>1, <4>1 DEF Stands, Spells
      <3>2. \A i \in d + 2 .. len :
              next'[accepted[i]] = IF i < len THEN accepted[i + 1] ELSE IF last THEN Quit ELSE Null
        BY <1>1, <1>3, <1>4 DEF Stands, Spells
      <3>3. last => next'[Quit] = Null
        BY <1>1, <1>4 DEF Stands, Spells
      <3>4. d + 1 + 1 = d + 2
        OBVIOUS
      <3> QED
        BY <1>2, <3>1, <3>2, <3>3, <3>4 DEF Spells
    <2>4. \A i \in 1..len : accepted[i] = n <=> i = d + 1
      BY <1>3, <1>6, <2>1 DEF IInv, AcceptedOnce
    <2>5. \A i \in 1..len : accepted[i] \in ToSet(released') <=> Taken < i /\ i <= d + 1
      BY <1>1, <1>3, <2>2, <2>4 DEF Stands
    <2>6. Stands(d + 1, FALSE, last)'
      <3>1. d + 1 \in Taken' .. Len(accepted')
        BY <1>1, <1>2, <1>3, <1>6 DEF Stands
      <3>2. \A i \in 1..Len(accepted') :
              accepted'[i] \in ToSet(released') <=> Taken' < i /\ i <= d + 1
        BY <1>2, <1>3, <2>5
      <3> QED
        BY <1>2, <2>3, <3>1, <3>2 DEF Stands
    <2>7. n \notin ToSet(released) /\ \A t \in Threads : call[t].msg # n
      BY <1>1, <1>3, <1>6, <2>1 DEF Stands, IInv, CallsAreFresh
    <2>8. ReleasedOnce'
      BY <1>2, <2>1, <2>2, <2>7 DEF FateInv, ReleasedOnce
    <2>9. d + 1 \in Nat
      OBVIOUS
    <2> QED
      BY <1>5, <2>6, <2>8, <2>9 DEF FateInv
  <1>7. CASE first \/ d = len
    <2>1. n = Quit
      BY <1>1, <1>2, <1>3, <1>7 DEF Stands, Spells
    <2>2. released' = released
      BY <1>2, <2>1
    <2>3. Spells(d, FALSE, FALSE)'
      BY <1>1, <1>2, <1>3, <1>4, <1>7, <2>1 DEF Stands, Spells
    <2>4. Stands(d, FALSE, FALSE)'
      BY <1>1, <1>2, <1>3, <2>2, <2>3 DEF Stands
    <2>5. ReleasedOnce'
      BY <1>2, <2>2 DEF FateInv, ReleasedOnce
    <2> QED
      BY <1>5, <2>4, <2>5 DEF FateInv
  <1> QED
    BY <1>3, <1>6, <1>7

\* post_message accepts: what it links was not released.
LEMMA FateAccept ==
    ASSUME IInv, IInv', FateInv, NEW t \in Threads, Post(t), Accepting /\ call[t].h
    PROVE  FateInv'
  <1> DEFINE c == call[t]
  <1>1. /\ TypeOK /\ TypeOK' /\ c \in Calls /\ c # NoCall /\ Enqueue(c)
        /\ call' = [call EXCEPT ![t] = NoCall] /\ UNCHANGED <<held, handled, released>>
    BY DEF Post, Enqueue, IInv, TypeOK
  <1>2. pc' = IF pc = "waiting" THEN "poll" ELSE pc
    BY <1>1 DEF Enqueue, Signal
  <1>3. Live /\ Live'
    <2>1. Live
      BY <1>1 DEF IInv, QuitState, Live, TypeOK, PCs, Post
    <2> QED
      BY <1>2, <2>1 DEF Live
  <1>4. \A i \in 1..Len(accepted') : accepted'[i] \notin ToSet(released')
    <2>1. \A i \in 1..Len(accepted) : accepted[i] \notin ToSet(released)
      BY <1>3, LiveReleasedNone
    <2>2. CASE c.type = "user"
      <3>1. accepted' = Append(accepted, c.msg) /\ c.msg \in Msg
        BY <1>1, <2>2, CallTypes DEF Enqueue
      <3>2. /\ Len(accepted') = Len(accepted) + 1 /\ accepted'[Len(accepted) + 1] = c.msg
            /\ \A i \in 1..Len(accepted) : accepted'[i] = accepted[i]
            /\ Len(accepted) \in Nat
        BY <1>1, <3>1 DEF TypeOK
      <3>3. c.msg \notin ToSet(released)
        BY DEF FateInv, ReleasedOnce
      <3> QED
        BY <1>1, <2>1, <3>2, <3>3
    <2>3. CASE c.type # "user"
      BY <1>1, <2>1, <2>3 DEF Enqueue
    <2> QED
      BY <2>2, <2>3
  <1>5. (\E d \in Nat, first, last \in BOOLEAN : Stands(d, first, last))'
    BY <1>3, <1>4, LiveStands
  <1>6. ToSet(released) \subseteq Msg
    BY <1>1 DEF TypeOK, ToSet
  <1>7. ReleasedOnce'
    <2>1. \A u \in Threads : call'[u] = call[u] \/ call'[u].msg = Null
      BY <1>1 DEF TypeOK, NoCall
    <2> QED
      BY <1>1, <1>6, <2>1 DEF FateInv, ReleasedOnce
  <1>8. HeldOrQuit'
    <2>1. quit = "none" /\ ~held /\ pc \notin {"left", "freeing", "gone", "undefined"}
      BY DEF IInv, QuitState, FateInv, HeldOrQuit
    <2> QED
      BY <1>1, <1>2, <2>1 DEF FateInv, HeldOrQuit
  <1> QED
    BY <1>5, <1>7, <1>8 DEF FateInv

\* post_message refuses and releases, or reads a looper that was freed.
LEMMA FateRefuse ==
    ASSUME IInv, IInv', FateInv, NEW t \in Threads,
           PostAfterFree(t) \/ (Post(t) /\ ~(Accepting /\ call[t].h))
    PROVE  FateInv'
  <1> DEFINE m == call[t].msg
  <1>1. CASE PostAfterFree(t)
    <2>1. UNCHANGED <<next, cur, history, call, quit, held, state>> /\ ~Live'
          /\ pc = "gone" /\ pc' = "undefined"
      BY <1>1 DEF PostAfterFree, looperVars, Live
    <2>2. (\E d \in Nat, first, last \in BOOLEAN : Stands(d, first, last))'
      BY <2>1, FateQuiet
    <2> QED
      BY <2>1, <2>2 DEF FateInv, ReleasedOnce, HeldOrQuit, history
  <1>2. CASE Post(t) /\ ~(Accepting /\ call[t].h)
    <2>1. /\ TypeOK /\ call[t] \in Calls /\ call[t] # NoCall
          /\ call' = [call EXCEPT ![t] = NoCall]
          /\ released' = IF m \in Msg THEN Append(released, m) ELSE released
          /\ UNCHANGED <<next, state, quit, held, cur, pc, accepted, handled>>
      BY <1>2 DEF Post, Refuse, Release, IInv, TypeOK
    <2>2. /\ released \in Seq(Msg) /\ Len(accepted) \in Nat
          /\ \A u \in Threads \ {t} : call'[u] = call[u]
          /\ call'[t].msg = Null
      BY <2>1 DEF TypeOK, NoCall
    <2>3. HeldOrQuit'
      BY <2>1 DEF FateInv, HeldOrQuit
    <2>4. CASE m \in Msg
      <3>1. /\ ToSet(released') = ToSet(released) \cup {m} /\ released' = Append(released, m)
            /\ ToSet(released) = {released[i] : i \in 1..Len(released)}
            /\ ToSet(released) \subseteq Msg
        BY <2>1, <2>2, <2>4, AppendSet DEF ToSet
      <3>2. \A i \in 1..Len(accepted) : accepted[i] # m
        BY DEF IInv, CallsAreFresh
      <3>3. (\E d \in Nat, first, last \in BOOLEAN : Stands(d, first, last))'
        <4>1. CASE Live'
          <5>1. Live
            BY <2>1, <4>1 DEF Live
          <5>2. \A i \in 1..Len(accepted) : accepted[i] \notin ToSet(released)
            BY <5>1, LiveReleasedNone
          <5> QED
            BY <2>1, <3>1, <3>2, <4>1, <5>2, LiveStands
        <4>2. CASE ~Live'
          <5>1. PICK d \in Nat, first \in BOOLEAN, last \in BOOLEAN : Stands(d, first, last)
            BY DEF FateInv
          <5>2. Spells(d, first, last)' /\ Taken' = Taken
            BY <2>1, <5>1 DEF Stands, Spells, Taken
          <5>3. Stands(d, first, last)'
            BY <2>1, <3>1, <3>2, <4>2, <5>1, <5>2 DEF Stands
          <5> QED
            BY <5>3
        <4> QED
          BY <4>1, <4>2
      <3>4. m \notin ToSet(released) /\ \A u \in Threads \ {t} : call[u].msg # m
        BY <2>4 DEF FateInv, ReleasedOnce, IInv, CallsAreFresh
      <3>5. ReleasedOnce'
        BY <2>1, <2>2, <2>4, <3>1, <3>4 DEF FateInv, ReleasedOnce
      <3> QED
        BY <2>3, <3>3, <3>5 DEF FateInv
    <2>5. CASE m \notin Msg
      <3>1. UNCHANGED <<next, cur, history>> /\ (Live' => Live)
        BY <2>1, <2>5 DEF history, Live
      <3>2. (\E d \in Nat, first, last \in BOOLEAN : Stands(d, first, last))'
        BY <3>1, FateQuiet
      <3>3. ToSet(released) \subseteq Msg
        BY <2>1 DEF TypeOK, ToSet
      <3>4. ReleasedOnce'
        BY <2>1, <2>2, <2>5, <3>3 DEF FateInv, ReleasedOnce
      <3> QED
        BY <2>3, <3>2, <3>4 DEF FateInv
    <2> QED
      BY <2>4, <2>5
  <1> QED
    BY <1>1, <1>2

LEMMA NextFate == IInv /\ IInv' /\ FateInv /\ [Next]_vars => FateInv'
  <1> SUFFICES ASSUME IInv, IInv', FateInv, [Next]_vars PROVE FateInv'
    OBVIOUS
  <1>1. CASE PollTake \/ HandleUser \/ HandleQuit \/ PrepareLoop
    BY <1>1, FateHandle
  <1>2. CASE LoopEnter \/ LoopTest \/ PollWait \/ SpuriousWakeup \/ ThreadExit
               \/ FreeReadsFreedNode \/ FreeLooper
    BY <1>2, FateOwnerQuiet
  <1>3. CASE FreeNode
    BY <1>3, FateFreeNode
  <1>4. ASSUME NEW t \in Threads, CallPost(t) \/ CallQuit(t) PROVE FateInv'
    BY <1>4, FateCall
  <1>5. ASSUME NEW t \in Threads, Answer(t) PROVE FateInv'
    <2>1. CASE Post(t) /\ Accepting /\ call[t].h
      BY <2>1, FateAccept
    <2> QED
      BY <1>5, <2>1, FateRefuse DEF Answer
  <1>6. CASE UNCHANGED vars
    <2>1. UNCHANGED <<next, cur, history, call, quit, held, state, pc>>
      BY <1>6 DEF vars, history
    <2>2. (\E d \in Nat, first, last \in BOOLEAN : Stands(d, first, last))'
      BY <2>1, FateQuiet DEF Live
    <2> QED
      BY <2>1, <2>2 DEF FateInv, ReleasedOnce, HeldOrQuit, history
  <1> QED
    BY <1>1, <1>2, <1>3, <1>4, <1>5, <1>6 DEF Next, OwnerStep

\* The list stands at d and the walk over it gives the messages behind d.
InboxHolds ==
    \E d \in Nat, first, last \in BOOLEAN :
       Stands(d, first, last) /\ Inbox = SubSeq(accepted, d + 1, Len(accepted))

FullInv == IInv /\ FateInv /\ InboxHolds

LEMMA InboxRight == IInv /\ FateInv => InboxHolds
  <1> SUFFICES ASSUME IInv, FateInv PROVE InboxHolds
    OBVIOUS
  <1>1. PICK d \in Nat, first \in BOOLEAN, last \in BOOLEAN : Stands(d, first, last)
    BY DEF FateInv
  <1>2. d \in 0..Len(accepted) /\ Spells(d, first, last)
    BY <1>1 DEF Stands, IInv, TypeOK, Taken
  <1>3. Inbox = SubSeq(accepted, d + 1, Len(accepted))
    BY <1>2, InboxIs DEF IInv
  <1> QED
    BY <1>1, <1>3 DEF InboxHolds

\* With it, what becomes of each accepted message: those behind the ones that
\* were handled or freed are what the list still holds (handle, free_list).
THEOREM FullInvariance == Spec => []FullInv
  <1>1. Spec => []FateInv
    BY InitFate, NextFate, Invariance, PTL DEF Spec
  <1>2. IInv /\ FateInv => FullInv
    BY InboxRight DEF FullInv
  <1> QED
    BY <1>1, <1>2, Invariance, PTL

\* The ud of a message goes to its handler or to its free function, once, for
\* every sequence of posts, refused ones included, and also when the looper is
\* destroyed.
THEOREM FateIsOne == Spec => []OneFate
  <1>1. FullInv => OneFate
    <2> SUFFICES ASSUME FullInv PROVE OneFate
      OBVIOUS
    <2> DEFINE h == Len(handled)
               r == Len(released)
               s == handled \o released
    <2>1. PICK d \in Nat, first \in BOOLEAN, last \in BOOLEAN : Stands(d, first, last)
      BY DEF FullInv, FateInv
    <2>2. /\ handled \in Seq(Msg) /\ released \in Seq(Msg) /\ h \in Nat /\ r \in Nat
          /\ Taken \in Nat /\ h <= Taken /\ h <= Len(accepted) /\ Len(accepted) \in Nat
          /\ \A i \in 1..h : handled[i] = accepted[i]
      BY DEF FullInv, IInv, TypeOK, Taken, HandledIsPrefix
    <2>3. /\ s \in Seq(Msg) /\ Len(s) = h + r /\ DOMAIN s = 1..h + r
          /\ \A i \in 1..h : s[i] = handled[i]
          /\ \A i \in 1..r : s[h + i] = released[i]
      <3>1. /\ s \in Seq(Msg) /\ Len(s) = h + r
            /\ \A i \in 1..h + r : s[i] = IF i <= h THEN handled[i] ELSE released[i - h]
        BY <2>2, ConcatProperties
      <3> QED
        BY <2>2, <3>1, LenProperties
    <2>4. \A i \in 1..r : released[i] \in ToSet(released)
      BY <2>2, LenProperties DEF ToSet
    <2>5. \A i \in 1..h : accepted[i] \notin ToSet(released)
      BY <2>1, <2>2 DEF Stands
    <2>6. \A i, j \in 1..h + r : i <= h /\ j <= h /\ s[i] = s[j] => i = j
      BY <2>2, <2>3 DEF FullInv, IInv, AcceptedOnce
    <2>7. \A i, j \in 1..h + r : i <= h /\ j > h => s[i] # s[j]
      <3> SUFFICES ASSUME NEW i \in 1..h + r, NEW j \in 1..h + r, i <= h, j > h
                   PROVE  s[i] # s[j]
        OBVIOUS
      <3>1. j - h \in 1..r /\ s[j] = released[j - h] /\ i \in 1..h
        BY <2>2, <2>3
      <3> QED
        BY <2>2, <2>3, <2>4, <2>5, <3>1
    <2>8. \A i, j \in 1..h + r : i > h /\ j > h /\ s[i] = s[j] => i = j
      <3> SUFFICES ASSUME NEW i \in 1..h + r, NEW j \in 1..h + r, i > h, j > h, s[i] = s[j]
                   PROVE  i = j
        OBVIOUS
      <3>1. i - h \in 1..r /\ j - h \in 1..r /\ released[i - h] = released[j - h]
        BY <2>2, <2>3
      <3>2. i - h = j - h
        BY <3>1 DEF FullInv, FateInv, ReleasedOnce
      <3> QED
        BY <2>2, <3>2
    <2>9. ASSUME NEW i \in 1..h + r, NEW j \in 1..h + r, s[i] = s[j] PROVE i = j
      <3> HIDE DEF s
      <3>1. CASE i <= h /\ j <= h
        BY <2>6, <2>9, <3>1
      <3>2. CASE i > h /\ j > h
        BY <2>8, <2>9, <3>2
      <3>3. ~(i <= h /\ j > h) /\ ~(j <= h /\ i > h)
        BY <2>7, <2>9
      <3> QED
        BY <2>2, <3>1, <3>2, <3>3
    <2> QED
      BY <2>3, <2>9 DEF OneFate, IsInjective
  <1> QED
    BY <1>1, FullInvariance, PTL

\* No accepted message is lost: it is in the list, in the hands of the owner,
\* handled or released, whether the looper lives or is being destroyed.
THEOREM NoneIsLost == Spec => []NothingLost
  <1>1. FullInv => NothingLost
    <2> SUFFICES ASSUME FullInv, NEW m \in ToSet(accepted)
                 PROVE  m \in ToSet(Inbox) \cup {cur} \cup ToSet(handled \o released)
      BY DEF NothingLost
    <2> DEFINE h   == Len(handled)
               len == Len(accepted)
    <2>1. PICK d \in Nat, first \in BOOLEAN, last \in BOOLEAN :
            Stands(d, first, last) /\ Inbox = SubSeq(accepted, d + 1, len)
      BY DEF FullInv, InboxHolds
    <2>2. /\ handled \in Seq(Msg) /\ released \in Seq(Msg) /\ accepted \in Seq(Msg)
          /\ h \in Nat /\ len \in Nat /\ Len(released) \in Nat
          /\ \A i \in 1..h : handled[i] = accepted[i]
          /\ cur \in Msg => cur = accepted[h + 1]
          /\ Taken = IF cur \in Msg THEN h + 1 ELSE h
      BY DEF FullInv, IInv, TypeOK, Taken, HandledIsPrefix, CurIsNext
    <2>3. PICK i \in 1..len : m = accepted[i]
      BY <2>2, LenProperties DEF ToSet
    <2>4. ToSet(handled \o released) = ToSet(handled) \cup ToSet(released)
      <3>1. Range(handled \o released) = Range(handled) \cup Range(released)
        BY <2>2, RangeConcatenation
      <3> QED
        BY <3>1 DEF ToSet, Range
    <2>5. CASE i <= h
      <3>1. m = handled[i] /\ i \in DOMAIN handled
        BY <2>2, <2>3, <2>5, LenProperties
      <3> QED
        BY <2>4, <3>1 DEF ToSet
    <2>6. CASE h < i /\ i <= Taken
      BY <2>2, <2>3, <2>6
    <2>7. CASE Taken < i /\ i <= d
      BY <2>1, <2>3, <2>4, <2>7 DEF Stands
    <2>8. CASE d < i
      <3>1. /\ Inbox \in Seq(Msg) /\ Len(Inbox) = len - d /\ i - d \in 1..len - d
            /\ Inbox[i - d] = accepted[i]
        <4>1. \A j \in d + 1 .. len : accepted[j] \in Msg
          BY <2>2
        <4>2. /\ Inbox \in Seq(Msg) /\ Len(Inbox) = len - (d + 1) + 1
              /\ \A j \in 1..len - (d + 1) + 1 : Inbox[j] = accepted[d + 1 + j - 1]
          BY <2>1, <2>2, <2>3, <2>8, <4>1, SubSeqProperties
        <4> QED
          BY <2>2, <2>3, <2>8, <4>2
      <3> QED
        BY <2>3, <3>1, LenProperties DEF ToSet
    <2> QED
      BY <2>2, <2>3, <2>5, <2>6, <2>7, <2>8
  <1> QED
    BY <1>1, FullInvariance, PTL

----------------------------------------------------------------------------
(***************************************************************************)
(* The loop implements Mailbox: every step is a step of the mailbox that   *)
(* Inbox, Mode and the histories describe, or leaves that mailbox alone,   *)
(* unless loop() returns at once.                                          *)
(***************************************************************************)
Busy == IF cur \in Msg THEN cur ELSE Null

mailbox == <<Mode, Inbox, Busy, handled, released>>

\* A living looper: the inbox begins behind the message taken last.
LEMMA LiveInbox ==
    ASSUME FullInv, Live
    PROVE  Inbox = SubSeq(accepted, Taken + 1, Len(accepted))
  BY DEF FullInv, InboxHolds, Stands

\* How the mailbox is closed.
LEMMA ModeIs ==
    ASSUME FullInv
    PROVE  /\ Accepting => Mode = "open"
           /\ ~Accepting => Mode # "open"
           /\ state = "QUITING" /\ ~held => Mode = IF quit = "safe" THEN "draining" ELSE "closing"
           /\ held \/ state = "QUIT" => Mode = "closed"
  <1>1. /\ quit \in {"none", "safe", "unsafe"} /\ held \in BOOLEAN /\ state \in States
        /\ Accepting = (quit = "none") /\ (held => quit # "none")
    BY DEF FullInv, IInv, TypeOK, QuitState, FateInv, HeldOrQuit
  <1>2. Accepting => quit = "none" /\ ~held
    BY <1>1
  <1>3. ~Accepting => quit \in {"safe", "unsafe"} /\ state \in {"QUITING", "QUIT"}
    BY <1>1 DEF Accepting
  <1>4. Accepting => Mode = "open"
    BY <1>2 DEF Mode
  <1>5. ~Accepting => Mode # "open"
    BY <1>3 DEF Mode
  <1>6. state = "QUITING" /\ ~held => Mode = IF quit = "safe" THEN "draining" ELSE "closing"
    BY <1>3 DEF Mode, Accepting
  <1>7. held \/ state = "QUIT" => Mode = "closed"
    BY <1>1, <1>3 DEF Mode, Accepting
  <1> QED
    BY <1>4, <1>5, <1>6, <1>7

\* What the mailbox does not see.
LEMMA Unseen ==
    ASSUME UNCHANGED <<next, state, quit, held, cur, handled, released>>
    PROVE  UNCHANGED mailbox
  <1>1. Inbox' = Inbox
    BY DEF Inbox, NodeAt
  <1>2. Mode' = Mode
    BY DEF Mode
  <1> QED
    BY <1>1, <1>2 DEF mailbox, Busy

LEMMA QuietRefines ==
    ASSUME FullInv, LoopTest \/ PollWait \/ SpuriousWakeup \/ ThreadExit
                      \/ FreeReadsFreedNode \/ FreeLooper
                      \/ \E t \in Threads : CallPost(t) \/ CallQuit(t) \/ PostAfterFree(t)
    PROVE  UNCHANGED mailbox
  <1>1. UNCHANGED <<next, state, quit, held, cur, handled, released>>
    BY DEF LoopTest, PollWait, SpuriousWakeup, ThreadExit, FreeReadsFreedNode, FreeLooper,
           CallPost, CallQuit, PostAfterFree, looperVars, history
  <1> QED
    BY <1>1, Unseen

\* The rest of a sequence behind its d-th element.
LEMMA Rest ==
    ASSUME NEW S, NEW s \in Seq(S), NEW d \in 0..Len(s)
    PROVE  LET r == SubSeq(s, d + 1, Len(s)) IN
           /\ r \in Seq(S) /\ Len(r) = Len(s) - d
           /\ \A i \in 1..Len(s) - d : r[i] = s[d + i]
  <1> DEFINE r == SubSeq(s, d + 1, Len(s))
  <1>1. Len(s) \in Nat /\ \A i \in d + 1 .. Len(s) : s[i] \in S
    BY LenProperties
  <1>2. /\ r \in Seq(S) /\ Len(r) = Len(s) - (d + 1) + 1
        /\ \A i \in 1..Len(s) - (d + 1) + 1 : r[i] = s[d + 1 + i - 1]
    <2>1. d + 1 \in 1..Len(s) + 1
      BY <1>1
    <2>2. Len(s) \in d + 1 - 1 .. Len(s)
      BY <1>1
    <2> HIDE DEF r
    <2> QED
      BY <1>1, <2>1, <2>2, SubSeqProperties DEF r
  <1> HIDE DEF r
  <1>3. Len(s) - (d + 1) + 1 = Len(s) - d
    BY <1>1
  <1>4. \A i \in 1..Len(s) - d : d + 1 + i - 1 = d + i
    BY <1>1
  <1> QED
    BY <1>2, <1>3, <1>4 DEF r

LEMMA RestHead ==
    ASSUME NEW S, NEW s \in Seq(S), NEW d \in 0..Len(s), d < Len(s)
    PROVE  LET r == SubSeq(s, d + 1, Len(s)) IN
           r # << >> /\ Head(r) = s[d + 1] /\ Tail(r) = SubSeq(s, d + 2, Len(s))
  <1> DEFINE r == SubSeq(s, d + 1, Len(s))
             q == SubSeq(s, (d + 1) + 1, Len(s))
  <1>1. Len(s) \in Nat /\ d \in Nat /\ d + 1 \in 0..Len(s) /\ (d + 1) + 1 = d + 2
    BY LenProperties
  <1>2. /\ r \in Seq(S) /\ Len(r) = Len(s) - d
        /\ \A i \in 1..Len(s) - d : r[i] = s[d + i]
    BY Rest
  <1>3. /\ q \in Seq(S) /\ Len(q) = Len(s) - (d + 1)
        /\ \A i \in 1..Len(s) - (d + 1) : q[i] = s[d + 1 + i]
    BY <1>1, Rest
  <1> HIDE DEF r, q
  <1>4. r # << >> /\ Head(r) = s[d + 1]
    <2>1. r # << >> /\ Head(r) = r[1]
      BY <1>1, <1>2, EmptySeq, HeadTailProperties
    <2> QED
      BY <1>1, <1>2, <2>1
  <1>5. /\ Tail(r) \in Seq(S) /\ Len(Tail(r)) = Len(r) - 1
        /\ \A i \in 1..Len(Tail(r)) : Tail(r)[i] = r[i + 1]
    BY <1>2, <1>4, HeadTailProperties
  <1>6. \A i \in 1..Len(q) : Tail(r)[i] = q[i]
    <2> TAKE i \in 1..Len(q)
    <2>1. i \in 1..Len(s) - (d + 1) /\ i + 1 \in 1..Len(s) - d /\ d + (i + 1) = d + 1 + i
          /\ i \in 1..Len(Tail(r))
      BY <1>1, <1>2, <1>3, <1>5
    <2> QED
      BY <1>2, <1>3, <1>5, <2>1
  <1>7. Len(Tail(r)) = Len(q)
    BY <1>1, <1>2, <1>3, <1>5
  <1>8. Tail(r) = q
    BY <1>3, <1>5, <1>6, <1>7, SeqEqual
  <1> QED
    BY <1>1, <1>4, <1>8 DEF r, q

LEMMA RestAppend ==
    ASSUME NEW S, NEW s \in Seq(S), NEW e \in S, NEW d \in 0..Len(s)
    PROVE  SubSeq(Append(s, e), d + 1, Len(s) + 1) = Append(SubSeq(s, d + 1, Len(s)), e)
  <1> DEFINE t == Append(s, e)
             r == SubSeq(s, d + 1, Len(s))
             q == SubSeq(t, d + 1, Len(t))
             a == Append(r, e)
  <1>1. /\ Len(s) \in Nat /\ t \in Seq(S) /\ Len(t) = Len(s) + 1
        /\ \A i \in 1..Len(s) : t[i] = s[i]
        /\ t[Len(s) + 1] = e
    BY AppendProperties, LenProperties
  <1>2. d \in 0..Len(t)
    BY <1>1
  <1>3. /\ r \in Seq(S) /\ Len(r) = Len(s) - d
        /\ \A i \in 1..Len(s) - d : r[i] = s[d + i]
    BY Rest
  <1>4. /\ q \in Seq(S) /\ Len(q) = Len(t) - d
        /\ \A i \in 1..Len(t) - d : q[i] = t[d + i]
    <2> HIDE DEF t
    <2> QED
      BY <1>1, <1>2, Rest
  <1> HIDE DEF t, r, q
  <1>5. /\ a \in Seq(S) /\ Len(a) = Len(r) + 1
        /\ \A i \in 1..Len(r) : a[i] = r[i]
        /\ a[Len(r) + 1] = e
    BY <1>3, AppendProperties
  <1> HIDE DEF a
  <1>6. Len(a) = Len(q)
    BY <1>1, <1>3, <1>4, <1>5
  <1>7. \A i \in 1..Len(q) : a[i] = q[i]
    <2> TAKE i \in 1..Len(q)
    <2>1. CASE i <= Len(s) - d
      <3>1. a[i] = s[d + i]
        BY <1>1, <1>3, <1>5, <2>1
      <3>2. q[i] = t[d + i] /\ d + i \in 1..Len(s)
        BY <1>1, <1>4, <2>1
      <3> QED
        BY <1>1, <3>1, <3>2
    <2>2. CASE i > Len(s) - d
      <3>1. i = Len(r) + 1 /\ d + i = Len(s) + 1 /\ i \in 1..Len(t) - d
        BY <1>1, <1>3, <1>4, <2>2
      <3> QED
        BY <1>1, <1>4, <1>5, <3>1
    <2> QED
      BY <1>1, <2>1, <2>2
  <1>8. a = q
    BY <1>4, <1>5, <1>6, <1>7, SeqEqual
  <1> QED
    BY <1>1, <1>8 DEF t, a, r, q

LEMMA RestEmpty ==
    ASSUME NEW S, NEW s \in Seq(S)
    PROVE  SubSeq(s, Len(s) + 1, Len(s)) = << >>
  <1>1. Len(s) \in Nat
    BY LenProperties
  <1>2. Len(s) \in 0..Len(s) /\ Len(s) - Len(s) = 0
    BY <1>1
  <1> QED
    BY <1>2, Rest, EmptySeq

\* loop() begins: a looper that was quit before makes it return at once.
LEMMA LoopEnterRefines ==
    ASSUME FullInv, FullInv', LoopEnter
    PROVE  LoopReturnsAtOnce \/ UNCHANGED mailbox
  <1>1. /\ pc = "init" /\ cur = Null /\ handled = << >> /\ ~held
        /\ UNCHANGED <<next, quit, cur, handled, released>>
    BY DEF LoopEnter, history, FullInv, IInv, CurIsNext, FateInv, HeldOrQuit
  <1>2. Inbox' = Inbox
    BY <1>1 DEF Inbox, NodeAt
  <1>3. CASE state = "INIT"
    <2>1. Mode' = Mode
      <3>1. state' = "LOOP" /\ held' = held /\ Accepting /\ Accepting'
        BY <1>3 DEF LoopEnter, Accepting
      <3>2. quit = "none" /\ quit' = "none"
        BY <3>1 DEF FullInv, IInv, QuitState
      <3> QED
        BY <1>1, <3>1, <3>2 DEF Mode
    <2> QED
      BY <1>1, <1>2, <2>1 DEF mailbox, Busy
  <1>4. CASE state # "INIT"
    BY <1>1, <1>4 DEF LoopEnter, LoopReturnsAtOnce
  <1> QED
    BY <1>3, <1>4

\* Before the looper is prepared nothing was posted.
LEMMA PrepareRefines ==
    ASSUME FullInv, FullInv', PrepareLoop
    PROVE  UNCHANGED mailbox
  <1>1. /\ pc = "none" /\ state = "INIT" /\ state' = "INIT" /\ accepted = << >> /\ Live'
        /\ UNCHANGED <<held, cur, quit, accepted, handled, released>>
    BY DEF PrepareLoop, history, FullInv, IInv, QuitState, Live
  <1>2. Mode' = Mode
    BY <1>1 DEF Mode
  <1>3. Len(accepted) = 0 /\ accepted \in Seq(Msg) /\ SubSeq(accepted, 1, 0) = << >>
    BY <1>1
  <1>4. Inbox = << >>
    <2>1. PICK d \in Nat, first \in BOOLEAN, last \in BOOLEAN :
            Stands(d, first, last) /\ Inbox = SubSeq(accepted, d + 1, Len(accepted))
      BY DEF FullInv, InboxHolds
    <2>2. d = 0
      BY <1>3, <2>1 DEF Stands, Taken, FullInv, IInv, TypeOK
    <2> QED
      BY <1>3, <2>1, <2>2
  <1>5. Inbox' = << >>
    <2>1. PICK d \in Nat, first \in BOOLEAN, last \in BOOLEAN :
            Stands(d, first, last)' /\ Inbox' = SubSeq(accepted', d + 1, Len(accepted'))
      BY DEF FullInv, InboxHolds
    <2>2. d = 0
      BY <1>1, <1>3, <2>1 DEF Stands, Taken, FullInv, IInv, TypeOK
    <2> QED
      BY <1>1, <1>3, <2>1, <2>2
  <1> QED
    BY <1>1, <1>2, <1>4, <1>5 DEF mailbox, Busy

\* poll_once takes the message at the head of the inbox, or the quit message.
LEMMA PollTakeRefines ==
    ASSUME FullInv, FullInv', PollTake
    PROVE  [MB!Next]_mailbox
  <1> DEFINE ret == next[Sentinel]
             len == Len(accepted)
             h   == Len(handled)
  <1>1. /\ IInv /\ Live /\ Live' /\ cur = Null /\ cur' = ret /\ ret # Null
        /\ UNCHANGED <<state, held, quit, accepted, handled, released>>
        /\ h \in Nat /\ len \in Nat /\ h <= len /\ accepted \in Seq(Msg)
    BY DEF PollTake, history, FullInv, IInv, CurIsNext, Live, TypeOK, HandledIsPrefix
  <1>2. Taken = h /\ Taken' = IF ret \in Msg THEN h + 1 ELSE h
    BY <1>1 DEF Taken
  <1>3. /\ Inbox = SubSeq(accepted, Taken + 1, len)
        /\ Inbox' = SubSeq(accepted, Taken' + 1, len)
    <2>1. Inbox = SubSeq(accepted, Taken + 1, len)
      BY <1>1, LiveInbox
    <2>2. PICK d \in Nat, first \in BOOLEAN, last \in BOOLEAN :
            Stands(d, first, last)' /\ Inbox' = SubSeq(accepted', d + 1, Len(accepted'))
      BY DEF FullInv, InboxHolds
    <2> QED
      BY <1>1, <2>1, <2>2 DEF Stands
  <1>4. Mode' = Mode
    BY <1>1 DEF Mode
  <1>5. CASE ret = Quit
    <2>1. UNCHANGED <<Inbox, Busy>>
      BY <1>1, <1>2, <1>3, <1>5 DEF Busy
    <2> QED
      BY <1>1, <1>4, <2>1 DEF mailbox
  <1>6. CASE ~QuitFirst /\ h < len /\ ret = accepted[h + 1] /\ ret \in Msg
    <2>1. /\ Inbox # << >> /\ Head(Inbox) = ret
          /\ Tail(Inbox) = SubSeq(accepted, h + 2, len)
      <3>1. h \in 0..len
        BY <1>1
      <3> QED
        BY <1>1, <1>2, <1>3, <1>6, <3>1, RestHead
    <2>2. Inbox' = Tail(Inbox)
      <3>1. (h + 1) + 1 = h + 2
        BY <1>1
      <3> QED
        BY <1>2, <1>3, <1>6, <2>1, <3>1
    <2>3. Mode \in {"open", "draining"}
      <3>1. ~held /\ state # "QUIT"
        BY DEF PollTake, FullInv, IInv, QuitState, FateInv, HeldOrQuit
      <3>2. quit \in {"none", "safe", "unsafe"} /\ state \in States
            /\ Accepting = (quit = "none")
        BY DEF FullInv, IInv, TypeOK, QuitState
      <3>3. quit # "unsafe"
        BY <1>1, <1>6, <3>1, <3>2 DEF QuitFirst, Accepting, States
      <3>4. quit = "safe" => state = "QUITING"
        BY <3>1, <3>2 DEF Accepting, States
      <3> QED
        BY <3>1, <3>2, <3>3, <3>4 DEF Mode
    <2>4. Busy = Null /\ Busy' = ret
      BY <1>1, <1>6 DEF Busy
    <2>5. MB!Take
      BY <1>1, <1>4, <2>1, <2>2, <2>3, <2>4 DEF MB!Take, Busy
    <2> QED
      BY <2>5 DEF MB!Next
  <1> QED
    BY <1>1, <1>5, <1>6, FirstNode

\* The end of a handler; the quit message closes the mailbox.
LEMMA HandleRefines ==
    ASSUME FullInv, FullInv', HandleUser \/ HandleQuit
    PROVE  [MB!Next]_mailbox
  <1> DEFINE len == Len(accepted)
             h   == Len(handled)
  <1>1. /\ IInv /\ TypeOK /\ Live /\ Live' /\ pc = "handling" /\ cur' = Null
        /\ UNCHANGED <<next, held, quit, accepted, released>>
        /\ h \in Nat /\ len \in Nat
    BY DEF HandleUser, HandleQuit, history, FullInv, IInv, CurIsNext, Live, TypeOK
  <1>2. Inbox' = Inbox
    BY <1>1 DEF Inbox, NodeAt
  <1>3. CASE HandleUser
    <2>1. cur \in Msg /\ handled' = Append(handled, cur) /\ state' = state
      BY <1>3 DEF HandleUser
    <2>2. Mode' = Mode
      BY <1>1, <2>1 DEF Mode
    <2>3. MB!Finish
      BY <1>1, <1>2, <2>1, <2>2 DEF MB!Finish, Busy
    <2> QED
      BY <2>3 DEF MB!Next
  <1>4. CASE HandleQuit
    <2>1. cur = Quit /\ state = "QUITING" /\ state' = "QUIT" /\ handled' = handled
      BY <1>4 DEF HandleQuit, history, FullInv, IInv, QuitState
    <2>2. quit \in {"safe", "unsafe"} /\ ~held
      BY <1>1, <2>1 DEF IInv, QuitState, TypeOK, Accepting, FullInv, FateInv, HeldOrQuit
    <2>3. Mode = (IF quit = "safe" THEN "draining" ELSE "closing") /\ Mode' = "closed"
      BY <1>1, <2>1, <2>2 DEF Mode
    <2>4. quit = "safe" => Inbox = << >>
      <3>1. Inbox = SubSeq(accepted, h + 1, len)
        BY <1>1, <2>1, LiveInbox DEF Taken
      <3>2. quit = "safe" => h = len
        BY <1>1, <2>1 DEF IInv, QuitState
      <3>3. accepted \in Seq(Msg)
        BY <1>1 DEF TypeOK
      <3> QED
        BY <3>1, <3>2, <3>3, RestEmpty
    <2>5. Busy = Null /\ Busy' = Null
      BY <1>1, <2>1 DEF Busy
    <2>6. MB!Closed
      BY <1>1, <1>2, <2>1, <2>2, <2>3, <2>4, <2>5 DEF MB!Closed, Busy
    <2> QED
      BY <2>6 DEF MB!Next
  <1> QED
    BY <1>3, <1>4

\* post_message links the message behind the others, or the quit message.
LEMMA AcceptRefines ==
    ASSUME FullInv, FullInv', NEW t \in Threads, Post(t), Accepting /\ call[t].h
    PROVE  [MB!Next]_mailbox
  <1> DEFINE c   == call[t]
             len == Len(accepted)
  <1>1. /\ IInv /\ IInv' /\ TypeOK /\ TypeOK' /\ c \in Calls /\ c # NoCall /\ Enqueue(c)
        /\ UNCHANGED <<held, cur, handled, released>>
    BY DEF Post, Enqueue, FullInv, IInv, TypeOK
  <1>2. pc' = IF pc = "waiting" THEN "poll" ELSE pc
    BY <1>1 DEF Enqueue, Signal
  <1>3. Live /\ Live' /\ quit = "none" /\ ~held
    <2>1. Live /\ quit = "none"
      BY <1>1 DEF IInv, QuitState, Live, TypeOK, PCs, Post
    <2>2. ~held
      BY <2>1 DEF FullInv, FateInv, HeldOrQuit
    <2> QED
      BY <1>2, <2>1, <2>2 DEF Live
  <1>4. /\ accepted \in Seq(Msg) /\ accepted' \in Seq(Msg) /\ len \in Nat
        /\ Taken' = Taken /\ Taken \in 0..len
    BY <1>1 DEF Taken, IInv, TypeOK, HandledIsPrefix, CurIsNext
  <1>5. /\ Inbox = SubSeq(accepted, Taken + 1, len)
        /\ Inbox' = SubSeq(accepted', Taken + 1, Len(accepted'))
    <2>1. Inbox = SubSeq(accepted, Taken + 1, len)
      BY <1>3, LiveInbox
    <2>2. PICK d \in Nat, first \in BOOLEAN, last \in BOOLEAN :
            Stands(d, first, last)' /\ Inbox' = SubSeq(accepted', d + 1, Len(accepted'))
      BY DEF FullInv, InboxHolds
    <2> QED
      BY <1>3, <1>4, <2>1, <2>2 DEF Stands
  <1>6. Busy' = Busy
    BY <1>1 DEF Busy
  <1>7. CASE c.type = "user"
    <2>1. accepted' = Append(accepted, c.msg) /\ c.msg \in Msg /\ state' = state /\ quit' = quit
      BY <1>1, <1>7, CallTypes DEF Enqueue
    <2>2. Inbox' = Append(Inbox, c.msg)
      <3>1. Len(accepted') = len + 1
        BY <1>4, <2>1, AppendProperties
      <3> QED
        BY <1>4, <1>5, <2>1, <3>1, RestAppend
    <2>3. Mode = "open" /\ Mode' = "open"
      BY <1>1, <1>3, <2>1 DEF Mode
    <2>4. MB!Accept
      BY <1>1, <1>6, <2>1, <2>2, <2>3 DEF MB!Accept, Busy
    <2> QED
      BY <2>4 DEF MB!Next
  <1>8. CASE c.type # "user"
    <2>1. /\ c.type \in {"safe", "unsafe"} /\ state' = "QUITING" /\ quit' = c.type
          /\ accepted' = accepted
      BY <1>1, <1>8, CallTypes DEF Enqueue
    <2>2. Inbox' = Inbox
      BY <1>5, <2>1
    <2>3. Mode = "open" /\ Mode' \in {"draining", "closing"}
      BY <1>1, <1>3, <2>1 DEF Mode
    <2>4. MB!Close
      BY <1>1, <1>6, <2>2, <2>3 DEF MB!Close, Busy
    <2> QED
      BY <2>4 DEF MB!Next
  <1> QED
    BY <1>7, <1>8

\* post_message refuses: a user message is released.
LEMMA RefuseRefines ==
    ASSUME FullInv, NEW t \in Threads, Post(t), ~(Accepting /\ call[t].h)
    PROVE  [MB!Next]_mailbox
  <1> DEFINE m == call[t].msg
  <1>1. /\ released' = IF m \in Msg THEN Append(released, m) ELSE released
        /\ UNCHANGED <<next, state, quit, held, cur, handled>>
    BY DEF Post, Refuse, Release
  <1>2. UNCHANGED <<Mode, Inbox, Busy>>
    BY <1>1 DEF Mode, Inbox, NodeAt, Busy
  <1>3. CASE m \in Msg
    <2>1. MB!Refuse
      BY <1>1, <1>2, <1>3 DEF MB!Refuse, Busy
    <2> QED
      BY <2>1 DEF MB!Next
  <1>4. CASE m \notin Msg
    BY <1>1, <1>2, <1>4 DEF mailbox
  <1> QED
    BY <1>3, <1>4

\* _free_loop releases the head of the inbox, or drops the quit message.
LEMMA FreeRefines ==
    ASSUME FullInv, FullInv', FreeNode
    PROVE  [MB!Next]_mailbox
  <1> DEFINE n   == next[Sentinel]
             len == Len(accepted)
  <1>1. PICK d \in Nat, first \in BOOLEAN, last \in BOOLEAN :
          Stands(d, first, last) /\ Inbox = SubSeq(accepted, d + 1, len)
    BY DEF FullInv, InboxHolds
  <1>2. PICK e \in Nat, first1 \in BOOLEAN, last1 \in BOOLEAN :
          Stands(e, first1, last1)' /\ Inbox' = SubSeq(accepted', e + 1, Len(accepted'))
    BY DEF FullInv, InboxHolds
  <1>3. /\ IInv /\ TypeOK /\ pc = "freeing" /\ n # Null
        /\ released' = IF n \in Msg THEN Append(released, n) ELSE released
        /\ UNCHANGED <<state, held, quit, cur, accepted, handled>>
    BY DEF FreeNode, Release, FullInv, IInv
  <1>4. /\ len \in Nat /\ Taken \in Nat /\ Taken' = Taken /\ accepted \in Seq(Msg)
        /\ d \in Taken .. len /\ e \in Taken .. len
        /\ \A i \in 1..len : accepted[i] \in Msg
        /\ \A i \in 1..len : accepted[i] \in ToSet(released) <=> Taken < i /\ i <= d
        /\ \A i \in 1..len : accepted[i] \in ToSet(released') <=> Taken < i /\ i <= e
    <2>1. /\ len \in Nat /\ Taken \in Nat /\ Taken' = Taken /\ accepted \in Seq(Msg)
          /\ \A i \in 1..len : accepted[i] \in Msg
      BY <1>3 DEF TypeOK, Taken
    <2>2. /\ d \in Taken .. len
          /\ \A i \in 1..len : accepted[i] \in ToSet(released) <=> Taken < i /\ i <= d
      BY <1>1 DEF Stands
    <2>3. /\ e \in Taken .. len
          /\ \A i \in 1..len : accepted[i] \in ToSet(released') <=> Taken < i /\ i <= e
      BY <1>2, <1>3, <2>1 DEF Stands
    <2> QED
      BY <2>1, <2>2, <2>3
  <1>5. Mode = "closed" /\ Mode' = "closed"
    <2>1. held \/ state = "QUIT"
      BY <1>3 DEF FullInv, FateInv, HeldOrQuit
    <2>2. Mode = "closed"
      BY <2>1, ModeIs
    <2> QED
      BY <1>3, <2>2 DEF Mode
  <1>6. Busy' = Busy
    BY <1>3 DEF Busy
  <1>7. CASE ~first /\ d < len
    <2>1. n = accepted[d + 1] /\ n \in Msg /\ released \in Seq(Msg)
      BY <1>1, <1>3, <1>4, <1>7 DEF Stands, Spells, TypeOK
    <2>2. released' = Append(released, n) /\ ToSet(released') = ToSet(released) \cup {n}
      BY <1>3, <2>1, AppendSet
    <2>3. \A i \in 1..len : accepted[i] = n <=> i = d + 1
      BY <1>3, <1>4, <1>7, <2>1 DEF IInv, AcceptedOnce
    <2>4. e = d + 1
      <3>1. \A i \in 1..len : (Taken < i /\ i <= e) <=> (Taken < i /\ i <= d) \/ i = d + 1
        BY <1>4, <2>2, <2>3
      <3>2. d + 1 \in 1..len /\ Taken < d + 1
        BY <1>4, <1>7
      <3>3. d + 1 <= e
        BY <3>1, <3>2
      <3>4. ~(d + 1 < e)
        <4> SUFFICES ASSUME d + 1 < e PROVE FALSE
          OBVIOUS
        <4>1. e \in 1..len /\ Taken < e
          BY <1>4, <3>2
        <4> QED
          BY <1>4, <3>1, <4>1
      <3> QED
        BY <1>4, <3>3, <3>4
    <2>5. /\ Inbox # << >> /\ Head(Inbox) = n
          /\ Tail(Inbox) = SubSeq(accepted, d + 2, len)
      <3>1. d \in 0..len
        BY <1>4
      <3> QED
        BY <1>1, <1>4, <1>7, <2>1, <3>1, RestHead
    <2>6. Inbox' = Tail(Inbox)
      <3>1. (d + 1) + 1 = d + 2
        OBVIOUS
      <3> QED
        BY <1>2, <1>3, <2>4, <2>5, <3>1
    <2>7. MB!Discard
      BY <1>3, <1>5, <1>6, <2>2, <2>5, <2>6 DEF MB!Discard, Busy
    <2> QED
      BY <2>7 DEF MB!Next
  <1>8. CASE first \/ d = len
    <2>1. n = Quit
      BY <1>1, <1>3, <1>4, <1>8 DEF Stands, Spells
    <2>2. released' = released
      BY <1>3, <2>1
    <2>3. e = d
      <3>1. \A i \in 1..len : (Taken < i /\ i <= e) <=> (Taken < i /\ i <= d)
        BY <1>4, <2>2
      <3>2. ~(d < e)
        <4> SUFFICES ASSUME d < e PROVE FALSE
          OBVIOUS
        <4>1. e \in 1..len /\ Taken < e
          BY <1>4
        <4> QED
          BY <1>4, <3>1, <4>1
      <3>3. ~(e < d)
        <4> SUFFICES ASSUME e < d PROVE FALSE
          OBVIOUS
        <4>1. d \in 1..len /\ Taken < d
          BY <1>4
        <4> QED
          BY <1>4, <3>1, <4>1
      <3> QED
        BY <1>4, <3>2, <3>3
    <2> QED
      BY <1>1, <1>2, <1>3, <1>5, <1>6, <2>2, <2>3 DEF mailbox
  <1> QED
    BY <1>4, <1>7, <1>8

LEMMA InitRefines == Init => MB!Init
  <1> SUFFICES ASSUME Init PROVE MB!Init
    OBVIOUS
  <1>1. IInv /\ FateInv
    BY InitIInv, InitFate
  <1>2. InboxHolds
    BY <1>1, InboxRight
  <1>3. PICK d \in Nat, first \in BOOLEAN, last \in BOOLEAN :
          Stands(d, first, last) /\ Inbox = SubSeq(accepted, d + 1, Len(accepted))
    BY <1>2 DEF InboxHolds
  <1>4. accepted = << >> /\ Len(accepted) = 0 /\ cur = Null /\ handled = << >>
    BY DEF Init
  <1>5. d = 0
    BY <1>3, <1>4 DEF Stands, Taken
  <1>6. Inbox = << >>
    BY <1>3, <1>4, <1>5
  <1>7. Mode = "open"
    BY DEF Init, Mode
  <1> QED
    BY <1>4, <1>6, <1>7 DEF Init, MB!Init

LEMMA NextRefines ==
    FullInv /\ FullInv' /\ [Next]_vars => [MB!Next \/ LoopReturnsAtOnce]_mailbox
  <1> SUFFICES ASSUME FullInv, FullInv', [Next]_vars
               PROVE  [MB!Next \/ LoopReturnsAtOnce]_mailbox
    OBVIOUS
  <1>1. CASE PollTake
    BY <1>1, PollTakeRefines
  <1>2. CASE HandleUser \/ HandleQuit
    BY <1>2, HandleRefines
  <1>3. CASE PrepareLoop
    BY <1>3, PrepareRefines
  <1>4. CASE LoopEnter
    BY <1>4, LoopEnterRefines
  <1>5. CASE LoopTest \/ PollWait \/ SpuriousWakeup \/ ThreadExit
               \/ FreeReadsFreedNode \/ FreeLooper
    BY <1>5, QuietRefines
  <1>6. CASE FreeNode
    BY <1>6, FreeRefines
  <1>7. ASSUME NEW t \in Threads, CallPost(t) \/ CallQuit(t) PROVE UNCHANGED mailbox
    BY <1>7, QuietRefines
  <1>8. ASSUME NEW t \in Threads, Answer(t) PROVE [MB!Next]_mailbox
    <2>1. CASE Post(t) /\ Accepting /\ call[t].h
      BY <2>1, AcceptRefines
    <2>2. CASE Post(t) /\ ~(Accepting /\ call[t].h)
      BY <2>2, RefuseRefines
    <2>3. CASE PostAfterFree(t)
      BY <2>3, QuietRefines
    <2> QED
      BY <1>8, <2>1, <2>2, <2>3 DEF Answer
  <1>9. CASE UNCHANGED vars
    <2>1. UNCHANGED <<next, state, quit, held, cur, handled, released>>
      BY <1>9 DEF vars
    <2> QED
      BY <2>1, Unseen
  <1> QED
    BY <1>1, <1>2, <1>3, <1>4, <1>5, <1>6, <1>7, <1>8, <1>9 DEF Next, OwnerStep

\* The message loop keeps what Mailbox promises: first in first out, a safe quit
\* that drains, an unsafe quit that stops, and nothing released but what was
\* refused or left when the loop had ended.  The step it excepts is a loop() that
\* finds the looper quit and returns at once.
THEOREM LoopIsMailbox == Spec => ImplementsMailbox
  <1>1. FullInv /\ FullInv' /\ [Next]_vars
          => [MB!Next \/ LoopReturnsAtOnce]_(MB!mboxVars)
    BY NextRefines DEF mailbox, MB!mboxVars, Busy
  <1> QED
    BY <1>1, InitRefines, FullInvariance, PTL DEF Spec, ImplementsMailbox

=============================================================================
