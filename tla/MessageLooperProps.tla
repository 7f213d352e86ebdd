------------------------- MODULE MessageLooperProps -------------------------
(***************************************************************************)
(* Correctness of the message loop: the invariants of its list and of its  *)
(* quit protocol, what may happen to a message, and that the loop          *)
(* implements Mailbox.                                                     *)
(***************************************************************************)
EXTENDS MessageLooper

\* There are finitely many messages to post: a walk over the list is as long as
\* their number at most.
ASSUME FiniteMessages == IsFiniteSet(Msg)

\* The owner has the looper and has not begun to destroy it.
Live == pc \in {"init", "top", "poll", "waiting", "handling", "left"}

Undefined == pc = "undefined"

\* The accepted messages the owner took from the list.
Taken == IF cur \in Msg THEN Len(handled) + 1 ELSE Len(handled)

\* The quit message is in the list: at its end or at its front.
QuitLast  == state = "QUITING" /\ cur # Quit /\ quit = "safe"
QuitFirst == state = "QUITING" /\ cur # Quit /\ quit = "unsafe"

----------------------------------------------------------------------------
\* Every variable has a value of its type.
TypeOK ==
    /\ state \in States /\ pc \in PCs
    /\ next \in [Nodes -> Msg \cup {Quit, Null}]
    /\ tail \in Nodes /\ heap \subseteq Nodes
    /\ held \in BOOLEAN
    /\ cur \in Msg \cup {Quit, Null}
    /\ quit \in {"none", "safe", "unsafe"}
    /\ call \in [Threads -> Calls]
    /\ accepted \in Seq(Msg) /\ handled \in Seq(Msg) /\ released \in Seq(Msg)

\* The pointers spell the queue: from the sentinel on, the nodes are the
\* accepted messages that were not taken, in the order of their acceptance, with
\* a safe quit behind them or an unsafe quit in front.
Links ==
    LET end   == IF QuitLast THEN Quit ELSE Null
        first == IF Taken < Len(accepted) THEN accepted[Taken + 1] ELSE end
    IN  /\ \A i \in Taken + 1 .. Len(accepted) :
              next[accepted[i]] = IF i < Len(accepted) THEN accepted[i + 1] ELSE end
        /\ next[Sentinel] = IF QuitFirst THEN Quit ELSE first
        /\ QuitFirst => next[Quit] = first
        /\ QuitLast  => next[Quit] = Null

\* l->tail is the last node as long as posts are accepted: post_message appends
\* through it without walking the list.  (After an unsafe quit it may be stale.)
TailIsLast ==
    Accepting => tail = IF Taken < Len(accepted) THEN accepted[Len(accepted)] ELSE Sentinel

\* Allocated are the sentinel, every accepted message whose handler has not
\* returned, and the quit message until it was handled; nothing else.
HeapIsQueue ==
    heap = {Sentinel} \cup {accepted[i] : i \in Len(handled) + 1 .. Len(accepted)}
             \cup (IF state = "QUITING" THEN {Quit} ELSE {})

\* The list of a looper that is not being destroyed is the queue it stands for:
\* no message is lost, duplicated or linked after its node was freed.
ListShape == Live => Links /\ TailIsLast /\ HeapIsQueue

\* The owner never sleeps in poll_once on a list that has a message: every
\* post that adds one signals the condition, the quit messages included.
NoLostWakeup == pc = "waiting" => next[Sentinel] = Null

\* Handlers run in the order the posts were accepted, and none is skipped.
HandledInOrder == IsPrefix(handled, accepted)

\* The ud of a message is consumed once: its handler runs or its free function
\* does, never both and neither twice.
OneFate == IsInjective(handled \o released)

\* "Every message in the queue is executed before the loop quits"
\* (message_looper.h:85): once a safe quit was handled, everything that was
\* accepted has been handled.
SafeQuitDrains == state = "QUIT" /\ quit = "safe" => handled = accepted

\* "The messages of the queue are abandoned" (message_looper.h:86): once an
\* unsafe quit is accepted the owner takes no user message any more; only the
\* handler it is in, if any, still completes.
UnsafeQuitStops == [][quit = "unsafe" /\ cur = Null => cur' \notin Msg]_vars

----------------------------------------------------------------------------
\* The walk over the list: past a quit in front, node by node, to the first that
\* is no user message.  It is cut after as many messages as there are, should the
\* list be circular.
NodeAt[k \in 0..Cardinality(Msg)] ==
    IF k = 0 THEN IF next[Sentinel] = Quit THEN next[Quit] ELSE next[Sentinel]
    ELSE IF NodeAt[k - 1] \in Msg THEN next[NodeAt[k - 1]] ELSE Null

\* The user messages in the list, in order.
Inbox ==
    [i \in 1..Cardinality({k \in 0..Cardinality(Msg) : NodeAt[k] \in Msg}) |-> NodeAt[i - 1]]

\* An accepted message is in the list, in the hands of the owner, handled or
\* released, while the looper is destroyed too.
NothingLost ==
    ToSet(accepted) \subseteq ToSet(Inbox) \cup {cur} \cup ToSet(handled \o released)

\* What the looper accepts and does as Mailbox names it.  Once loop() returned at
\* once (held) nothing more is taken.
Mode == CASE quit = "none" /\ ~held                          -> "open"
          [] quit = "safe" /\ state = "QUITING" /\ ~held   -> "draining"
          [] quit = "unsafe" /\ state = "QUITING" /\ ~held -> "closing"
          [] OTHER                                          -> "closed"

\* The loop implements Mailbox.  The walk over the list maps to the inbox; the
\* quit message itself is Mailbox's mode.
MB == INSTANCE Mailbox WITH
        mode    <- Mode,
        inbox   <- Inbox,
        busy    <- IF cur \in Msg THEN cur ELSE Null,
        done    <- handled,
        dropped <- released

\* loop() finds that the looper was quit and returns without taking anything.
LoopReturnsAtOnce == ~held /\ held'

\* Every step of the loop and of its posters is a step of Mailbox or leaves the
\* mailbox alone, but for one: a loop() that returns at once abandons what a safe
\* quit was to let run.  message_looper.h:85 promises otherwise.
ImplementsMailbox == MB!Init /\ [][MB!Next \/ LoopReturnsAtOnce]_(MB!mboxVars)

----------------------------------------------------------------------------
\* A thread inside post_message gets its status code, unless the looper was
\* freed under it.
CallsReturn == \A t \in Threads : call[t] # NoCall ~> (call[t] = NoCall \/ Undefined)

\* An accepted message is eventually handled or released.
EveryMessageSettled ==
    \A m \in Msg : m \in ToSet(accepted)
        ~> (m \in ToSet(handled) \cup ToSet(released) \/ Undefined)

\* A quit that was accepted ends the loop, and the thread.
QuitEnds == quit # "none" ~> (pc = "gone" \/ Undefined)

=============================================================================
