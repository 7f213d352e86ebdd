-------------------------------- MODULE Timer --------------------------------
(***************************************************************************)
(* The Lua Timer (mlnservics fun/ud/Timer.java) on the queue of delayed    *)
(* Runnables of the main thread (utils/MainThreadExecutor.java).           *)
(*                                                                         *)
(* start() makes a Task and posts it; a Task that runs calls the Lua       *)
(* function and posts itself again.  The function may call the timer while *)
(* it runs, and resume() runs the Task at once, inside the call: frames is *)
(* the stack of Tasks whose run() has called the function and not          *)
(* returned.  Everything happens on the main thread.  Runnables become due *)
(* in any order: the interval may change between two posts.                *)
(***************************************************************************)
EXTENDS Integers, Sequences

CONSTANTS Functions,   \* Lua functions given to start()
          Tasks,       \* identities of Task objects
          Intervals,   \* the values scripts set, 0 for a timer that was never set
          MaxRepeat,   \* bound: the largest repeatCount a script sets
          MaxDepth,    \* bound: nested runs
          Null

ASSUME TimerConstants ==
    /\ Null \notin Functions \cup Tasks
    /\ 0 \in Intervals /\ Intervals \subseteq Int
    /\ MaxRepeat \in Nat /\ MaxDepth \in Nat \ {0}

VARIABLES state,        \* Timer.state
          task,         \* Timer.task: the Lua function, or Null
          runningTask,  \* Timer.runningTask
          doCount,      \* Task.doCount, of every Task
          repeatCount,  \* Timer.repeatCount
          interval,     \* Timer.interval
          posted,       \* how often each Task is in the main queue
          frames,       \* the runs that are inside a call of the function
          vm,           \* "open", "destroyed", or "crashed": an exception left run()
          refused,      \* history: postDelayed threw and runningTask was not posted since
          session       \* history of the last start(): calls made, repeatCount at the
                        \* start, how many of the calls were made by a resume() in the
                        \* last one, and whether nothing below has interfered since

fields == <<state, task, runningTask>>
config == <<repeatCount, interval>>
vars   == <<fields, config, doCount, posted, frames, vm, refused, session>>

States  == {"IDEL", "RUNNING", "PAUSING", "END"}
Frames  == [task : Tasks, last : BOOLEAN, direct : BOOLEAN]
Session == [calls : Nat, limit : 0..MaxRepeat, late : Nat, clean : BOOLEAN]

\* A session something interfered with is not looked at any more.
Unclean == [calls |-> 0, limit |-> 0, late |-> 0, clean |-> FALSE]

OnStack   == {frames[i].task : i \in DOMAIN frames}
InUse     == {t \in Tasks : posted[t] > 0} \cup OnStack
InLast    == \E i \in DOMAIN frames : frames[i].last

----------------------------------------------------------------------------
Init ==
    /\ state = "IDEL" /\ task = Null /\ runningTask = Null
    /\ doCount = [t \in Tasks |-> 0]
    /\ repeatCount = 0 /\ interval = 0
    /\ posted = [t \in Tasks |-> 0] /\ frames = <<>>
    /\ vm = "open" /\ refused = FALSE /\ session = Unclean

\* Lua code runs: an event of the page, or the function a Task called.
InScript == vm = "open"

\* MainThreadExecutor.cancelSpecificRunnable and postDelayed, which throws
\* IllegalArgumentException unless the delay is positive.
CanPost == interval > 0
Cancelled(t)     == [posted EXCEPT ![t] = 0]
RepostedTwice(t) == [posted EXCEPT ![t] = @ + 1]    \* mutant: nothing is cancelled
Reposted(t)      == [posted EXCEPT ![t] = 1]

SetRepeatCount ==
    /\ InScript
    /\ \E n \in 0..MaxRepeat : n # repeatCount /\ repeatCount' = n
    /\ session' = Unclean
    /\ UNCHANGED <<fields, interval, doCount, posted, frames, vm, refused>>

SetInterval ==
    /\ InScript
    /\ \E i \in Intervals : i # interval /\ interval' = i
    /\ UNCHANGED <<fields, repeatCount, doCount, posted, frames, vm, refused, session>>

MayStart == state \notin {"RUNNING", "PAUSING"}

\* start(): a Task that no queue and no stack holds stands for the new one.  When
\* postDelayed throws the timer stays RUNNING.
Start ==
    /\ InScript /\ MayStart
    /\ \E f \in Functions, t \in Tasks \ InUse :
          /\ task' = f /\ state' = "RUNNING" /\ runningTask' = t
          /\ doCount' = [doCount EXCEPT ![t] = 0]
          /\ posted'  = IF CanPost THEN Reposted(t) ELSE Cancelled(t)
    /\ refused' = ~CanPost
    /\ session' = [calls |-> 0, limit |-> repeatCount, late |-> 0,
                   clean |-> CanPost /\ InUse = {}]
    /\ UNCHANGED <<config, frames, vm>>

Pause ==
    /\ InScript /\ state = "RUNNING"
    /\ state' = "PAUSING"
    /\ UNCHANGED <<task, runningTask, config, doCount, posted, frames, vm, refused, session>>

\* stop() leaves the Task where it is.
Stop ==
    /\ InScript
    /\ state' = "END" /\ task' = Null /\ runningTask' = Null
    /\ session' = Unclean
    /\ UNCHANGED <<config, doCount, posted, frames, vm, refused>>

ResumedAsQueued == posted      \* mutant: the Task is taken for being in the queue
Resumed == IF CanPost THEN Reposted(runningTask) ELSE Cancelled(runningTask)

ResumeDelay ==
    /\ InScript /\ state = "PAUSING"
    /\ state' = "RUNNING"
    /\ posted' = IF runningTask = Null THEN posted ELSE Resumed
    /\ refused' = ~CanPost
    /\ UNCHANGED <<task, runningTask, config, doCount, frames, vm, session>>

----------------------------------------------------------------------------
\* The condition on which run() calls the function for the last time, once
\* doCount was incremented.
LastCallLate(t) == repeatCount > 0 /\ repeatCount < doCount[t] + 1     \* mutant
LastCall(t)     == repeatCount > 0 /\ repeatCount <= doCount[t] + 1

\* run() calls the function.
Call(t, direct) ==
    /\ frames'  = Append(frames, [task |-> t, last |-> LastCall(t), direct |-> direct])
    /\ doCount' = [doCount EXCEPT ![t] = IF repeatCount <= 0 THEN @ ELSE @ + 1]
    /\ session' = IF ~session.clean THEN Unclean
                  ELSE [session EXCEPT !.calls = IF session.limit = 0 THEN @ ELSE @ + 1,
                                       !.late  = IF InLast THEN @ + 1 ELSE @]

\* resume(): the Task runs at once, in the call.
Resume ==
    /\ InScript /\ state = "PAUSING" /\ runningTask # Null /\ Len(frames) < MaxDepth
    /\ posted' = Cancelled(runningTask)
    /\ IF task = Null
         THEN state' = "END" /\ UNCHANGED <<doCount, frames, session>>
         ELSE state' = "RUNNING" /\ Call(runningTask, TRUE)
    /\ UNCHANGED <<task, runningTask, config, vm, refused>>

\* The main thread takes a Task that is due and runs it: no function is set, the
\* timer is not running, or the function is called.
DueThoughCancelled(t) ==       \* mutant of Due
    /\ vm = "open" /\ frames = <<>> /\ t = runningTask
    /\ posted' = [posted EXCEPT ![t] = @ - 1]
Due(t) ==
    /\ vm = "open" /\ frames = <<>> /\ posted[t] > 0
    /\ posted' = [posted EXCEPT ![t] = @ - 1]

RunWithoutFunction(t) ==
    /\ Due(t) /\ task = Null
    /\ state' = "END"
    /\ UNCHANGED <<task, runningTask, config, doCount, frames, vm, refused, session>>

RunNotRunning(t) ==
    /\ Due(t) /\ task # Null /\ state # "RUNNING"
    /\ UNCHANGED <<fields, config, doCount, frames, vm, refused, session>>

RunCalls(t) ==
    /\ Due(t) /\ task # Null /\ state = "RUNNING"
    /\ Call(t, FALSE)
    /\ UNCHANGED <<fields, config, vm, refused>>

Run(t) == RunWithoutFunction(t) \/ RunNotRunning(t) \/ RunCalls(t)

Top    == frames[Len(frames)]
Return == frames' = SubSeq(frames, 1, Len(frames) - 1)

\* The function returned from its last call, or raised an error there.
LastCallEnds ==
    /\ vm = "open" /\ frames # <<>> /\ Top.last
    /\ Return
    /\ state' = "END" /\ task' = Null
    /\ UNCHANGED <<runningTask, config, doCount, posted, vm, refused, session>>

\* The function returned, or its error was taken by the application's hook: the
\* Task is posted again, whatever happened to the timer in the call.
CallEnds ==
    /\ vm = "open" /\ frames # <<>> /\ ~Top.last /\ CanPost
    /\ Return
    /\ posted' = Reposted(Top.task)
    /\ refused' = (refused /\ Top.task # runningTask)
    /\ UNCHANGED <<fields, config, doCount, vm, session>>

\* The same when postDelayed throws: a Lua error for the script that called
\* resume(), the end of the process for the main thread's queue.
CallEndsUnposted ==
    /\ vm = "open" /\ frames # <<>> /\ ~Top.last /\ ~CanPost
    /\ Return
    /\ posted' = Cancelled(Top.task)
    /\ vm' = IF Top.direct THEN "open" ELSE "crashed"
    /\ refused' = TRUE /\ session' = Unclean
    /\ UNCHANGED <<fields, config, doCount>>

\* The function raised an error nobody hooked: InvokeError is caught.
CallFails ==
    /\ vm = "open" /\ frames # <<>> /\ ~Top.last
    /\ Return
    /\ task' = Null
    /\ session' = Unclean
    /\ UNCHANGED <<state, runningTask, config, doCount, posted, vm, refused>>

\* The page destroys the VM: __onLuaGc cancels everything under the timer's tag.
Destroy ==
    /\ vm = "open" /\ frames = <<>>
    /\ vm' = "destroyed"
    /\ task' = Null /\ runningTask' = Null
    /\ posted' = [t \in Tasks |-> 0]
    /\ UNCHANGED <<state, config, doCount, frames, refused, session>>

----------------------------------------------------------------------------
Api     == SetRepeatCount \/ SetInterval \/ Start \/ Pause \/ Stop \/ ResumeDelay \/ Resume
CallEnd == LastCallEnds \/ CallEnds \/ CallEndsUnposted \/ CallFails

Next == Api \/ CallEnd \/ Destroy \/ \E t \in Tasks : Run(t)

Spec == Init /\ [][Next]_vars

\* The main thread runs every Runnable that is due, and a Lua function returns
\* however often it calls the timer before.
Fairness == SF_vars(CallEnd) /\ \A t \in Tasks : SF_vars(Run(t))

FairSpec == Spec /\ Fairness
=============================================================================
