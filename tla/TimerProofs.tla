----------------------------- MODULE TimerProofs -----------------------------
(***************************************************************************)
(* Theorems of the Lua Timer, for any number of Tasks, repeatCount and     *)
(* depth of nested runs: its fields agree with the queue, it does not      *)
(* forget to tick, and an undisturbed session makes the calls it was       *)
(* asked for.                                                              *)
(*                                                                         *)
(* The inductive invariant follows an undisturbed session: its one Task is *)
(* the only one about, its doCount is the number of calls, and a run that  *)
(* is nested in the last call is a last call too.                          *)
(***************************************************************************)
EXTENDS TimerProps, SequenceTheorems, TLAPS

LastFrames == {i \in DOMAIN frames : frames[i].last}

\* Of an undisturbed session.
Undisturbed ==
    /\ state # "IDEL" /\ repeatCount = session.limit
    /\ vm = "open" /\ task # Null => runningTask # Null
    /\ InUse \subseteq {runningTask}
    /\ session.limit = 0 => session.calls = 0
    /\ session.limit > 0 /\ runningTask # Null => doCount[runningTask] = session.calls
    /\ \A i \in LastFrames : \A j \in DOMAIN frames : i <= j => j \in LastFrames
    /\ vm = "open" /\ InLast =>
          session.limit > 0 /\ session.calls = session.limit + session.late
    /\ vm = "open" /\ ~InLast /\ task # Null =>
          session.late = 0 /\ (session.limit = 0 \/ session.calls < session.limit)
    /\ vm = "open" => (task = Null <=> state = "END")

IInv == TypeOK /\ TaskToResume /\ Ticking /\ ExactCount /\ (session.clean => Undisturbed)

----------------------------------------------------------------------------
\* Facts about the operators.

LEMMA Posting ==
    ASSUME TypeOK, NEW t \in Tasks
    PROVE  /\ Cancelled(t) \in [Tasks -> Nat] /\ Reposted(t) \in [Tasks -> Nat]
           /\ Cancelled(t)[t] = 0 /\ Reposted(t)[t] = 1
           /\ \A u \in Tasks \ {t} : Cancelled(t)[u] = posted[u] /\ Reposted(t)[u] = posted[u]
  BY DEF TypeOK, Cancelled, Reposted

LEMMA FirstState == Init => IInv
<1> SUFFICES ASSUME Init PROVE IInv
  OBVIOUS
<1>1. TypeOK
  <2>1. session \in Session /\ frames \in Seq(Frames) /\ 0 \in 0..MaxRepeat
    BY TimerConstants DEF Init, Session, Unclean
  <2>2. refused \in BOOLEAN
    BY DEF Init
  <2>3. QED
    BY <2>1, <2>2, TimerConstants DEF Init, TypeOK, States
<1>2. TaskToResume /\ Ticking /\ ~session.clean
  BY DEF Init, TaskToResume, Ticking, Unclean
<1>3. QED
  BY <1>1, <1>2 DEF IInv, ExactCount

\* A call adds a frame.
LEMMA CallFrame ==
    ASSUME TypeOK, NEW t \in Tasks, NEW d \in BOOLEAN, Call(t, d)
    PROVE  /\ frames' \in Seq(Frames) /\ Len(frames') = Len(frames) + 1
           /\ \A i \in 1..Len(frames) : frames'[i] = frames[i]
           /\ frames'[Len(frames) + 1].task = t /\ frames'[Len(frames) + 1].last = LastCall(t)
           /\ doCount' \in [Tasks -> Nat]
           /\ session' \in Session
<1> DEFINE fr == [task |-> t, last |-> LastCall(t), direct |-> d]
<1>1. LastCall(t) \in BOOLEAN
  BY DEF LastCall
<1>2. fr \in Frames
  BY <1>1 DEF Frames
<1>3. frames' = Append(frames, fr) /\ frames \in Seq(Frames)
  BY DEF Call, TypeOK
<1>4. fr.task = t /\ fr.last = LastCall(t)
  OBVIOUS
<1>5. frames' \in Seq(Frames) /\ Len(frames') = Len(frames) + 1
        /\ (\A i \in 1..Len(frames) : frames'[i] = frames[i]) /\ frames'[Len(frames) + 1] = fr
  <2> HIDE DEF fr
  <2> QED  BY <1>2, <1>3
<1>6. doCount' \in [Tasks -> Nat]
  BY DEF Call, TypeOK
<1>7. session' \in Session
  <2>1. Unclean \in Session
    BY TimerConstants DEF Unclean, Session
  <2>2. session \in Session
    BY DEF TypeOK
  <2>3. session.calls + 1 \in Nat /\ session.late + 1 \in Nat
          /\ session.calls \in Nat /\ session.late \in Nat
    BY <2>2 DEF Session
  <2>4. \A n, k \in Nat : [session EXCEPT !.calls = n, !.late = k] \in Session
    BY <2>2 DEF Session
  <2>5. QED
    BY <2>1, <2>3, <2>4 DEF Call
<1>8. QED
  BY <1>4, <1>5, <1>6, <1>7

\* The end of a call removes the last frame.
LEMMA ReturnFrame ==
    ASSUME TypeOK, frames # <<>>, Return
    PROVE  /\ frames' \in Seq(Frames) /\ Len(frames') = Len(frames) - 1
           /\ \A i \in 1..Len(frames) - 1 : frames'[i] = frames[i]
           /\ Len(frames) \in DOMAIN frames /\ Top \in Frames /\ Top.task \in Tasks
           /\ Top.task \in OnStack
<1>1. frames \in Seq(Frames) /\ Len(frames) \in Nat \ {0} /\ DOMAIN frames = 1..Len(frames)
  BY DEF TypeOK
<1>2. Len(frames) \in DOMAIN frames /\ Top = frames[Len(frames)] /\ Top \in Frames
  BY <1>1 DEF Top
<1>3. Top.task \in Tasks
  BY <1>2 DEF Frames
<1>4. Top.task \in OnStack
  BY <1>2 DEF OnStack
<1>5. PICK n \in Nat \ {0} : n = Len(frames)
  BY <1>1
<1>6. \A i \in 1..n - 1 : frames[i] \in Frames
  BY <1>1, <1>5
<1>7. frames' = SubSeq(frames, 1, n - 1)
  BY <1>5 DEF Return
<1>8. /\ frames' \in Seq(Frames)
      /\ Len(frames') = IF 1 <= n - 1 THEN n - 1 - 1 + 1 ELSE 0
      /\ \A i \in 1 .. n - 1 - 1 + 1 : frames'[i] = frames[1 + i - 1]
  BY <1>6, <1>7, SubSeqProperties
<1>9. Len(frames') = n - 1 /\ \A i \in 1 .. n - 1 : frames'[i] = frames[i]
  BY <1>8
<1>10. QED
  BY <1>2, <1>3, <1>4, <1>5, <1>8, <1>9

\* The stack and the queue decide which Tasks are in use.
LEMMA SameUse ==
    ASSUME posted' = posted, frames' = frames
    PROVE  OnStack' = OnStack /\ InUse' = InUse /\ InLast' = InLast /\ LastFrames' = LastFrames
  BY DEF OnStack, InUse, InLast, LastFrames

\* The steps of the script that touch neither the queue nor the stack.
LEMMA ConfigStep ==
    ASSUME IInv, SetRepeatCount \/ SetInterval \/ Pause
    PROVE  IInv'
<1>1. TypeOK'
  <2>1. Unclean \in Session
    BY TimerConstants DEF Unclean, Session
  <2>2. CASE SetRepeatCount
    BY <2>1, <2>2 DEF IInv, TypeOK, SetRepeatCount, fields
  <2>3. CASE SetInterval
    BY <2>3 DEF IInv, TypeOK, SetInterval, fields
  <2>4. CASE Pause
    BY <2>4 DEF IInv, TypeOK, Pause, config, States
  <2>5. QED
    BY <2>2, <2>3, <2>4
<1>2. posted' = posted /\ frames' = frames /\ task' = task /\ runningTask' = runningTask
        /\ vm' = vm /\ refused' = refused /\ doCount' = doCount
        /\ (state' = state \/ (state = "RUNNING" /\ state' = "PAUSING"))
        /\ (session' = session \/ session' = Unclean)
        /\ (session' = session => repeatCount' = repeatCount \/ session = Unclean)
  BY DEF SetRepeatCount, SetInterval, Pause, fields, config
<1>3. OnStack' = OnStack /\ InUse' = InUse /\ InLast' = InLast /\ LastFrames' = LastFrames
  BY <1>2, SameUse
<1>4. TaskToResume'
  BY <1>2 DEF IInv, TaskToResume
<1>5. Ticking'
  BY <1>2, <1>3 DEF IInv, Ticking
<1>6. CASE session' = Unclean
  BY <1>1, <1>4, <1>5, <1>6 DEF IInv, ExactCount, Unclean
<1>7. CASE session' = session /\ session # Unclean
  <2>1. ExactCount'
    BY <1>2, <1>7 DEF IInv, ExactCount
  <2>2. session'.clean => Undisturbed'
    <3> SUFFICES ASSUME session.clean PROVE Undisturbed'
      BY <1>7
    <3>1. Undisturbed
      BY DEF IInv
    <3>2. QED
      BY <1>2, <1>3, <1>7, <3>1 DEF Undisturbed
  <2>3. QED
    BY <1>1, <1>4, <1>5, <2>1, <2>2 DEF IInv
<1>8. QED
  BY <1>2, <1>6, <1>7

LEMMA StartStep ==
    ASSUME IInv, Start
    PROVE  IInv'
<1>1. PICK f \in Functions, t \in Tasks \ InUse :
         /\ task' = f /\ state' = "RUNNING" /\ runningTask' = t
         /\ doCount' = [doCount EXCEPT ![t] = 0]
         /\ posted'  = IF CanPost THEN Reposted(t) ELSE Cancelled(t)
  BY DEF Start
<1>2. /\ session' = [calls |-> 0, limit |-> repeatCount, late |-> 0,
                   clean |-> CanPost /\ InUse = {}]
      /\ refused' = ~CanPost /\ repeatCount' = repeatCount /\ interval' = interval
      /\ frames' = frames /\ vm' = vm
  BY DEF Start, config
<1>3. /\ posted' \in [Tasks -> Nat] /\ posted'[t] = (IF CanPost THEN 1 ELSE 0)
      /\ \A u \in Tasks \ {t} : posted'[u] = posted[u]
  BY <1>1, Posting DEF IInv
<1>4. TypeOK'
  <2>1. session' \in Session
    BY <1>2 DEF IInv, TypeOK, Session, CanPost
  <2>2. doCount' \in [Tasks -> Nat]
    BY <1>1 DEF IInv, TypeOK
  <2>3. QED
    BY <1>1, <1>2, <1>3, <2>1, <2>2 DEF IInv, TypeOK, States
<1>5. t # Null /\ task' # Null /\ state' = "RUNNING" /\ runningTask' = t
  BY <1>1, TimerConstants
<1>6. TaskToResume'
  BY <1>3, <1>5 DEF IInv, TaskToResume
<1>7. Ticking'
  <2>1. CASE CanPost
    <3>1. t \in InUse'
      BY <1>3, <2>1 DEF InUse
    <3>2. QED
      BY <1>5, <3>1 DEF Ticking
  <2>2. CASE ~CanPost
    BY <1>2, <2>2 DEF Ticking
  <2>3. QED
    BY <2>1, <2>2
<1>8. session'.calls = 0 /\ session'.limit = repeatCount /\ session'.late = 0
        /\ (session'.clean => CanPost /\ InUse = {})
  BY <1>2
<1>9. repeatCount \in Nat
  BY DEF IInv, TypeOK
<1>10. ExactCount'
  BY <1>5, <1>8, <1>9 DEF ExactCount
<1>11. ASSUME session'.clean PROVE Undisturbed'
  <2>1. InUse = {}
    BY <1>8, <1>11
  <2>2. DOMAIN frames = {} /\ \A u \in Tasks : posted[u] = 0
    <3>1. \A u \in Tasks : posted[u] \in Nat
      BY DEF IInv, TypeOK
    <3>2. OnStack = {} /\ \A u \in Tasks : ~(posted[u] > 0)
      BY <2>1 DEF InUse
    <3>3. DOMAIN frames = {}
      BY <3>2 DEF OnStack
    <3>4. QED
      BY <3>1, <3>2, <3>3
  <2>3. DOMAIN frames' = {} /\ ~InLast' /\ LastFrames' = {} /\ OnStack' = {}
    BY <1>2, <2>2 DEF InLast, LastFrames, OnStack
  <2>4. InUse' \subseteq {runningTask'}
    BY <1>3, <1>5, <2>2, <2>3 DEF InUse
  <2>5. doCount'[t] = 0
    BY <1>1 DEF IInv, TypeOK
  <2>6. QED
    BY <1>2, <1>5, <1>8, <1>9, <2>3, <2>4, <2>5 DEF Undisturbed
<1>12. QED
  BY <1>4, <1>6, <1>7, <1>10, <1>11 DEF IInv

LEMMA StopStep ==
    ASSUME IInv, Stop
    PROVE  IInv'
<1>1. /\ state' = "END" /\ task' = Null /\ runningTask' = Null /\ session' = Unclean
      /\ posted' = posted
  BY DEF Stop
<1>2. TypeOK'
  <2>1. Unclean \in Session
    BY TimerConstants DEF Unclean, Session
  <2>2. QED
    BY <1>1, <2>1 DEF IInv, TypeOK, Stop, config, States
<1>3. TaskToResume' /\ Ticking' /\ ~session'.clean
  BY <1>1 DEF IInv, TaskToResume, Ticking, Unclean
<1>4. QED
  BY <1>2, <1>3 DEF IInv, ExactCount

\* A step that posts or cancels the current Task, and nothing else.
LEMMA CurrentUse ==
    ASSUME IInv, runningTask \in Tasks, runningTask' = runningTask, frames' = frames,
           posted' = Reposted(runningTask) \/ posted' = Cancelled(runningTask)
    PROVE  /\ posted' \in [Tasks -> Nat] /\ \A t \in Tasks : posted'[t] <= 1
           /\ OnStack' = OnStack /\ InLast' = InLast /\ LastFrames' = LastFrames
           /\ InUse \subseteq {runningTask} => InUse' \subseteq {runningTask}
           /\ posted' = Reposted(runningTask) => runningTask \in InUse'
<1>1. /\ posted' \in [Tasks -> Nat]
      /\ posted'[runningTask] \in {0, 1}
      /\ posted' = Reposted(runningTask) => posted'[runningTask] = 1
      /\ \A u \in Tasks \ {runningTask} : posted'[u] = posted[u]
  BY Posting DEF IInv
<1>2. \A t \in Tasks : posted'[t] <= 1
  BY <1>1 DEF IInv, TaskToResume
<1>3. OnStack' = OnStack /\ InLast' = InLast /\ LastFrames' = LastFrames
  BY DEF OnStack, InLast, LastFrames
<1>4. InUse \subseteq {runningTask} => InUse' \subseteq {runningTask}
  BY <1>1, <1>3 DEF InUse
<1>5. posted' = Reposted(runningTask) => runningTask \in InUse'
  BY <1>1 DEF InUse
<1>6. QED
  BY <1>1, <1>2, <1>3, <1>4, <1>5

LEMMA ResumeDelayStep ==
    ASSUME IInv, ResumeDelay
    PROVE  IInv'
<1>1. /\ state = "PAUSING" /\ vm = "open" /\ state' = "RUNNING" /\ refused' = ~CanPost
      /\ task' = task /\ runningTask' = runningTask /\ repeatCount' = repeatCount
      /\ interval' = interval /\ doCount' = doCount /\ frames' = frames /\ vm' = vm
      /\ session' = session
  BY DEF ResumeDelay, InScript, config
<1>2. runningTask \in Tasks
  BY <1>1 DEF IInv, TypeOK, TaskToResume
<1>3. posted' = IF CanPost THEN Reposted(runningTask) ELSE Cancelled(runningTask)
  BY <1>2, TimerConstants DEF ResumeDelay, Resumed
<1>4. /\ posted' \in [Tasks -> Nat] /\ \A t \in Tasks : posted'[t] <= 1
      /\ OnStack' = OnStack /\ InLast' = InLast /\ LastFrames' = LastFrames
      /\ InUse \subseteq {runningTask} => InUse' \subseteq {runningTask}
      /\ posted' = Reposted(runningTask) => runningTask \in InUse'
  BY <1>1, <1>2, <1>3, CurrentUse
<1>5. TypeOK'
  BY <1>1, <1>4 DEF IInv, TypeOK, States, CanPost
<1>6. TaskToResume'
  BY <1>1, <1>2, <1>4, TimerConstants DEF TaskToResume
<1>7. Ticking'
  BY <1>1, <1>3, <1>4 DEF Ticking
<1>8. ExactCount'
  BY <1>1 DEF IInv, ExactCount
<1>9. session'.clean => Undisturbed'
  BY <1>1, <1>4 DEF IInv, Undisturbed
<1>10. QED
  BY <1>5, <1>6, <1>7, <1>8, <1>9 DEF IInv

\* A call in an undisturbed session is the last one when the count is reached.
LEMMA CallCounts ==
    ASSUME IInv, NEW t \in Tasks, NEW d \in BOOLEAN, Call(t, d),
           vm = "open", task # Null, state \in {"RUNNING", "PAUSING"}, state' = "RUNNING",
           task' = task, runningTask' = runningTask, repeatCount' = repeatCount, vm' = vm,
           session.clean => t = runningTask /\ InUse' \subseteq {runningTask}
    PROVE  ExactCount' /\ (session'.clean => Undisturbed')
<1> SUFFICES ASSUME session'.clean PROVE ExactCount' /\ Undisturbed'
  BY DEF ExactCount
<1>1. /\ session.clean
      /\ session' = [session EXCEPT !.calls = IF session.limit = 0 THEN @ ELSE @ + 1,
                                    !.late  = IF InLast THEN @ + 1 ELSE @]
  BY DEF Call, Unclean
<1>2. Undisturbed /\ ExactCount /\ t = runningTask /\ InUse' \subseteq {runningTask}
  BY <1>1 DEF IInv
<1>3. session.calls \in Nat /\ session.limit \in Nat /\ session.late \in Nat
        /\ doCount[t] \in Nat
        /\ session \in Session /\ frames \in Seq(Frames) /\ doCount \in [Tasks -> Nat]
  BY DEF IInv, TypeOK, Session
<1>4. /\ session'.limit = session.limit
      /\ session'.calls = IF session.limit = 0 THEN session.calls ELSE session.calls + 1
      /\ session'.late = IF InLast THEN session.late + 1 ELSE session.late
  BY <1>1, <1>3 DEF Session
<1>5. /\ frames' \in Seq(Frames) /\ Len(frames') = Len(frames) + 1
      /\ \A i \in 1..Len(frames) : frames'[i] = frames[i]
      /\ frames'[Len(frames) + 1].last = LastCall(t)
  BY CallFrame DEF IInv
<1>6. repeatCount = session.limit
        /\ (session.limit = 0 => session.calls = 0)
        /\ (session.limit > 0 => doCount[t] = session.calls)
        /\ (InLast => session.limit > 0 /\ session.calls = session.limit + session.late)
        /\ (~InLast => session.late = 0
                        /\ (session.limit = 0 \/ session.calls < session.limit))
  BY <1>1, <1>2, TimerConstants DEF Undisturbed
<1>7. /\ LastCall(t) => session.limit > 0 /\ session'.calls = session.limit + session'.late
      /\ ~LastCall(t) => /\ ~InLast /\ session'.late = 0
                         /\ session.limit = 0 \/ session'.calls < session.limit
  BY <1>3, <1>4, <1>6 DEF LastCall
<1>8. /\ DOMAIN frames' = 1..Len(frames) + 1 /\ DOMAIN frames = 1..Len(frames)
      /\ Len(frames) \in Nat
      /\ \A i \in DOMAIN frames : i \in DOMAIN frames' /\ frames'[i].last = frames[i].last
      /\ \A i \in DOMAIN frames' : i \in DOMAIN frames \/ i = Len(frames) + 1
  <2>1. DOMAIN frames' = 1..Len(frames) + 1 /\ DOMAIN frames = 1..Len(frames) /\ Len(frames) \in Nat
    BY <1>3, <1>5
  <2>2. /\ 1..Len(frames) \subseteq 1..Len(frames) + 1
        /\ \A i \in 1..Len(frames) + 1 : i \in 1..Len(frames) \/ i = Len(frames) + 1
    BY <2>1
  <2>3. QED
    BY <1>5, <2>1, <2>2
<1>9. InLast' <=> LastCall(t)
  <2>1. Len(frames) + 1 \in DOMAIN frames'
    BY <1>8
  <2>2. InLast => LastCall(t)
    BY <1>7
  <2>3. QED
    BY <1>5, <1>8, <2>1, <2>2 DEF InLast
<1>10. \A i \in LastFrames' : \A j \in DOMAIN frames' : i <= j => j \in LastFrames'
  <2>1. SUFFICES ASSUME NEW i \in DOMAIN frames', frames'[i].last,
                        NEW j \in DOMAIN frames', i <= j
                 PROVE  frames'[j].last
    BY DEF LastFrames
  <2>2. LastCall(t)
    BY <1>9, <2>1 DEF InLast
  <2>3. CASE j = Len(frames) + 1
    BY <1>5, <2>2, <2>3
  <2>4. CASE j \in DOMAIN frames
    <3>1. i \in DOMAIN frames
      BY <1>8, <2>1, <2>4
    <3>2. i \in LastFrames
      BY <1>8, <2>1, <3>1 DEF LastFrames
    <3>3. j \in LastFrames
      BY <1>2, <2>1, <2>4, <3>2 DEF Undisturbed
    <3>4. QED
      BY <1>8, <2>4, <3>3 DEF LastFrames
  <2>5. QED
    BY <1>8, <2>3, <2>4
<1>11. doCount'[t] = IF repeatCount <= 0 THEN doCount[t] ELSE doCount[t] + 1
  BY <1>3 DEF Call
<1>12. session'.limit > 0 => doCount'[runningTask'] = session'.calls
  BY <1>2, <1>3, <1>4, <1>6, <1>11
<1>13. ExactCount'
  BY <1>3, <1>4, <1>6, <1>7 DEF ExactCount
<1>14. session'.limit = 0 => session'.calls = 0
  BY <1>4, <1>6
<1>15. Undisturbed'
  BY <1>2, <1>4, <1>6, <1>7, <1>9, <1>10, <1>12, <1>14 DEF Undisturbed
<1>16. QED
  BY <1>13, <1>15

LEMMA ResumeStep ==
    ASSUME IInv, Resume
    PROVE  IInv'
<1>1. /\ state = "PAUSING" /\ vm = "open" /\ runningTask # Null
      /\ posted' = Cancelled(runningTask)
      /\ task' = task /\ runningTask' = runningTask /\ repeatCount' = repeatCount
      /\ interval' = interval /\ vm' = vm /\ refused' = refused
  BY DEF Resume, InScript, config
<1>2. runningTask \in Tasks
  BY <1>1 DEF IInv, TypeOK
<1>3. CASE task = Null
  <2>1. state' = "END" /\ doCount' = doCount /\ frames' = frames /\ session' = session
    BY <1>3 DEF Resume
  <2>2. /\ posted' \in [Tasks -> Nat] /\ \A t \in Tasks : posted'[t] <= 1
    BY <1>1, <1>2, <2>1, CurrentUse
  <2>3. TypeOK'
    BY <1>1, <2>1, <2>2 DEF IInv, TypeOK, States
  <2>4. TaskToResume' /\ Ticking'
    BY <1>1, <2>1, <2>2 DEF TaskToResume, Ticking
  <2>5. ~session.clean
    BY <1>1, <1>3 DEF IInv, Undisturbed
  <2>6. QED
    BY <2>1, <2>3, <2>4, <2>5 DEF IInv, ExactCount
<1>4. CASE task # Null
  <2>1. state' = "RUNNING" /\ Call(runningTask, TRUE)
    BY <1>4 DEF Resume
  <2>2. /\ frames' \in Seq(Frames) /\ Len(frames') = Len(frames) + 1
        /\ \A i \in 1..Len(frames) : frames'[i] = frames[i]
        /\ frames'[Len(frames) + 1].task = runningTask
        /\ doCount' \in [Tasks -> Nat] /\ session' \in Session
    BY <1>2, <2>1, CallFrame DEF IInv
  <2>3. frames \in Seq(Frames) /\ DOMAIN frames = 1..Len(frames) /\ Len(frames) \in Nat
          /\ DOMAIN frames' = 1..Len(frames) + 1
    BY <2>2 DEF IInv, TypeOK
  <2>4. OnStack' = OnStack \cup {runningTask}
    <3>1. \A i \in 1..Len(frames) + 1 : i \in 1..Len(frames) \/ i = Len(frames) + 1
      BY <2>3
    <3>2. Len(frames) + 1 \in 1..Len(frames) + 1 /\ 1..Len(frames) \subseteq 1..Len(frames) + 1
      BY <2>3
    <3>3. QED
      BY <2>2, <2>3, <3>1, <3>2 DEF OnStack
  <2>5. /\ posted' \in [Tasks -> Nat] /\ posted'[runningTask] = 0
        /\ \A u \in Tasks \ {runningTask} : posted'[u] = posted[u]
    BY <1>1, <1>2, Posting DEF IInv
  <2>6. TypeOK'
    BY <1>1, <2>1, <2>2, <2>5 DEF IInv, TypeOK, States
  <2>7. TaskToResume'
    BY <1>1, <2>5 DEF IInv, TaskToResume
  <2>8. Ticking'
    BY <1>1, <2>4 DEF Ticking, InUse
  <2>9. session.clean => InUse' \subseteq {runningTask}
    <3>1. session.clean => InUse \subseteq {runningTask}
      BY DEF IInv, Undisturbed
    <3>2. QED
      BY <2>4, <2>5, <3>1 DEF InUse
  <2>10. ExactCount' /\ (session'.clean => Undisturbed')
    BY <1>1, <1>2, <1>4, <2>1, <2>9, CallCounts
  <2>11. QED
    BY <2>6, <2>7, <2>8, <2>10 DEF IInv
<1>5. QED
  BY <1>3, <1>4

\* The main thread takes a Task from the queue; no run is on the stack.
LEMMA DueTask ==
    ASSUME IInv, NEW t \in Tasks, Due(t)
    PROVE  /\ vm = "open" /\ posted' \in [Tasks -> Nat] /\ posted'[t] = 0
           /\ \A u \in Tasks \ {t} : posted'[u] = posted[u]
           /\ t \in InUse /\ OnStack = {} /\ ~InLast /\ Len(frames) = 0
<1>1. posted[t] \in Nat /\ posted[t] > 0 /\ posted[t] <= 1
  BY DEF Due, IInv, TypeOK, TaskToResume
<1>2. posted[t] - 1 = 0
  BY <1>1
<1>3. frames = <<>>
  BY DEF Due
<1>4. QED
  BY <1>1, <1>2, <1>3 DEF Due, IInv, TypeOK, InUse, OnStack, InLast

LEMMA RunStep ==
    ASSUME IInv, NEW t \in Tasks, Run(t)
    PROVE  IInv'
<1>1. /\ vm = "open" /\ posted' \in [Tasks -> Nat] /\ posted'[t] = 0
      /\ \A u \in Tasks \ {t} : posted'[u] = posted[u]
      /\ t \in InUse /\ OnStack = {} /\ ~InLast /\ Len(frames) = 0
  BY DueTask DEF Run, RunWithoutFunction, RunNotRunning, RunCalls
<1>2. task' = task /\ runningTask' = runningTask /\ repeatCount' = repeatCount
        /\ interval' = interval /\ vm' = vm /\ refused' = refused
  BY DEF Run, RunWithoutFunction, RunNotRunning, RunCalls, fields, config
<1>3. session.clean => t = runningTask /\ InUse \subseteq {runningTask}
  BY <1>1 DEF IInv, Undisturbed
<1>4. CASE RunWithoutFunction(t) \/ RunNotRunning(t)
  <2>1. frames' = frames /\ doCount' = doCount /\ session' = session
          /\ ((state' = "END" /\ task = Null) \/ (state' = state /\ task # Null /\ state # "RUNNING"))
    BY <1>4 DEF RunWithoutFunction, RunNotRunning, fields
  <2>2. TypeOK'
    BY <1>1, <1>2, <2>1 DEF IInv, TypeOK, States
  <2>3. TaskToResume'
    BY <1>1, <1>2, <2>1 DEF IInv, TaskToResume
  <2>4. Ticking'
    BY <1>2, <2>1 DEF Ticking
  <2>5. ASSUME session.clean PROVE ExactCount' /\ Undisturbed'
    <3>1. Undisturbed /\ ExactCount
      BY <2>5 DEF IInv
    <3>2. state' = state
      BY <1>1, <2>1, <3>1 DEF Undisturbed
    <3>3. OnStack' = {} /\ InLast' = InLast /\ LastFrames' = LastFrames
      BY <1>1, <2>1 DEF OnStack, InLast, LastFrames
    <3>4. InUse' \subseteq {runningTask}
      BY <1>1, <1>3, <2>5, <3>3 DEF InUse
    <3>5. QED
      BY <1>1, <1>2, <2>1, <3>1, <3>2, <3>3, <3>4 DEF Undisturbed, ExactCount
  <2>6. QED
    BY <2>1, <2>2, <2>3, <2>4, <2>5 DEF IInv, ExactCount
<1>5. CASE RunCalls(t)
  <2>1. state = "RUNNING" /\ state' = "RUNNING" /\ task # Null /\ Call(t, FALSE)
    BY <1>5 DEF RunCalls, fields
  <2>2. /\ frames' \in Seq(Frames) /\ Len(frames') = Len(frames) + 1
        /\ frames'[Len(frames) + 1].task = t
        /\ doCount' \in [Tasks -> Nat] /\ session' \in Session
    BY <2>1, CallFrame DEF IInv
  <2>3. OnStack' = {t}
    <3>1. Len(frames') = 1 /\ frames'[1].task = t
      BY <1>1, <2>2
    <3>2. DOMAIN frames' = 1..Len(frames') /\ 1..1 = {1}
      BY <2>2
    <3>3. DOMAIN frames' = {1}
      BY <3>1, <3>2
    <3>4. QED
      BY <3>1, <3>3 DEF OnStack
  <2>4. TypeOK'
    BY <1>1, <1>2, <2>1, <2>2 DEF IInv, TypeOK
  <2>5. TaskToResume'
    BY <1>1, <1>2, <2>1 DEF IInv, TaskToResume
  <2>6. Ticking'
    <3>1. ASSUME ~refused PROVE runningTask \in InUse'
      <4>1. runningTask \in InUse
        BY <1>1, <2>1, <3>1 DEF IInv, Ticking
      <4>2. runningTask = t \/ (runningTask \in Tasks \ {t} /\ posted[runningTask] > 0)
        BY <1>1, <4>1 DEF InUse
      <4>3. QED
        BY <1>1, <2>3, <4>2 DEF InUse
    <3>2. QED
      BY <1>2, <3>1 DEF Ticking
  <2>7. session.clean => InUse' \subseteq {runningTask}
    BY <1>1, <1>3, <2>3 DEF InUse
  <2>8. ExactCount' /\ (session'.clean => Undisturbed')
    BY <1>1, <1>2, <1>3, <2>1, <2>7, CallCounts
  <2>9. QED
    BY <2>4, <2>5, <2>6, <2>8 DEF IInv
<1>6. QED
  BY <1>4, <1>5 DEF Run

\* The frame that is left: the others stay, in their places.
LEMMA StackAfterReturn ==
    ASSUME IInv, frames # <<>>, Return
    PROVE  /\ OnStack' \subseteq OnStack /\ OnStack \subseteq OnStack' \cup {Top.task}
           /\ InLast' => InLast
           /\ session.clean =>
                /\ InLast => Top.last
                /\ \A i \in LastFrames' : \A j \in DOMAIN frames' : i <= j => j \in LastFrames'
<1>1. /\ frames' \in Seq(Frames) /\ Len(frames') = Len(frames) - 1
      /\ \A i \in 1..Len(frames) - 1 : frames'[i] = frames[i]
  BY ReturnFrame DEF IInv
<1>2. frames \in Seq(Frames) /\ DOMAIN frames = 1..Len(frames) /\ Len(frames) \in Nat \ {0}
        /\ DOMAIN frames' = 1..Len(frames) - 1 /\ Top = frames[Len(frames)]
  BY <1>1 DEF IInv, TypeOK, Top
<1>3. \A i \in DOMAIN frames : i \in DOMAIN frames' \/ i = Len(frames)
  BY <1>2
<1>4. \A i \in DOMAIN frames' : i \in DOMAIN frames /\ i # Len(frames) /\ frames'[i] = frames[i]
  BY <1>1, <1>2
<1>5. OnStack' \subseteq OnStack
  BY <1>4 DEF OnStack
<1>6. OnStack \subseteq OnStack' \cup {Top.task}
  BY <1>2, <1>3, <1>4 DEF OnStack
<1>7. InLast' => InLast
  BY <1>4 DEF InLast
<1>8. ASSUME session.clean
      PROVE  /\ InLast => Top.last
             /\ \A i \in LastFrames' : \A j \in DOMAIN frames' : i <= j => j \in LastFrames'
  <2>1. \A i \in LastFrames : \A j \in DOMAIN frames : i <= j => j \in LastFrames
    BY <1>8 DEF IInv, Undisturbed
  <2>2. \A i \in DOMAIN frames : i <= Len(frames) /\ Len(frames) \in DOMAIN frames
    BY <1>2
  <2>3. InLast => Top.last
    BY <1>2, <2>1, <2>2 DEF InLast, LastFrames
  <2>4. QED
    BY <1>4, <2>1, <2>3 DEF LastFrames
<1>9. QED
  BY <1>5, <1>6, <1>7, <1>8

LEMMA LastCallEndsStep ==
    ASSUME IInv, LastCallEnds
    PROVE  IInv'
<1>1. /\ vm = "open" /\ frames # <<>> /\ Top.last /\ Return /\ state' = "END" /\ task' = Null
      /\ runningTask' = runningTask /\ repeatCount' = repeatCount /\ interval' = interval
      /\ doCount' = doCount /\ posted' = posted /\ vm' = vm /\ refused' = refused
      /\ session' = session
  BY DEF LastCallEnds, config
<1>2. frames' \in Seq(Frames) /\ Len(frames) \in DOMAIN frames
  BY <1>1, ReturnFrame DEF IInv
<1>3. /\ OnStack' \subseteq OnStack
      /\ session.clean =>
            \A i \in LastFrames' : \A j \in DOMAIN frames' : i <= j => j \in LastFrames'
  BY <1>1, StackAfterReturn
<1>4. TypeOK'
  BY <1>1, <1>2 DEF IInv, TypeOK, States
<1>5. TaskToResume' /\ Ticking'
  BY <1>1 DEF IInv, TaskToResume, Ticking
<1>6. ASSUME session.clean PROVE ExactCount' /\ Undisturbed'
  <2>1. Undisturbed /\ ExactCount
    BY <1>6 DEF IInv
  <2>2. InLast
    BY <1>1, <1>2 DEF InLast, Top
  <2>3. session.limit > 0 /\ session.calls = session.limit + session.late
    BY <1>1, <2>1, <2>2 DEF Undisturbed
  <2>4. InUse' \subseteq {runningTask}
    BY <1>1, <1>3, <2>1 DEF Undisturbed, InUse
  <2>5. session.late \in Nat /\ session.limit \in Nat /\ session.calls \in Nat
    BY DEF IInv, TypeOK, Session
  <2>6. QED
    BY <1>1, <1>3, <1>6, <2>1, <2>3, <2>4, <2>5 DEF Undisturbed, ExactCount
<1>7. QED
  BY <1>1, <1>4, <1>5, <1>6 DEF IInv, ExactCount

LEMMA CallEndsStep ==
    ASSUME IInv, CallEnds
    PROVE  IInv'
<1>1. /\ vm = "open" /\ frames # <<>> /\ ~Top.last /\ CanPost /\ Return
      /\ posted' = Reposted(Top.task) /\ refused' = (refused /\ Top.task # runningTask)
      /\ state' = state /\ task' = task /\ runningTask' = runningTask
      /\ repeatCount' = repeatCount /\ interval' = interval
      /\ doCount' = doCount /\ vm' = vm /\ session' = session
  BY DEF CallEnds, fields, config
<1>2. frames' \in Seq(Frames) /\ Top.task \in Tasks /\ Top.task \in OnStack
  BY <1>1, ReturnFrame DEF IInv
<1>3. /\ OnStack' \subseteq OnStack /\ OnStack \subseteq OnStack' \cup {Top.task}
      /\ (session.clean => ~InLast' /\ ~InLast)
  BY <1>1, StackAfterReturn
<1>4. PICK t \in Tasks : t = Top.task
  BY <1>2
<1>5. /\ posted' \in [Tasks -> Nat] /\ posted'[t] = 1
      /\ \A u \in Tasks \ {t} : posted'[u] = posted[u]
  BY <1>1, <1>4, Posting DEF IInv
<1>6. TypeOK'
  BY <1>1, <1>2, <1>5 DEF IInv, TypeOK
<1>7. TaskToResume'
  BY <1>1, <1>5 DEF IInv, TaskToResume
<1>8. t \in InUse' /\ InUse \subseteq InUse'
  <2>1. t \in InUse'
    BY <1>5 DEF InUse
  <2>2. ASSUME NEW u \in InUse PROVE u \in InUse'
    <3>1. u \in OnStack \/ (u \in Tasks /\ posted[u] > 0)
      BY DEF InUse
    <3>2. QED
      BY <1>3, <1>4, <1>5, <2>1, <3>1 DEF InUse
  <2>3. QED
    BY <2>1, <2>2
<1>9. Ticking'
  BY <1>1, <1>4, <1>8 DEF IInv, Ticking
<1>10. ASSUME session.clean PROVE ExactCount' /\ Undisturbed'
  <2>1. Undisturbed /\ ExactCount
    BY <1>10 DEF IInv
  <2>2. t \in InUse
    BY <1>2, <1>4 DEF InUse
  <2>3. InUse' \subseteq {runningTask}
    BY <1>3, <1>5, <2>1, <2>2 DEF Undisturbed, InUse
  <2>4. QED
    <3>1. LastFrames' = {}
      BY <1>3, <1>10 DEF InLast, LastFrames
    <3>2. QED
      BY <1>1, <1>3, <1>10, <2>1, <2>3, <3>1 DEF Undisturbed, ExactCount
<1>11. QED
  BY <1>1, <1>6, <1>7, <1>9, <1>10 DEF IInv, ExactCount

LEMMA CallBreaksStep ==
    ASSUME IInv, CallEndsUnposted \/ CallFails
    PROVE  IInv'
<1>1. frames # <<>> /\ Return /\ session' = Unclean /\ state' = state
        /\ runningTask' = runningTask /\ repeatCount' = repeatCount /\ interval' = interval
        /\ doCount' = doCount /\ vm = "open" /\ vm' \in {"open", "crashed"}
        /\ task' \in {task, Null}
  BY DEF CallEndsUnposted, CallFails, fields, config
<1>2. frames' \in Seq(Frames) /\ Top.task \in Tasks
  BY <1>1, ReturnFrame DEF IInv
<1>3. /\ posted' \in [Tasks -> Nat] /\ \A t \in Tasks : posted'[t] <= 1
  <2>1. posted \in [Tasks -> Nat] /\ \A t \in Tasks : posted[t] <= 1
    BY DEF IInv, TypeOK, TaskToResume
  <2>2. PICK t \in Tasks : t = Top.task
    BY <1>2
  <2>3. CASE CallFails
    BY <2>1, <2>3 DEF CallFails
  <2>4. CASE CallEndsUnposted
    <3>1. posted' = Cancelled(t)
      BY <2>2, <2>4 DEF CallEndsUnposted
    <3>2. posted' \in [Tasks -> Nat] /\ posted'[t] = 0
            /\ \A u \in Tasks \ {t} : posted'[u] = posted[u]
      BY <3>1, Posting DEF IInv
    <3>3. QED
      BY <2>1, <3>2
  <2>5. QED
    BY <2>3, <2>4
<1>4. refused' \in BOOLEAN
  BY DEF CallEndsUnposted, CallFails, IInv, TypeOK
<1>5. Unclean \in Session /\ ~Unclean.clean
  BY TimerConstants DEF Unclean, Session
<1>6. TypeOK'
  BY <1>1, <1>2, <1>3, <1>4, <1>5 DEF IInv, TypeOK
<1>7. TaskToResume'
  BY <1>1, <1>3 DEF IInv, TaskToResume
<1>8. Ticking'
  BY DEF Ticking, CallEndsUnposted, CallFails
<1>9. QED
  BY <1>1, <1>5, <1>6, <1>7, <1>8 DEF IInv, ExactCount

LEMMA DestroyStep ==
    ASSUME IInv, Destroy
    PROVE  IInv'
<1>1. /\ vm' = "destroyed" /\ task' = Null /\ runningTask' = Null
      /\ posted' = [t \in Tasks |-> 0] /\ frames = <<>> /\ frames' = frames
      /\ state' = state /\ repeatCount' = repeatCount /\ interval' = interval
      /\ doCount' = doCount /\ refused' = refused /\ session' = session
  BY DEF Destroy, config
<1>2. posted' \in [Tasks -> Nat] /\ \A t \in Tasks : posted'[t] = 0
  BY <1>1
<1>3. TypeOK'
  BY <1>1, <1>2 DEF IInv, TypeOK
<1>4. TaskToResume' /\ Ticking'
  BY <1>1, <1>2 DEF TaskToResume, Ticking
<1>5. ExactCount'
  BY <1>1 DEF IInv, ExactCount
<1>6. ASSUME session.clean PROVE Undisturbed'
  <2>1. Undisturbed
    BY <1>6 DEF IInv
  <2>2. OnStack' = {} /\ InUse' = {} /\ LastFrames' = {}
    BY <1>1, <1>2 DEF OnStack, InUse, LastFrames
  <2>3. QED
    BY <1>1, <2>1, <2>2 DEF Undisturbed
<1>7. QED
  BY <1>1, <1>3, <1>4, <1>5, <1>6 DEF IInv

LEMMA NextStep == IInv /\ [Next]_vars => IInv'
<1> SUFFICES ASSUME IInv, [Next]_vars PROVE IInv'
  OBVIOUS
<1>1. CASE Api
  BY <1>1, ConfigStep, StartStep, StopStep, ResumeDelayStep, ResumeStep DEF Api
<1>2. CASE CallEnd
  BY <1>2, LastCallEndsStep, CallEndsStep, CallBreaksStep DEF CallEnd
<1>3. CASE Destroy
  BY <1>3, DestroyStep
<1>4. CASE \E t \in Tasks : Run(t)
  BY <1>4, RunStep
<1>5. CASE UNCHANGED vars
  <2>1. /\ state' = state /\ task' = task /\ runningTask' = runningTask /\ doCount' = doCount
        /\ repeatCount' = repeatCount /\ interval' = interval /\ posted' = posted
        /\ frames' = frames /\ vm' = vm /\ refused' = refused /\ session' = session
    BY <1>5 DEF vars, fields, config
  <2>2. OnStack' = OnStack /\ InUse' = InUse /\ InLast' = InLast /\ LastFrames' = LastFrames
    BY <2>1, SameUse
  <2>3. TypeOK' /\ TaskToResume' /\ Ticking' /\ ExactCount'
    BY <2>1, <2>2 DEF IInv, TypeOK, TaskToResume, Ticking, ExactCount
  <2>4. session'.clean => Undisturbed'
    BY <2>1, <2>2 DEF IInv, Undisturbed
  <2>5. QED
    BY <2>3, <2>4 DEF IInv
<1>6. QED
  BY <1>1, <1>2, <1>3, <1>4, <1>5 DEF Next

----------------------------------------------------------------------------
\* Every variable keeps its type, whatever order API calls, Tasks and callbacks take.
THEOREM TypeCorrect == Spec => []TypeOK
<1>1. IInv => TypeOK
  BY DEF IInv
<1>2. QED
  BY <1>1, FirstState, NextStep, PTL DEF Spec

\* resume() never finds a null Task, and no Task is in the queue twice.
THEOREM ResumeFindsTask == Spec => []TaskToResume
<1>1. IInv => TaskToResume
  BY DEF IInv
<1>2. QED
  BY <1>1, FirstState, NextStep, PTL DEF Spec

\* A running timer has its Task in the queue or in a call.
THEOREM TimerTicks == Spec => []Ticking
<1>1. IInv => Ticking
  BY DEF IInv
<1>2. QED
  BY <1>1, FirstState, NextStep, PTL DEF Spec

\* An undisturbed session calls its function repeatCount times, for every
\* repeatCount, and once more for each resume() the function makes in its last call.
THEOREM CountIsExact == Spec => []ExactCount
<1>1. IInv => ExactCount
  BY DEF IInv
<1>2. QED
  BY <1>1, FirstState, NextStep, PTL DEF Spec
=============================================================================
