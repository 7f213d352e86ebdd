------------------------------ MODULE TimerProps ------------------------------
(***************************************************************************)
(* Correctness of the Lua Timer.                                           *)
(***************************************************************************)
EXTENDS Timer

\* Every variable has a value of its type.
TypeOK ==
    /\ state \in States
    /\ task \in Functions \cup {Null} /\ runningTask \in Tasks \cup {Null}
    /\ doCount \in [Tasks -> Nat] /\ repeatCount \in 0..MaxRepeat
    /\ interval \in Intervals
    /\ posted \in [Tasks -> Nat] /\ frames \in Seq(Frames)
    /\ vm \in {"open", "destroyed", "crashed"} /\ refused \in BOOLEAN
    /\ session \in Session

\* resume() and resumeDelay() find the Task they run, and a Task is in the queue
\* once at most, however pause, resume and the callbacks alternate.
TaskToResume ==
    /\ state \in {"RUNNING", "PAUSING"} /\ vm = "open" => runningTask # Null
    /\ \A t \in Tasks : posted[t] <= 1

\* A timer that runs has its Task in the queue or in a call, unless postDelayed
\* refused it: no order of pause, resume, stop, start, callbacks and errors, and no
\* Task left over from an earlier start, makes it forget to tick.
Ticking ==
    vm = "open" /\ state = "RUNNING" /\ task # Null /\ ~refused => runningTask \in InUse

\* As long as nobody stops the timer, changes repeatCount, or starts it while an
\* old Task is still around, the function is called repeatCount times, and once more
\* for each pause() and resume() it makes in its last call: not more, and not fewer
\* when the timer ends by itself; with no repeatCount it never ends.
ExactCount ==
    session.clean =>
        /\ session.calls <= session.limit + session.late
        /\ state = "END" /\ vm = "open" =>
              session.limit > 0 /\ session.calls = session.limit + session.late

\* A timer that runs calls its function by the Task of the last start(), unless it
\* is paused, stopped or destroyed, its function failed or its post was refused.
TicksArrive ==
    state = "RUNNING" /\ task # Null /\ ~refused /\ vm = "open"
        ~> \/ runningTask \in OnStack
           \/ state # "RUNNING" \/ task = Null \/ refused \/ vm # "open"
=============================================================================
