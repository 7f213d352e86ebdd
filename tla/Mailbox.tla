------------------------------- MODULE Mailbox -------------------------------
(***************************************************************************)
(* What a message loop promises to those who post to it (the comments of   *)
(* japi/message_looper.h): messages are handled one at a time in the order *)
(* they were accepted; a safe quit lets everything accepted before it run; *)
(* an unsafe quit lets nothing more run; what was not run is released.     *)
(***************************************************************************)
EXTENDS Sequences

CONSTANTS Msg, Null

VARIABLES mode,     \* "open", "draining" (safe quit), "closing" (unsafe quit), "closed"
          inbox,    \* accepted messages that nobody took yet
          busy,     \* the message being handled
          done,     \* handled messages, in order
          dropped   \* messages released unhandled, in order

mboxVars == <<mode, inbox, busy, done, dropped>>

Init ==
    /\ mode = "open" /\ inbox = <<>> /\ busy = Null
    /\ done = <<>> /\ dropped = <<>>

Accept ==
    /\ mode = "open"
    /\ \E m \in Msg : inbox' = Append(inbox, m)
    /\ UNCHANGED <<mode, busy, done, dropped>>

Refuse ==
    /\ \E m \in Msg : dropped' = Append(dropped, m)
    /\ UNCHANGED <<mode, inbox, busy, done>>

Take ==
    /\ mode \in {"open", "draining"} /\ busy = Null /\ inbox # <<>>
    /\ busy' = Head(inbox) /\ inbox' = Tail(inbox)
    /\ UNCHANGED <<mode, done, dropped>>

Finish ==
    /\ busy # Null
    /\ done' = Append(done, busy) /\ busy' = Null
    /\ UNCHANGED <<mode, inbox, dropped>>

Close ==
    /\ mode = "open"
    /\ mode' \in {"draining", "closing"}
    /\ UNCHANGED <<inbox, busy, done, dropped>>

Closed ==
    /\ busy = Null
    /\ mode = "closing" \/ (mode = "draining" /\ inbox = <<>>)
    /\ mode' = "closed"
    /\ UNCHANGED <<inbox, busy, done, dropped>>

Discard ==
    /\ mode = "closed" /\ inbox # <<>>
    /\ dropped' = Append(dropped, Head(inbox)) /\ inbox' = Tail(inbox)
    /\ UNCHANGED <<mode, busy, done>>

Next == Accept \/ Refuse \/ Take \/ Finish \/ Close \/ Closed \/ Discard

Spec == Init /\ [][Next]_mboxVars
=============================================================================
