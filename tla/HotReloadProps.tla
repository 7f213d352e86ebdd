--------------------------- MODULE HotReloadProps ---------------------------
(***************************************************************************)
(* Correctness of hot reload: what a page shows after a request.           *)
(***************************************************************************)
EXTENDS HotReload

ReceiverStates == [pc : {"idle", "start", "get", "set"}, read : SUBSET Bits]
WriterStates   == [pc : {"idle", "test", "get", "set", "notify", "throw", "save"},
                   read : SUBSET Bits]
ReloaderStates == [pc : {"idle", "spin", "ready", "pages", "wait", "pre", "end"},
                   read : SUBSET Bits, todo : Seq(Pages)]

\* Every variable has a value of its type; no file is released twice.
TypeOK ==
    /\ reloadState \subseteq Bits
    /\ changeFiles \in 0..MaxFiles
    /\ callbacks \in Seq(Pages) /\ main \in Seq({"reload", "failed"} \X Pages)
    /\ receiver \in [Receivers -> ReceiverStates] /\ writer \in WriterStates
    /\ requests \in 0..MaxRequests
    /\ submitted \in Nat /\ reloader \in ReloaderStates
    /\ reloading \subseteq Pages /\ gone \subseteq Pages /\ excused \subseteq Pages
    /\ received \in 0..MaxFiles /\ written \in 0..MaxFiles /\ dead \in 0..MaxFiles
    /\ crashed \in BOOLEAN
    /\ asked \in 0..MaxFiles /\ accepted \in 0..MaxFiles /\ due \in 0..MaxFiles
    /\ shows \in [Pages -> 0..MaxFiles]

\* When pages are told to reload, every file that was announced before the request
\* of this run is written: a page never runs the script it was to replace because
\* the reload overtook the writer.
ReloadSeesFiles ==
    reloader.pc \in {"ready", "pages", "wait", "pre", "end"} => due <= written

\* A page that cannot create its view, or a writer that died, stops everything; so does
\* a reload that reaches a page destroyed in between.
Stopped == \/ dead > 0 \/ crashed
           \/ \E p \in reloading : \A i \in DOMAIN main : main[i] # <<"failed", p>>

\* Once onReload submitted a reload, every page on screen comes to show all files
\* announced before, whatever races about reloadState are lost.
AcceptedIsShown ==
    \A p \in Pages, k \in 1..MaxFiles :
        accepted >= k ~> shows[p] >= k \/ p \in excused \/ Stopped

----------------------------------------------------------------------------
\* What the documentation says and the code does not do.

\* README.md:30, "change the code and it takes effect at once": when every message
\* was handled and every thread is idle, a page on screen shows all files that were
\* announced before the last request.
EditsTakeEffect ==
    (/\ \A r \in Receivers : receiver[r].pc = "idle"
     /\ writer.pc = "idle" /\ written = received /\ dead = 0 /\ Alive
     /\ reloader.pc = "idle" /\ submitted = 0 /\ main = <<>>)
        => \A p \in Pages \ excused : shows[p] >= asked
=============================================================================
