------------------------------ MODULE HotReload ------------------------------
(***************************************************************************)
(* Reloading pages while files arrive: HotReloadHelper.HotReloadImpl of    *)
(* mlnservics and the part of MLSInstance it calls.                        *)
(*                                                                         *)
(* Four kinds of threads meet here.  The thread that reads a connection    *)
(* calls onFileUpdate and its likes, and onReload.  One thread writes the  *)
(* files, one runs reloads.  The main thread reloads the pages and         *)
(* registers them.  They coordinate through two atomic integers; get and   *)
(* set of reloadState are steps of their own.                              *)
(***************************************************************************)
EXTENDS Integers, SequencesExt

CONSTANTS Receivers,    \* connections: USB, Wi-Fi
          Pages,
          MaxFiles,     \* bound: messages about files
          MaxRequests   \* bound: messages that ask for a reload

ASSUME HotReloadConstants == MaxFiles \in Nat /\ MaxRequests \in Nat

VARIABLES reloadState,  \* the bits that are set
          changeFiles,  \* files announced and not written yet
          callbacks,    \* HotReloadHelper.callbacks: the pages on screen
          \* the threads
          receiver,     \* of each receiver: where it is in onReload, the state it read
          requests,     \* onReload calls so far
          writer,       \* the thread that writes files: likewise
          submitted,    \* Runnables in the queue of the reload thread
          reloader,     \* the reload thread: where it is, the state it read, and
                        \*   the pages to reload, the one it waits for first
          main,         \* posts to the main thread
          \* the pages
          reloading,    \* those with STATE_HOT_RELOADING
          gone,         \* those that were destroyed
          \* history
          received, written,   \* how many files were announced, were written
          dead,         \* tasks of the writer that threw
          crashed,      \* an exception left a Runnable of the main thread
          asked,        \* received, when the last onReload was called
          accepted,     \* received, when a reload was last submitted by onReload
          due,          \* accepted, when the current reload started
          shows,        \* written, when a page last ran its script
          excused       \* pages not on screen since before the first request, and those
                        \*   that did not run their script

state   == <<reloadState, changeFiles>>
threads == <<receiver, requests, writer, submitted, reloader>>
pages   == <<callbacks, main, reloading, gone, shows, excused>>
files   == <<received, written, dead, crashed>>
dues    == <<asked, accepted, due>>
vars    == <<state, threads, pages, files, dues>>

Bits == {"PRE_RELOAD", "WAIT_FILE", "RELOADING", "FILE_CHANGE_WHEN_RELOADING", "RELOAD_AGAIN"}

\* Pages is a set of page instances; a page is in the list once.
Listed  == {callbacks[i] : i \in DOMAIN callbacks}
Without(p) ==
    IF p \in Listed THEN RemoveAt(callbacks, CHOOSE i \in DOMAIN callbacks : callbacks[i] = p)
                    ELSE callbacks

Idle == [pc |-> "idle", read |-> {}]

----------------------------------------------------------------------------
\* No page is on screen; each shows, or will show, the script it was opened with.
Init ==
    /\ reloadState = {} /\ changeFiles = 0
    /\ callbacks = <<>> /\ main = <<>> /\ reloading = {} /\ gone = {}
    /\ receiver = [r \in Receivers |-> Idle] /\ requests = 0
    /\ writer = Idle /\ submitted = 0
    /\ reloader = [pc |-> "idle", read |-> {}, todo |-> <<>>]
    /\ received = 0 /\ written = 0 /\ dead = 0 /\ crashed = FALSE
    /\ asked = 0 /\ accepted = 0 /\ due = 0
    /\ shows = [p \in Pages |-> 0] /\ excused = Pages

----------------------------------------------------------------------------
(* The threads that read connections. *)

\* changeFiles.incrementAndGet() comes before the task is submitted.
Unannounced == changeFiles          \* mutant
Announced   == changeFiles + 1

\* onFileCreate, onFileUpdate, onFileRename, onFileMove, onFileDelete.
OnFile(r) ==
    /\ receiver[r].pc = "idle" /\ received < MaxFiles
    /\ changeFiles' = Announced
    /\ received' = received + 1
    /\ UNCHANGED <<reloadState, threads, pages, written, dead, crashed, dues>>

MayStart == reloadState \in {{}, {"RELOAD_AGAIN"}}

\* onReload: its first look at reloadState.
OnReload(r) ==
    /\ receiver[r].pc = "idle" /\ requests < MaxRequests
    /\ requests' = requests + 1 /\ asked' = received
    /\ receiver' = [receiver EXCEPT ![r].pc = IF MayStart THEN "start" ELSE "get"]
    /\ UNCHANGED <<state, writer, submitted, reloader, pages, files, accepted, due>>

\* Nobody looks at reloadState between set(PRE_RELOAD) and submit but to find it
\* set: the two are one step.
StartReload(r) ==
    /\ receiver[r].pc = "start"
    /\ reloadState' = {"PRE_RELOAD"} /\ submitted' = submitted + 1
    /\ receiver' = [receiver EXCEPT ![r].pc = "idle"]
    /\ accepted' = received
    /\ UNCHANGED <<changeFiles, requests, writer, reloader, pages, files, asked, due>>

GetAgain(r) ==
    /\ receiver[r].pc = "get"
    /\ receiver' = [receiver EXCEPT ![r] = [pc |-> "set", read |-> reloadState]]
    /\ UNCHANGED <<state, requests, writer, submitted, reloader, pages, files, dues>>

SetAgain(r) ==
    /\ receiver[r].pc = "set"
    /\ reloadState' = receiver[r].read \cup {"RELOAD_AGAIN"}
    /\ receiver' = [receiver EXCEPT ![r] = Idle]
    /\ UNCHANGED <<changeFiles, requests, writer, submitted, reloader, pages, files, dues>>

----------------------------------------------------------------------------
(* The thread that writes files. *)

MarksReloading ==
    /\ "RELOADING" \in reloadState
    /\ reloadState \cap {"FILE_CHANGE_WHEN_RELOADING", "PRE_RELOAD"} = {}

\* A task begins, or tests once more in waitReloading.
WaitReloading ==
    /\ \/ writer.pc = "idle" /\ written + dead < received
       \/ writer.pc = "test"
    /\ IF MarksReloading
         THEN writer' = [writer EXCEPT !.pc = "get"]
         ELSE \E next \in {"notify", "save"} : writer' = [writer EXCEPT !.pc = next]
    /\ UNCHANGED <<state, receiver, requests, submitted, reloader, pages, files, dues>>

GetChange ==
    /\ writer.pc = "get"
    /\ writer' = [pc |-> "set", read |-> reloadState]
    /\ UNCHANGED <<state, receiver, requests, submitted, reloader, pages, files, dues>>

SetChange ==
    /\ writer.pc = "set"
    /\ reloadState' = writer.read \cup {"FILE_CHANGE_WHEN_RELOADING"}
    /\ writer' = [pc |-> "test", read |-> {}]
    /\ UNCHANGED <<changeFiles, receiver, requests, submitted, reloader, pages, files, dues>>

\* onFileUpdate told every page (onUpdateFiles).
Notified ==
    /\ writer.pc = "notify"
    /\ writer' = [writer EXCEPT !.pc = "save"]
    /\ UNCHANGED <<state, receiver, requests, submitted, reloader, pages, files, dues>>

ReleasedTwice == changeFiles - 2    \* mutant: no return after a failed createNewFile
Released      == changeFiles - 1

\* The file is created, written, moved or deleted, or could not be.
Save ==
    /\ writer.pc = "save"
    /\ writer' = Idle
    /\ changeFiles' = Released
    /\ written' = written + 1
    /\ UNCHANGED <<reloadState, receiver, requests, submitted, reloader, pages, received,
                   dead, crashed, dues>>

\* The list of callbacks was changed under the loop that tells them: the task ends
\* with an exception its Future keeps.
WriterThrows ==
    /\ writer.pc = "throw"
    /\ writer' = Idle
    /\ dead' = dead + 1
    /\ UNCHANGED <<state, receiver, requests, submitted, reloader, pages, received, written,
                   crashed, dues>>
----------------------------------------------------------------------------
(* The reload thread. *)

StartRun ==
    /\ reloader.pc = "idle" /\ submitted > 0
    /\ submitted' = submitted - 1
    /\ reloadState' = {"WAIT_FILE"}
    /\ reloader' = [reloader EXCEPT !.pc = "spin"]
    /\ due' = accepted
    /\ UNCHANGED <<changeFiles, receiver, requests, writer, pages, files, asked, accepted>>

FilesGone   == changeFiles < 0       \* mutant
FilesSettled == changeFiles <= 0

Spin ==
    /\ reloader.pc = "spin" /\ FilesSettled
    /\ reloader' = [reloader EXCEPT !.pc = "ready"]
    /\ UNCHANGED <<state, receiver, requests, writer, submitted, pages, files, dues>>

\* The state is set and the list of pages copied.
SetReloading ==
    /\ reloader.pc = "ready"
    /\ reloadState' = {"RELOADING"}
    /\ reloader' = [reloader EXCEPT !.pc = "pages", !.todo = callbacks]
    /\ UNCHANGED <<changeFiles, receiver, requests, writer, submitted, pages, files, dues>>

\* MLSInstance.onReload posts to the main thread unless the page was destroyed.
ReloadPage ==
    /\ reloader.pc = "pages" /\ reloader.todo # <<>>
    /\ main' = IF Head(reloader.todo) \in gone THEN main
               ELSE Append(main, <<"reload", Head(reloader.todo)>>)
    /\ reloader' = [reloader EXCEPT !.pc = "wait"]
    /\ UNCHANGED <<state, receiver, requests, writer, submitted, callbacks, reloading, gone,
                   shows, excused, files, dues>>

\* reloadFinish(); the main thread need not have taken the post yet.
ReloadFinish ==
    /\ reloader.pc = "wait" /\ Head(reloader.todo) \notin reloading
    /\ reloader' = [reloader EXCEPT !.pc = "pages", !.todo = Tail(@)]
    /\ UNCHANGED <<state, receiver, requests, writer, submitted, pages, files, dues>>

ReadState ==
    /\ reloader.pc = "pages" /\ reloader.todo = <<>>
    /\ reloader' = [reloader EXCEPT !.pc = "pre", !.read = reloadState]
    /\ UNCHANGED <<state, receiver, requests, writer, submitted, pages, files, dues>>

SetPreReload ==
    /\ reloader.pc = "pre"
    /\ reloader' = [reloader EXCEPT !.pc = "end"]
    /\ reloadState' = {"PRE_RELOAD"}
    /\ UNCHANGED <<changeFiles, receiver, requests, writer, submitted, pages, files, dues>>

Again == {"FILE_CHANGE_WHEN_RELOADING", "RELOAD_AGAIN"} \subseteq reloader.read

EndRun ==
    /\ reloader.pc = "end"
    /\ IF Again THEN submitted' = submitted + 1 /\ UNCHANGED reloadState
                ELSE reloadState' = {} /\ UNCHANGED submitted
    /\ reloader' = [reloader EXCEPT !.pc = "idle", !.read = {}]
    /\ UNCHANGED <<changeFiles, receiver, requests, writer, pages, files, dues>>

----------------------------------------------------------------------------
(* The main thread. *)

\* A change of the list may be seen by the loop over it that runs in the writer.
SetCallbacks(list) ==
    /\ callbacks' = list
    /\ IF list # callbacks /\ writer.pc = "notify"
         THEN \E pc \in {"notify", "throw"} : writer' = [writer EXCEPT !.pc = pc]
         ELSE UNCHANGED writer

Added(p) == IF p \in Listed THEN callbacks ELSE Append(callbacks, p)

OnResume(p) ==
    /\ p \notin gone
    /\ SetCallbacks(Added(p))
    /\ excused' = IF requests = 0 THEN excused \ {p} ELSE excused
    /\ UNCHANGED <<state, receiver, requests, submitted, reloader, main, reloading, gone,
                   shows, files, dues>>

OnPause(p) ==
    /\ p \in Listed
    /\ SetCallbacks(Without(p))
    /\ excused' = excused \cup {p}
    /\ UNCHANGED <<state, receiver, requests, submitted, reloader, main, reloading, gone,
                   shows, files, dues>>

\* setState(STATE_DESTROY) clears every other state.
OnDestroy(p) ==
    /\ p \notin gone
    /\ SetCallbacks(Without(p))
    /\ gone' = gone \cup {p} /\ reloading' = reloading \ {p}
    /\ excused' = excused \cup {p}
    /\ UNCHANGED <<state, receiver, requests, submitted, reloader, main, shows, files, dues>>

Takes(what, p) == main # <<>> /\ Head(main) = <<what, p>>

\* The page was destroyed after the post: its initData is null.
ReloadThrows(p) ==
    /\ Takes("reload", p) /\ p \in gone
    /\ main' = Tail(main) /\ crashed' = TRUE
    /\ UNCHANGED <<state, threads, callbacks, reloading, gone, shows, excused, received,
                   written, dead, dues>>

\* reloadByHotReload returns at once.
ReloadIgnored(p) ==
    /\ Takes("reload", p) /\ p \in reloading
    /\ main' = Tail(main)
    /\ UNCHANGED <<state, threads, callbacks, reloading, gone, shows, excused, files, dues>>

\* The files are read, the script is compiled and runs, all within reloadByHotReload.
ReloadSucceeds(p) ==
    /\ Takes("reload", p) /\ p \notin gone \cup reloading
    /\ main' = Tail(main)
    /\ shows' = [shows EXCEPT ![p] = written]
    /\ SetCallbacks(Added(p))
    /\ UNCHANGED <<state, receiver, requests, submitted, reloader, reloading, gone, excused,
                   files, dues>>

\* The entry file cannot be read: onScriptLoadFailed takes STATE_HOT_RELOADING back.
LoadFails(p) ==
    /\ Takes("reload", p) /\ p \notin gone \cup reloading
    /\ main' = Tail(main)
    /\ excused' = excused \cup {p}
    /\ UNCHANGED <<state, threads, callbacks, reloading, gone, shows, files, dues>>

\* The script does not compile or raises an error: onScriptExecuted posts the rest.
ScriptFails(p) ==
    /\ Takes("reload", p) /\ p \notin gone \cup reloading
    /\ main' = Append(Tail(main), <<"failed", p>>)
    /\ reloading' = reloading \cup {p}
    /\ SetCallbacks(Added(p))
    /\ excused' = excused \cup {p}
    /\ UNCHANGED <<state, receiver, requests, submitted, reloader, gone, shows, files, dues>>

\* The root view cannot be created: the page stays in STATE_HOT_RELOADING.
NoView(p) ==
    /\ Takes("reload", p) /\ p \notin gone \cup reloading
    /\ main' = Tail(main)
    /\ reloading' = reloading \cup {p}
    /\ excused' = excused \cup {p}
    /\ UNCHANGED <<state, threads, callbacks, gone, shows, files, dues>>

AfterFailure(p) ==
    /\ Takes("failed", p)
    /\ main' = Tail(main)
    /\ reloading' = reloading \ {p}
    /\ UNCHANGED <<state, threads, callbacks, gone, shows, excused, files, dues>>

----------------------------------------------------------------------------
Alive == ~crashed

Receive(r) == Alive /\ (OnFile(r) \/ OnReload(r))
Answer(r)  == Alive /\ (StartReload(r) \/ GetAgain(r) \/ SetAgain(r))
Write      == /\ Alive
              /\ WaitReloading \/ GetChange \/ SetChange \/ Notified \/ Save \/ WriterThrows
Reload     == /\ Alive
              /\ \/ StartRun \/ Spin \/ SetReloading \/ ReloadPage \/ ReloadFinish
                 \/ ReadState \/ SetPreReload \/ EndRun
Page(p)    == Alive /\ (OnResume(p) \/ OnPause(p) \/ OnDestroy(p))
Dispatch   == /\ Alive
              /\ \E p \in Pages : \/ ReloadThrows(p) \/ ReloadIgnored(p) \/ ReloadSucceeds(p)
                                 \/ LoadFails(p) \/ ScriptFails(p) \/ NoView(p)
                                 \/ AfterFailure(p)

Next == \/ \E r \in Receivers : Receive(r) \/ Answer(r)
        \/ Write \/ Reload
        \/ \E p \in Pages : Page(p)
        \/ Dispatch

Spec == Init /\ [][Next]_vars

\* Every thread runs; nobody must send a message or leave the screen.
Fairness ==
    /\ \A r \in Receivers : WF_vars(Answer(r))
    /\ WF_vars(Write) /\ WF_vars(Reload) /\ WF_vars(Dispatch)

FairSpec == Spec /\ Fairness
=============================================================================
