--------------------------- MODULE HotReloadProofs ---------------------------
(***************************************************************************)
(* Theorems about HotReload, for any number of connections, pages, files   *)
(* and requests.                                                           *)
(***************************************************************************)
EXTENDS HotReloadProps, SequenceTheorems, TLAPS

\* The counter is the number of files announced and not written, also when a task
\* died; a task at work is one of them.
Counted ==
    /\ changeFiles = received - written
    /\ written + dead <= received
    /\ writer.pc # "idle" => written + dead < received

\* A request knows only of files that were announced.
Known == asked <= received /\ accepted <= received /\ due <= received

\* The page the reload thread waits for is the first of those left.
Waits == reloader.pc = "wait" => reloader.todo # <<>>

IInv == TypeOK /\ Counted /\ Known /\ Waits /\ ReloadSeesFiles

Messages == Seq({"reload", "failed"} \X Pages)

\* A post keeps the queue of the main thread a sequence of messages.
LEMMA Enqueued ==
    ASSUME NEW queue \in Messages, NEW what \in {"reload", "failed"}, NEW p \in Pages
    PROVE  Append(queue, <<what, p>>) \in Messages
<1>1. <<what, p>> \in {"reload", "failed"} \X Pages
  OBVIOUS
<1>. QED BY <1>1, AppendProperties DEF Messages

\* The initial states satisfy the invariant.
LEMMA InitIInv == Init => IInv
<1>. SUFFICES ASSUME Init PROVE IInv
  OBVIOUS
<1>. USE HotReloadConstants
<1>1. /\ receiver \in [Receivers -> ReceiverStates] /\ writer \in WriterStates
      /\ reloader \in ReloaderStates
  BY DEF Init, Idle, ReceiverStates, WriterStates, ReloaderStates
<1>2. crashed \in BOOLEAN
  BY Zenon DEF Init
<1>3. TypeOK
  BY <1>1, <1>2 DEF Init, TypeOK, Bits
<1>. QED
  BY <1>3 DEF Init, IInv, Counted, Known, Waits, ReloadSeesFiles, Idle

\* What a receiver does: a counter moves up, or the state and its own place change.
LEMMA ReceiveStep ==
    ASSUME IInv, NEW r \in Receivers, Receive(r) \/ Answer(r)
    PROVE  IInv'
<1>. USE HotReloadConstants
<1>1. CASE OnFile(r)
  <2>1. /\ received < MaxFiles
        /\ changeFiles' = changeFiles + 1 /\ received' = received + 1
        /\ UNCHANGED <<reloadState, threads, pages, written, dead, crashed, dues>>
    BY <1>1 DEF OnFile, Announced
  <2>2. received \in 0..MaxFiles /\ written \in 0..MaxFiles /\ dead \in 0..MaxFiles
        /\ asked \in 0..MaxFiles /\ accepted \in 0..MaxFiles /\ due \in 0..MaxFiles
    BY DEF IInv, TypeOK
  <2>3. TypeOK'
    BY <2>1, <2>2 DEF IInv, TypeOK, Counted, threads, pages, dues
  <2>. QED
    BY <2>1, <2>2, <2>3 DEF IInv, Counted, Known, Waits, ReloadSeesFiles, threads, pages, dues
<1>2. CASE OnReload(r) \/ GetAgain(r)
  <2>1. /\ receiver' \in [Receivers -> ReceiverStates]
        /\ requests' \in 0..MaxRequests /\ asked' \in 0..MaxFiles /\ asked' <= received
        /\ UNCHANGED <<state, writer, submitted, reloader, pages, files, accepted, due>>
    <3>1. /\ receiver \in [Receivers -> ReceiverStates] /\ reloadState \in SUBSET Bits
          /\ requests \in 0..MaxRequests /\ received \in 0..MaxFiles
          /\ asked \in 0..MaxFiles /\ asked <= received
      BY DEF IInv, TypeOK, Known
    <3>2. CASE OnReload(r)
      BY <3>1, <3>2 DEF OnReload, ReceiverStates
    <3>3. CASE GetAgain(r)
      BY <3>1, <3>3 DEF GetAgain, ReceiverStates, dues
    <3>. QED BY <1>2, <3>2, <3>3
  <2>2. TypeOK'
    BY <2>1 DEF IInv, TypeOK, state, pages, files
  <2>. QED
    BY <2>1, <2>2 DEF IInv, Counted, Known, Waits, ReloadSeesFiles, state, pages, files
<1>3. CASE StartReload(r) \/ SetAgain(r)
  <2>1. /\ reloadState' \subseteq Bits /\ receiver' \in [Receivers -> ReceiverStates] /\ submitted' \in Nat
        /\ accepted' \in 0..MaxFiles /\ accepted' <= received
        /\ UNCHANGED <<changeFiles, requests, writer, reloader, pages, files, asked, due>>
    <3>1. /\ receiver \in [Receivers -> ReceiverStates] /\ submitted \in Nat /\ received \in 0..MaxFiles
          /\ accepted \in 0..MaxFiles /\ accepted <= received
      BY DEF IInv, TypeOK, Known
    <3>2. CASE StartReload(r)
      BY <3>1, <3>2 DEF StartReload, ReceiverStates, Bits
    <3>3. CASE SetAgain(r)
      <4>1. receiver[r].read \subseteq Bits
        BY <3>1 DEF ReceiverStates
      <4>. QED BY <3>1, <3>3, <4>1 DEF SetAgain, Idle, ReceiverStates, Bits, dues
    <3>. QED BY <1>3, <3>2, <3>3
  <2>2. TypeOK'
    BY <2>1 DEF IInv, TypeOK, pages, files
  <2>. QED
    BY <2>1, <2>2 DEF IInv, Counted, Known, Waits, ReloadSeesFiles, pages, files
<1>. QED
  BY <1>1, <1>2, <1>3 DEF Receive, Answer

\* What the writer does.
LEMMA WriteStep == ASSUME IInv, Write PROVE IInv'
<1>. USE HotReloadConstants
<1>1. CASE WaitReloading \/ GetChange \/ SetChange \/ Notified
  <2>1. /\ writer \in WriterStates /\ reloadState \subseteq Bits
        /\ received \in 0..MaxFiles /\ written \in 0..MaxFiles /\ dead \in 0..MaxFiles
        /\ writer.pc # "idle" => written + dead < received
    BY DEF IInv, TypeOK, Counted
  <2>2. /\ writer' \in WriterStates /\ reloadState' \subseteq Bits
        /\ writer'.pc # "idle" => written + dead < received
        /\ UNCHANGED <<changeFiles, receiver, requests, submitted, reloader, pages, files, dues>>
    <3>1. CASE WaitReloading
      <4>1. PICK next \in {"get", "notify", "save"} : writer' = [writer EXCEPT !.pc = next]
        BY <3>1 DEF WaitReloading
      <4>2. written + dead < received
        BY <2>1, <3>1 DEF WaitReloading
      <4>. QED BY <2>1, <3>1, <4>1, <4>2 DEF WaitReloading, WriterStates, state
    <3>2. CASE GetChange
      BY <2>1, <3>2 DEF GetChange, WriterStates, state
    <3>3. CASE SetChange
      <4>1. writer.read \subseteq Bits
        BY <2>1 DEF WriterStates
      <4>. QED BY <2>1, <3>3, <4>1 DEF SetChange, WriterStates, Bits
    <3>4. CASE Notified
      BY <2>1, <3>4 DEF Notified, WriterStates, state
    <3>. QED BY <1>1, <3>1, <3>2, <3>3, <3>4
  <2>3. TypeOK'
    BY <2>2 DEF IInv, TypeOK, pages, files, dues
  <2>. QED
    BY <2>2, <2>3 DEF IInv, Counted, Known, Waits, ReloadSeesFiles, pages, files, dues
<1>2. CASE Save \/ WriterThrows
  <2>1. /\ received \in 0..MaxFiles /\ written \in 0..MaxFiles /\ dead \in 0..MaxFiles
        /\ due \in 0..MaxFiles
        /\ writer.pc # "idle" => written + dead < received
        /\ changeFiles = received - written /\ reloadState \subseteq Bits
    BY DEF IInv, TypeOK, Counted
  <2>2. /\ writer' = Idle /\ changeFiles' = received - written' /\ changeFiles' \in 0..MaxFiles
        /\ written' \in 0..MaxFiles /\ dead' \in 0..MaxFiles
        /\ written' + dead' <= received /\ written <= written'
        /\ UNCHANGED <<reloadState, receiver, requests, submitted, reloader, pages, received,
                       crashed, dues>>
    <3>1. CASE Save
      <4>1. /\ written + dead < received /\ written' = written + 1 /\ dead' = dead
            /\ changeFiles' = changeFiles - 1
        BY <2>1, <3>1 DEF Save, Released
      <4>2. changeFiles' = received - written' /\ changeFiles' \in 0..MaxFiles /\ written' \in 0..MaxFiles
            /\ written' + dead' <= received /\ written <= written'
        BY <2>1, <4>1
      <4>. QED BY <2>1, <3>1, <4>1, <4>2 DEF Save
    <3>2. CASE WriterThrows
      <4>1. /\ written + dead < received /\ written' = written /\ dead' = dead + 1
            /\ changeFiles' = changeFiles /\ reloadState' = reloadState
        BY <2>1, <3>2 DEF WriterThrows, state
      <4>2. changeFiles' = received - written' /\ changeFiles' \in 0..MaxFiles /\ dead' \in 0..MaxFiles
            /\ written' + dead' <= received /\ written <= written'
        BY <2>1, <4>1
      <4>. QED BY <2>1, <3>2, <4>1, <4>2 DEF WriterThrows
    <3>. QED BY <1>2, <3>1, <3>2
  <2>3. writer' \in WriterStates /\ writer'.pc = "idle"
    BY <2>2 DEF Idle, WriterStates
  <2>4. TypeOK'
    BY <2>2, <2>3 DEF IInv, TypeOK, pages, dues
  <2>5. Counted'
    BY <2>2, <2>3 DEF Counted
  <2>6. ReloadSeesFiles'
    <3>1. reloader' = reloader /\ due' = due
      BY <2>2 DEF dues
    <3>. QED BY <2>1, <2>2, <3>1 DEF IInv, ReloadSeesFiles
  <2>. QED
    BY <2>2, <2>4, <2>5, <2>6 DEF IInv, Known, Waits, dues
<1>. QED
  BY <1>1, <1>2 DEF Write

\* What the reload thread does: it passes the spin only with nothing left to write.
LEMMA ReloadStep == ASSUME IInv, Reload PROVE IInv'
<1>. USE HotReloadConstants
<1>1. /\ reloader \in ReloaderStates /\ reloader.todo \in Seq(Pages)
      /\ reloadState \subseteq Bits /\ submitted \in Nat
      /\ callbacks \in Seq(Pages) /\ main \in Messages
      /\ received \in 0..MaxFiles /\ written \in 0..MaxFiles
      /\ accepted \in 0..MaxFiles /\ due \in 0..MaxFiles
      /\ accepted <= received /\ due <= received
      /\ changeFiles = received - written
  BY DEF IInv, TypeOK, Known, Counted, ReloaderStates, Messages
<1>2. /\ reloadState' \subseteq Bits /\ submitted' \in Nat
      /\ reloader' \in ReloaderStates /\ due' \in 0..MaxFiles /\ due' <= received
      /\ main' \in Messages /\ Waits' /\ ReloadSeesFiles'
      /\ UNCHANGED <<changeFiles, receiver, requests, writer, callbacks, reloading, gone,
                     shows, excused, files, asked, accepted>>
  <2>1. CASE StartRun
    <3>1. /\ reloader' = [reloader EXCEPT !.pc = "spin"] /\ submitted' = submitted - 1
          /\ submitted > 0 /\ reloadState' = {"WAIT_FILE"} /\ due' = accepted
          /\ UNCHANGED <<changeFiles, receiver, requests, writer, pages, files, asked, accepted>>
      BY <2>1 DEF StartRun
    <3>2. reloader' \in ReloaderStates /\ reloader'.pc = "spin"
      BY <1>1, <3>1 DEF ReloaderStates
    <3>3. submitted' \in Nat /\ due' \in 0..MaxFiles /\ due' <= received
      BY <1>1, <3>1
    <3>4. Waits' /\ ReloadSeesFiles'
      BY <3>2 DEF Waits, ReloadSeesFiles
    <3>. QED BY <1>1, <3>1, <3>2, <3>3, <3>4 DEF Bits, pages
  <2>2. CASE Spin
    <3>1. /\ reloader' = [reloader EXCEPT !.pc = "ready"] /\ changeFiles <= 0
          /\ UNCHANGED <<state, receiver, requests, writer, submitted, pages, files, dues>>
      BY <2>2 DEF Spin, FilesSettled
    <3>2. reloader' \in ReloaderStates /\ reloader'.pc = "ready"
      BY <1>1, <3>1 DEF ReloaderStates
    <3>3. due <= written
      BY <1>1, <3>1
    <3>4. due' = due /\ written' = written
      BY <3>1 DEF dues, files
    <3>5. Waits' /\ ReloadSeesFiles'
      BY <3>2, <3>3, <3>4 DEF Waits, ReloadSeesFiles
    <3>. QED BY <1>1, <3>1, <3>2, <3>5 DEF state, pages, dues
  <2>3. CASE SetReloading
    BY <1>1, <2>3 DEF IInv, SetReloading, ReloaderStates, Bits, Waits, ReloadSeesFiles, pages, dues,
                      files
  <2>4. CASE ReloadPage
    <3>1. /\ reloader.pc = "pages" /\ reloader.todo # <<>>
          /\ reloader' = [reloader EXCEPT !.pc = "wait"]
          /\ main' \in {main, Append(main, <<"reload", Head(reloader.todo)>>)}
          /\ UNCHANGED <<state, receiver, requests, writer, submitted, callbacks, reloading, gone,
                         shows, excused, files, dues>>
      BY <2>4 DEF ReloadPage
    <3>2. reloader' \in ReloaderStates /\ reloader'.todo = reloader.todo
      BY <1>1, <3>1 DEF ReloaderStates
    <3>3. Head(reloader.todo) \in Pages
      BY <1>1, <3>1
    <3>4. Append(main, <<"reload", Head(reloader.todo)>>) \in Messages
      BY <1>1, <3>3, Enqueued
    <3>5. main' \in Messages
      <4>1. main' \in {main, Append(main, <<"reload", Head(reloader.todo)>>)}
        BY <3>1
      <4>. QED BY <1>1, <3>4, <4>1
    <3>6. Waits' /\ ReloadSeesFiles'
      BY <3>1, <3>2 DEF IInv, Waits, ReloadSeesFiles, dues, files
    <3>. QED BY <1>1, <3>1, <3>2, <3>5, <3>6 DEF state, dues
  <2>5. CASE ReloadFinish
    <3>1. reloader.todo # <<>>
      BY <2>5 DEF IInv, Waits, ReloadFinish
    <3>2. Tail(reloader.todo) \in Seq(Pages)
      BY <1>1, <3>1
    <3>. QED
      BY <1>1, <2>5, <3>2 DEF IInv, ReloadFinish, ReloaderStates, Waits, ReloadSeesFiles, state,
                              pages, dues, files
  <2>6. CASE ReadState
    BY <1>1, <2>6 DEF IInv, ReadState, ReloaderStates, Waits, ReloadSeesFiles, state, pages, dues,
                      files
  <2>7. CASE SetPreReload
    BY <1>1, <2>7 DEF IInv, SetPreReload, ReloaderStates, Bits, Waits, ReloadSeesFiles, pages, dues,
                      files
  <2>8. CASE EndRun
    <3>1. /\ reloader' = [reloader EXCEPT !.pc = "idle", !.read = {}]
          /\ submitted' \in {submitted, submitted + 1} /\ reloadState' \in {reloadState, {}}
          /\ UNCHANGED <<changeFiles, receiver, requests, writer, pages, files, dues>>
      BY <2>8 DEF EndRun
    <3>2. reloader' \in ReloaderStates /\ reloader'.pc = "idle"
      BY <1>1, <3>1 DEF ReloaderStates
    <3>3. Waits' /\ ReloadSeesFiles'
      BY <3>2 DEF Waits, ReloadSeesFiles
    <3>. QED BY <1>1, <3>1, <3>2, <3>3 DEF pages, dues
  <2>. QED
    BY <2>1, <2>2, <2>3, <2>4, <2>5, <2>6, <2>7, <2>8 DEF Reload
<1>3. TypeOK'
  BY <1>2 DEF IInv, TypeOK, files, Messages
<1>. QED
  BY <1>1, <1>2, <1>3 DEF IInv, Counted, Known, files

\* The list of pages stays a list of pages.
LEMMA Lists ==
    ASSUME IInv, NEW p \in Pages
    PROVE  Added(p) \in Seq(Pages) /\ Without(p) \in Seq(Pages)
<1>1. callbacks \in Seq(Pages)
  BY DEF IInv, TypeOK
<1>2. Added(p) \in Seq(Pages)
  BY <1>1, AppendProperties DEF Added
<1>3. ASSUME p \in Listed PROVE Without(p) \in Seq(Pages)
  <2>1. PICK i \in DOMAIN callbacks : i = CHOOSE j \in DOMAIN callbacks : callbacks[j] = p
    BY <1>3 DEF Listed
  <2>2. Without(p) = SubSeq(callbacks, 1, i - 1) \o SubSeq(callbacks, i + 1, Len(callbacks))
    BY <1>3, <2>1 DEF Without, RemoveAt
  <2>3. i \in 1..Len(callbacks) /\ Len(callbacks) \in Nat
    BY <1>1, <2>1
  <2>4. /\ SubSeq(callbacks, 1, i - 1) \in Seq(Pages)
        /\ SubSeq(callbacks, i + 1, Len(callbacks)) \in Seq(Pages)
    BY <1>1, <2>3, SubSeqProperties
  <2>. QED BY <2>2, <2>4, ConcatProperties
<1>. QED BY <1>1, <1>2, <1>3 DEF Without

\* A change of the list never gives an idle writer work.
LEMMA ListStep ==
    ASSUME IInv, NEW list \in Seq(Pages), SetCallbacks(list)
    PROVE  /\ callbacks' \in Seq(Pages) /\ writer' \in WriterStates
           /\ writer'.pc # "idle" => writer.pc # "idle"
<1>1. writer \in WriterStates
  BY DEF IInv, TypeOK
<1>2. CASE writer' = writer
  BY <1>1, <1>2 DEF SetCallbacks
<1>3. CASE writer.pc = "notify"
  <2>1. PICK pc \in {"notify", "throw"} : writer' = [writer EXCEPT !.pc = pc] \/ writer' = writer
    BY <1>3 DEF SetCallbacks
  <2>2. writer' \in WriterStates
    BY <1>1, <2>1 DEF WriterStates
  <2>. QED BY <1>3, <2>2 DEF SetCallbacks
<1>. QED BY <1>2, <1>3 DEF SetCallbacks

\* What the main thread does concerns the pages and, at most, a task that is at work.
LEMMA MainStep ==
    ASSUME IInv,
           callbacks' \in Seq(Pages), main' \in Messages, reloading' \subseteq Pages,
           gone' \subseteq Pages, excused' \subseteq Pages, shows' \in [Pages -> 0..MaxFiles],
           writer' \in WriterStates, writer'.pc # "idle" => writer.pc # "idle",
           UNCHANGED <<state, receiver, requests, submitted, reloader, received, written, dead, dues>>,
           crashed' \in BOOLEAN
    PROVE  IInv'
<1>1. TypeOK'
  BY DEF IInv, TypeOK, state, dues, Messages
<1>2. Counted'
  BY DEF IInv, Counted, state
<1>. QED
  BY <1>1, <1>2 DEF IInv, Known, Waits, ReloadSeesFiles, state, dues

\* The main thread enters, leaves and destroys pages.
LEMMA PageStep == ASSUME IInv, NEW p \in Pages, Page(p) PROVE IInv'
<1>1. /\ main \in Messages /\ reloading \subseteq Pages /\ gone \subseteq Pages
      /\ crashed \in BOOLEAN /\ excused \subseteq Pages /\ shows \in [Pages -> 0..MaxFiles]
  BY DEF IInv, TypeOK, Messages
<1>2. /\ SetCallbacks(Added(p)) \/ SetCallbacks(Without(p))
      /\ main' \in Messages /\ reloading' \subseteq Pages /\ gone' \subseteq Pages
      /\ excused' \subseteq Pages /\ shows' \in [Pages -> 0..MaxFiles]
      /\ crashed' \in BOOLEAN
      /\ UNCHANGED <<state, receiver, requests, submitted, reloader, received, written, dead, dues>>
  <2>1. CASE OnResume(p)
    BY <1>1, <2>1 DEF OnResume, files
  <2>2. CASE OnPause(p)
    BY <1>1, <2>2 DEF OnPause, files
  <2>3. CASE OnDestroy(p)
    BY <1>1, <2>3 DEF OnDestroy, files
  <2>. QED BY <2>1, <2>2, <2>3 DEF Page
<1>3. /\ callbacks' \in Seq(Pages) /\ writer' \in WriterStates
      /\ writer'.pc # "idle" => writer.pc # "idle"
  BY <1>2, Lists, ListStep
<1>. QED BY <1>2, <1>3, MainStep

\* The main thread takes a post.
LEMMA DispatchStep == ASSUME IInv, Dispatch PROVE IInv'
<1>1. PICK p \in Pages : \/ ReloadThrows(p) \/ ReloadIgnored(p) \/ ReloadSucceeds(p)
                         \/ LoadFails(p) \/ ScriptFails(p) \/ NoView(p) \/ AfterFailure(p)
  BY DEF Dispatch
<1>2. /\ main \in Messages /\ reloading \subseteq Pages /\ gone \subseteq Pages
      /\ crashed \in BOOLEAN /\ excused \subseteq Pages /\ shows \in [Pages -> 0..MaxFiles] /\ written \in 0..MaxFiles
      /\ callbacks \in Seq(Pages) /\ writer \in WriterStates
  BY DEF IInv, TypeOK, Messages
<1>3. main # <<>> => Tail(main) \in Messages
  BY <1>2 DEF Messages
<1>4. CASE ReloadSucceeds(p) \/ ScriptFails(p)
  <2>1. SetCallbacks(Added(p)) /\ main # <<>>
    BY <1>4 DEF ReloadSucceeds, ScriptFails, Takes
  <2>2. /\ callbacks' \in Seq(Pages) /\ writer' \in WriterStates
        /\ writer'.pc # "idle" => writer.pc # "idle"
    BY <2>1, Lists, ListStep
  <2>3. Append(Tail(main), <<"failed", p>>) \in Messages
    BY <1>3, <2>1, Enqueued
  <2>4. /\ main' \in Messages /\ reloading' \subseteq Pages /\ gone' \subseteq Pages
        /\ excused' \subseteq Pages /\ shows' \in [Pages -> 0..MaxFiles]
        /\ crashed' \in BOOLEAN
        /\ UNCHANGED <<state, receiver, requests, submitted, reloader, received, written, dead, dues>>
    <3>1. CASE ReloadSucceeds(p)
      BY <1>2, <1>3, <2>1, <3>1 DEF ReloadSucceeds, files
    <3>2. CASE ScriptFails(p)
      BY <1>2, <2>3, <3>2 DEF ScriptFails, files
    <3>. QED BY <1>4, <3>1, <3>2
  <2>. QED BY <2>2, <2>4, MainStep
<1>5. CASE ReloadThrows(p) \/ ReloadIgnored(p) \/ LoadFails(p) \/ NoView(p) \/ AfterFailure(p)
  <2>1. /\ main # <<>> /\ main' = Tail(main) /\ reloading' \subseteq Pages
        /\ excused' \subseteq Pages
        /\ crashed' \in BOOLEAN
        /\ UNCHANGED <<state, threads, callbacks, gone, shows, received, written, dead, dues>>
    BY <1>2, <1>5 DEF ReloadThrows, ReloadIgnored, LoadFails, NoView, AfterFailure, Takes, files
  <2>2. /\ callbacks' \in Seq(Pages) /\ main' \in Messages /\ gone' \subseteq Pages
        /\ shows' \in [Pages -> 0..MaxFiles] /\ writer' \in WriterStates
        /\ writer'.pc # "idle" => writer.pc # "idle"
        /\ crashed' \in BOOLEAN
        /\ UNCHANGED <<state, receiver, requests, submitted, reloader, received, written, dead, dues>>
    BY <1>2, <1>3, <2>1 DEF threads
  <2>. QED BY <2>1, <2>2, MainStep
<1>. QED BY <1>1, <1>4, <1>5

\* Every step preserves the invariant.
LEMMA NextStep == ASSUME IInv, [Next]_vars PROVE IInv'
<1>1. CASE Next
  BY <1>1, ReceiveStep, WriteStep, ReloadStep, PageStep, DispatchStep DEF Next
<1>2. CASE UNCHANGED vars
  BY <1>2 DEF vars, state, threads, pages, files, dues, IInv, TypeOK, Counted, Known, Waits,
              ReloadSeesFiles
<1>. QED BY <1>1, <1>2

\* Every variable has a value of its type, and no file is released twice: the counter
\* the reload thread waits on (HotReloadHelper.changeFiles) never falls below zero.
THEOREM TypeCorrect == Spec => []TypeOK
<1>1. IInv => TypeOK
  BY DEF IInv
<1>. QED BY <1>1, InitIInv, NextStep, PTL DEF Spec

\* Pages are told to reload only when every file announced before the request of this
\* run is written (HotReloadHelper.reloadAction after its spin).
THEOREM ReloadsSeeFiles == Spec => []ReloadSeesFiles
<1>1. IInv => ReloadSeesFiles
  BY DEF IInv
<1>. QED BY <1>1, InitIInv, NextStep, PTL DEF Spec
=============================================================================
