-------------------------- MODULE DirectoryScanner --------------------------
(***************************************************************************)
(* The directory scanner of Bai4.2: the threads that walk a directory tree *)
(* and post each PE file they find to the window, the semaphore that       *)
(* limits them, the counter by which the last one knows that it is the     *)
(* last, and the window procedure with its buttons and modal dialogs.      *)
(*                                                                         *)
(* A directory stands for its path, so that the paths below a root form a  *)
(* tree; the order in which FindNextFile lists a directory is left open.   *)
(* WM_APP_STATUS, which only repaints the status line, is left out.        *)
(***************************************************************************)
EXTENDS Integers, Sequences, FiniteSets

CONSTANTS
  Dirs, Files,    \* the paths below the root, which is one of Dirs
  Root,
  Parent,         \* the directory each other path lies in
  PEFiles,        \* the files that IsPEFile accepts once it can read them
  Tids,           \* threads
  MaxDepth,       \* MAX_DEPTH
  MaxThreads,     \* MAX_CONCURRENT_THREADS
  QueueLimit,     \* how many posted messages Windows keeps for a thread
  Complete,       \* WM_APP_SCAN_COMPLETE; WM_APP_PE_FOUND is the file it carries
  None

Paths == Dirs \cup Files

ASSUME TreeAssumption ==
  /\ Root \in Dirs /\ Dirs \cap Files = {}
  /\ Parent \in [Paths \ {Root} -> Dirs]
  /\ PEFiles \subseteq Files
  /\ Complete \notin Files /\ None \notin Paths
\* Every path lies below the root.
ASSUME PathsAssumption ==
  \A S \in SUBSET Paths :
    Root \in S /\ (\A e \in Paths \ {Root} : Parent[e] \in S => e \in S) => S = Paths
ASSUME LimitsAssumption ==
  /\ IsFiniteSet(Tids)
  /\ MaxDepth \in Nat /\ MaxThreads \in Nat \ {0} /\ QueueLimit \in Nat \ {0}

Entries(d) == {e \in Paths \ {Root} : Parent[e] = d}

VARIABLES
  \* the scanning threads
  step,           \* where each thread is; "none": it does not exist
  stack,          \* its calls of ScanDirectory: directory, depth, entries to come
  entry,          \* the entry it works on
  owns,           \* ScanTask.ownsSemaphoreSlot
  \* what they share
  stopEvent,      \* g_hStopEvent
  freeSlots,      \* g_hThreadSemaphore
  activeThreads,  \* g_activeThreadCount
  totalScanned,   \* g_totalScanned
  queue,          \* the messages posted to the window
  \* the window's thread
  isScanning, closeAfterScan,
  controls,       \* which buttons are enabled: the last SetControls... called
  dialog,         \* the message box that is open
  rows,           \* how many lines of the list show each file
  destroyed,
  \* history of the current scan
  skipped,        \* what could not be opened, or listed to its end
  lost            \* what PostMessage or the list refused

threadVars == <<step, stack, entry, owns>>
sharedVars == <<stopEvent, freeSlots, activeThreads>>
windowVars == <<isScanning, closeAfterScan, controls, dialog, rows, destroyed>>
vars == <<threadVars, sharedVars, totalScanned, queue, windowVars, skipped, lost>>

Steps == {"none", "open", "check", "file", "subdir", "count", "create",
          "giveback", "uncount", "release", "finish", "post"}

NoRows == [f \in Files |-> 0]

Init ==
  /\ step = [t \in Tids |-> "none"] /\ stack = [t \in Tids |-> <<>>]
  /\ entry = [t \in Tids |-> None] /\ owns = [t \in Tids |-> FALSE]
  /\ stopEvent = FALSE /\ freeSlots = MaxThreads /\ activeThreads = 0
  /\ totalScanned = 0 /\ queue = <<>>
  /\ isScanning = FALSE /\ closeAfterScan = FALSE
  /\ controls = "idle" /\ dialog = "none" /\ rows = NoRows /\ destroyed = FALSE
  /\ skipped = {} /\ lost = {}

-----------------------------------------------------------------------------
(* ScanDirectory, run by thread t.                                         *)

Frame(d, depth) == [dir |-> d, depth |-> depth, left |-> {}]
Call(t) == stack[t][Len(stack[t])]

Goto(t, s) == step' = [step EXCEPT ![t] = s]

Post(m) ==
  IF Len(queue) < QueueLimit
    THEN queue' = Append(queue, m) /\ UNCHANGED lost
    ELSE lost' = lost \cup {m} /\ UNCHANGED queue

\* The innermost ScanDirectory returns, to its caller's loop or to ThreadEntry.
Return(t) ==
  /\ stack' = [stack EXCEPT ![t] = SubSeq(@, 1, Len(@) - 1)]
  /\ Goto(t, IF Len(stack[t]) = 1 THEN "release" ELSE "check")
  /\ UNCHANGED <<entry, owns>>

Recurse(t) ==
  /\ stack' = [stack EXCEPT ![t] = Append(@, Frame(entry[t], Call(t).depth + 1))]
  /\ Goto(t, "open")
  /\ UNCHANGED <<entry, owns>>

OpenDirectory(t) ==
  /\ step[t] = "open"
  /\ \/ stopEvent /\ Return(t) /\ UNCHANGED skipped
     \/ ~stopEvent /\ skipped' = skipped \cup {Call(t).dir} /\ Return(t)
     \/ /\ ~stopEvent
        /\ stack' = [stack EXCEPT ![t][Len(stack[t])].left = Entries(Call(t).dir)]
        /\ Goto(t, "check")
        /\ UNCHANGED <<entry, owns, skipped>>
  /\ UNCHANGED <<sharedVars, totalScanned, queue, windowVars, lost>>

\* The listing is stopped or at its end, or FindNextFileW fails, which nobody can tell
\* from the end.
Leave(t) ==
  /\ step[t] = "check"
  /\ IF stopEvent \/ Call(t).left = {} THEN UNCHANGED skipped
                                       ELSE skipped' = skipped \cup {Call(t).dir}
  /\ Return(t)
  /\ UNCHANGED <<sharedVars, totalScanned, queue, windowVars, lost>>

NextEntry(t) ==
  /\ step[t] = "check" /\ ~stopEvent
  /\ \E e \in Call(t).left :
       /\ stack' = [stack EXCEPT ![t][Len(stack[t])].left = @ \ {e}]
       /\ entry' = [entry EXCEPT ![t] = e]
       /\ Goto(t, IF e \in Files THEN "file" ELSE "subdir")
  /\ UNCHANGED <<owns, sharedVars, totalScanned, queue, windowVars, skipped, lost>>

ScanFile(t) ==
  /\ step[t] = "file"
  /\ totalScanned' = totalScanned + 1
  /\ \/ entry[t] \in PEFiles /\ Post(entry[t]) /\ UNCHANGED skipped
     \/ skipped' = skipped \cup {entry[t]} /\ UNCHANGED <<queue, lost>>
     \/ entry[t] \notin PEFiles /\ UNCHANGED <<queue, lost, skipped>>
  /\ Goto(t, "check")
  /\ UNCHANGED <<stack, entry, owns, sharedVars, windowVars>>

TooDeep(t) ==
  /\ step[t] = "subdir" /\ Call(t).depth >= MaxDepth
  /\ Goto(t, "check")
  /\ UNCHANGED <<stack, entry, owns, sharedVars, totalScanned, queue, windowVars,
                 skipped, lost>>

TakeSlot(t) ==
  /\ step[t] = "subdir" /\ Call(t).depth < MaxDepth
  /\ freeSlots > 0
  /\ freeSlots' = freeSlots - 1
  /\ Goto(t, "count")
  /\ UNCHANGED <<stack, entry, owns, stopEvent, activeThreads, totalScanned, queue,
                 windowVars, skipped, lost>>

NoSlot(t) ==
  /\ step[t] = "subdir" /\ Call(t).depth < MaxDepth
  /\ freeSlots = 0
  /\ Recurse(t)
  /\ UNCHANGED <<sharedVars, totalScanned, queue, windowVars, skipped, lost>>

\* Mutant: the new thread is not counted.
IncActiveThreadsForgotten(t) ==
  /\ step[t] = "count"
  /\ Goto(t, "create")
  /\ UNCHANGED <<stack, entry, owns, sharedVars, totalScanned, queue, windowVars,
                 skipped, lost>>

IncActiveThreads(t) ==
  /\ step[t] = "count"
  /\ activeThreads' = activeThreads + 1
  /\ Goto(t, "create")
  /\ UNCHANGED <<stack, entry, owns, stopEvent, freeSlots, totalScanned, queue,
                 windowVars, skipped, lost>>

\* A new thread u enters ThreadEntry with the task of directory d.
StartThread(u, d, depth, ownsSlot) ==
  /\ step[u] = "none"
  /\ stack' = [stack EXCEPT ![u] = <<Frame(d, depth)>>]
  /\ owns' = [owns EXCEPT ![u] = ownsSlot]
  /\ UNCHANGED entry

\* Mutant: the directory is also scanned by the thread itself.
CreateChildAndRecurse(t) ==
  /\ step[t] = "create"
  /\ \E u \in Tids \ {t} :
       /\ step[u] = "none"
       /\ stack' = [stack EXCEPT ![u] = <<Frame(entry[t], Call(t).depth + 1)>>,
                                ![t] = Append(@, Frame(entry[t], Call(t).depth + 1))]
       /\ owns' = [owns EXCEPT ![u] = TRUE]
       /\ step' = [step EXCEPT ![u] = "open", ![t] = "open"]
  /\ UNCHANGED <<entry, sharedVars, totalScanned, queue, windowVars, skipped, lost>>

CreateChild(t) ==
  /\ step[t] = "create"
  /\ \E u \in Tids \ {t} :
       /\ StartThread(u, entry[t], Call(t).depth + 1, TRUE)
       /\ step' = [step EXCEPT ![u] = "open", ![t] = "check"]
  /\ UNCHANGED <<sharedVars, totalScanned, queue, windowVars, skipped, lost>>

CreateFails(t) ==
  /\ step[t] = "create"
  /\ Goto(t, "giveback")
  /\ UNCHANGED <<stack, entry, owns, sharedVars, totalScanned, queue, windowVars,
                 skipped, lost>>

\* Mutant: the slot of a thread that could not be created is kept.
GiveSlotBackForgotten(t) ==
  /\ step[t] = "giveback"
  /\ Goto(t, "uncount")
  /\ UNCHANGED <<stack, entry, owns, sharedVars, totalScanned, queue, windowVars,
                 skipped, lost>>

GiveSlotBack(t) ==
  /\ step[t] = "giveback"
  /\ freeSlots' = freeSlots + 1
  /\ Goto(t, "uncount")
  /\ UNCHANGED <<stack, entry, owns, stopEvent, activeThreads, totalScanned, queue,
                 windowVars, skipped, lost>>

\* Mutant: the directory of a thread that could not be created is not scanned.
UncountOnly(t) ==
  /\ step[t] = "uncount"
  /\ activeThreads' = activeThreads - 1
  /\ Goto(t, "check")
  /\ UNCHANGED <<stack, entry, owns, stopEvent, freeSlots, totalScanned, queue, windowVars,
                 skipped, lost>>

\* DecActiveThreadsAndCheckDone, whose answer this caller ignores.
Uncount(t) ==
  /\ step[t] = "uncount"
  /\ activeThreads' = activeThreads - 1
  /\ Recurse(t)
  /\ UNCHANGED <<stopEvent, freeSlots, totalScanned, queue, windowVars, skipped, lost>>

-----------------------------------------------------------------------------
(* ThreadEntry, after ScanDirectory has returned.                          *)

ReleaseSlot(t) ==
  /\ step[t] = "release"
  /\ freeSlots' = IF owns[t] THEN freeSlots + 1 ELSE freeSlots
  /\ Goto(t, "finish")
  /\ UNCHANGED <<stack, entry, owns, stopEvent, activeThreads, totalScanned, queue,
                 windowVars, skipped, lost>>

Ended(t) ==
  /\ Goto(t, "none")
  /\ entry' = [entry EXCEPT ![t] = None] /\ owns' = [owns EXCEPT ![t] = FALSE]
  /\ UNCHANGED stack

\* Mutant: the counter is compared before it is decremented.
FinishTestsFirst(t) ==
  /\ step[t] = "finish"
  /\ activeThreads' = activeThreads - 1
  /\ IF activeThreads = 0 THEN Goto(t, "post") /\ UNCHANGED <<stack, entry, owns>>
                          ELSE Ended(t)
  /\ UNCHANGED <<stopEvent, freeSlots, totalScanned, queue, windowVars, skipped, lost>>

\* DecActiveThreadsAndCheckDone.
Finish(t) ==
  /\ step[t] = "finish"
  /\ activeThreads' = activeThreads - 1
  /\ IF activeThreads = 1 THEN Goto(t, "post") /\ UNCHANGED <<stack, entry, owns>>
                          ELSE Ended(t)
  /\ UNCHANGED <<stopEvent, freeSlots, totalScanned, queue, windowVars, skipped, lost>>

PostComplete(t) ==
  /\ step[t] = "post"
  /\ Post(Complete) /\ Ended(t)
  /\ UNCHANGED <<sharedVars, totalScanned, windowVars, skipped>>

-----------------------------------------------------------------------------
(* The window's thread.  A modal message box disables the window, and its   *)
(* own loop goes on dispatching the messages posted to it.                 *)

ResetResults == rows' = NoRows /\ totalScanned' = 0

Clickable == dialog = "none" /\ ~destroyed

StartScan ==
  /\ Clickable /\ controls = "idle" /\ ~isScanning
  /\ ResetResults
  /\ stopEvent' = FALSE /\ closeAfterScan' = FALSE
  /\ isScanning' = TRUE /\ controls' = "scanning"
  /\ activeThreads' = activeThreads + 1
  /\ \E u \in Tids : StartThread(u, Root, 0, FALSE) /\ Goto(u, "open")
  /\ skipped' = {} /\ lost' = {}
  /\ UNCHANGED <<freeSlots, queue, dialog, destroyed>>

\* CreateThread fails for the root: counted, uncounted, and a message box.
StartScanFails ==
  /\ Clickable /\ controls = "idle" /\ ~isScanning
  /\ ResetResults
  /\ stopEvent' = FALSE /\ closeAfterScan' = FALSE
  /\ controls' = "scanning" /\ dialog' = "error"
  /\ skipped' = {} /\ lost' = {}
  /\ UNCHANGED <<threadVars, freeSlots, activeThreads, queue, isScanning, destroyed>>

StopScan ==
  /\ Clickable /\ controls = "scanning" /\ isScanning /\ ~stopEvent
  /\ stopEvent' = TRUE /\ controls' = "stopping"
  /\ UNCHANGED <<threadVars, freeSlots, activeThreads, totalScanned, queue, isScanning,
                 closeAfterScan, dialog, rows, destroyed, skipped, lost>>

ClearResults ==
  /\ Clickable
  /\ IF isScanning THEN dialog' = "busy" /\ UNCHANGED <<rows, totalScanned>>
                   ELSE ResetResults /\ UNCHANGED dialog
  /\ UNCHANGED <<threadVars, sharedVars, queue, isScanning, closeAfterScan, controls,
                 destroyed, skipped, lost>>

\* DestroyWindow: open message boxes and undelivered messages go with the window.
Destroy == destroyed' = TRUE /\ dialog' = "none" /\ queue' = <<>>

Close ==
  /\ Clickable
  /\ IF isScanning THEN dialog' = "exit" /\ UNCHANGED <<destroyed, queue>> ELSE Destroy
  /\ UNCHANGED <<threadVars, sharedVars, totalScanned, isScanning, closeAfterScan,
                 controls, rows, skipped, lost>>

ConfirmExit ==
  /\ dialog = "exit"
  /\ dialog' = "none"
  /\ closeAfterScan' = TRUE /\ stopEvent' = TRUE /\ controls' = "stopping"
  /\ UNCHANGED <<threadVars, freeSlots, activeThreads, totalScanned, queue, isScanning,
                 rows, destroyed, skipped, lost>>

Dismiss ==
  /\ dialog \in {"exit", "busy", "error"}
  /\ dialog' = "none"
  /\ controls' = IF dialog = "error" THEN "idle" ELSE controls
  /\ UNCHANGED <<threadVars, sharedVars, totalScanned, queue, isScanning, closeAfterScan,
                 rows, destroyed, skipped, lost>>

\* ListView_InsertItem adds the row, or refuses it.
OnPEFound ==
  /\ queue # <<>> /\ Head(queue) # Complete /\ ~destroyed
  /\ \/ rows' = [rows EXCEPT ![Head(queue)] = @ + 1] /\ UNCHANGED lost
     \/ lost' = lost \cup {Head(queue)} /\ UNCHANGED rows
  /\ queue' = Tail(queue)
  /\ UNCHANGED <<threadVars, sharedVars, totalScanned, isScanning, closeAfterScan,
                 controls, dialog, destroyed, skipped>>

\* Mutant: the end of a scan does not look at the exit that was chosen.
OnScanCompleteIdle ==
  /\ queue # <<>> /\ Head(queue) = Complete /\ ~destroyed
  /\ isScanning' = FALSE /\ controls' = "idle"
  /\ queue' = Tail(queue)
  /\ UNCHANGED <<threadVars, sharedVars, totalScanned, closeAfterScan, dialog, rows,
                 destroyed, skipped, lost>>

OnScanComplete ==
  /\ queue # <<>> /\ Head(queue) = Complete /\ ~destroyed
  /\ isScanning' = FALSE
  /\ IF closeAfterScan
       THEN Destroy /\ UNCHANGED controls
       ELSE /\ controls' = "idle"
            /\ queue' = Tail(queue)
            /\ UNCHANGED <<destroyed, dialog>>
  /\ UNCHANGED <<threadVars, sharedVars, totalScanned, closeAfterScan, rows, skipped, lost>>

Exited == destroyed /\ (\A t \in Tids : step[t] = "none") /\ UNCHANGED vars

-----------------------------------------------------------------------------

ScanStep(t) ==
  \/ OpenDirectory(t) \/ Leave(t) \/ NextEntry(t) \/ ScanFile(t) \/ TooDeep(t)
  \/ TakeSlot(t) \/ NoSlot(t) \/ IncActiveThreads(t)
  \/ CreateChild(t) \/ CreateFails(t) \/ GiveSlotBack(t) \/ Uncount(t)

ExitStep(t) == ReleaseSlot(t) \/ Finish(t) \/ PostComplete(t)

Dispatch == OnPEFound \/ OnScanComplete

User ==
  \/ StartScan \/ StartScanFails \/ StopScan \/ ClearResults
  \/ Close \/ ConfirmExit \/ Dismiss

Next ==
  \/ \E t \in Tids : ScanStep(t) \/ ExitStep(t)
  \/ Dispatch \/ User \/ Exited

Spec == Init /\ [][Next]_vars

\* Threads run, their file calls return, and the window's thread reads its
\* messages.  The user need not do anything.
FairSpec ==
  Spec /\ (\A t \in Tids : WF_vars(ScanStep(t) \/ ExitStep(t))) /\ WF_vars(Dispatch)

-----------------------------------------------------------------------------
(* Properties.                                                             *)

Alive(t) == step[t] # "none"

\* Slots of the semaphore taken: by a thread that owns one until it releases it, and
\* by one about to create a thread.
Holders == {t \in Tids : owns[t] /\ step[t] \notin {"none", "finish", "post"}}
Creators == {t \in Tids : step[t] \in {"count", "create", "giveback"}}

\* What g_activeThreadCount counts: threads up to their decrement, and threads
\* about to be created.
Counted == {t \in Tids : step[t] \notin {"none", "post"}}
Announced == {t \in Tids : step[t] \in {"create", "giveback", "uncount"}}

TypeOK ==
  /\ step \in [Tids -> Steps]
  /\ stack \in [Tids -> Seq([dir : Dirs, depth : 0..MaxDepth, left : SUBSET Paths])]
  /\ entry \in [Tids -> Paths \cup {None}]
  /\ owns \in [Tids -> BOOLEAN]
  /\ stopEvent \in BOOLEAN
  /\ freeSlots \in 0..MaxThreads
  /\ activeThreads \in Nat /\ totalScanned \in Nat
  /\ queue \in Seq(Files \cup {Complete})
  /\ isScanning \in BOOLEAN /\ closeAfterScan \in BOOLEAN /\ destroyed \in BOOLEAN
  /\ controls \in {"idle", "scanning", "stopping"}
  /\ dialog \in {"none", "error", "busy", "exit"}
  /\ rows \in [Files -> Nat]
  /\ skipped \subseteq Paths
  /\ lost \subseteq Files \cup {Complete}

\* No slot of the semaphore leaks or is returned twice, over failed CreateThread
\* calls, stopped scans and scan after scan.
SlotsConserved == freeSlots + Cardinality(Holders) + Cardinality(Creators) = MaxThreads

\* Exactly one of the threads finds itself the last, and it is: when it announces the
\* end, and later when the window takes the scan for finished and may start another
\* one, clear the list or destroy itself, no thread is left to post to the window and
\* no finding is queued behind the announcement.
CompletionIsLast ==
  /\ ~isScanning => \A t \in Tids : ~Alive(t)
  /\ \A i \in DOMAIN queue : queue[i] = Complete =>
       /\ i = Len(queue) /\ isScanning
       /\ \A t \in Tids : ~Alive(t)

Above[e \in Paths] == IF e = Root THEN {} ELSE {Parent[e]} \cup Above[Parent[e]]

Posted(f) == Cardinality({i \in DOMAIN queue : queue[i] = f})

\* No file is listed twice: whichever threads the tree is shared out to, each
\* directory is walked by one of them.
ListedOnce == \A f \in Files : rows[f] + Posted(f) <= 1

\* A scan that was not stopped is complete: when its end is announced, every PE file
\* of a directory down to MAX_DEPTH is in the list or on its way there, unless the file
\* or a directory above it could not be opened, FindNextFileW failed in one of those
\* directories, or PostMessage or the list refused the file.  What the threads leave to
\* each other is never the reason.
ScanIsComplete ==
  (Complete \in {queue[i] : i \in DOMAIN queue} /\ ~stopEvent) =>
    \A f \in PEFiles :
      \/ Cardinality(Above[f]) - 1 > MaxDepth
      \/ rows[f] + Posted(f) > 0 \/ f \in lost
      \/ skipped \cap (Above[f] \cup {f}) # {}

\* Every scan ends, stopped or not, unless the message that announces it is refused
\* by a full queue: then the window stays in its scanning state.
ScanEnds == isScanning ~> (~isScanning \/ Complete \in lost)

\* Choosing to exit during a scan closes the window once the threads are gone.
ExitAfterScan ==
  (isScanning /\ closeAfterScan) ~> (destroyed \/ Complete \in lost)
=============================================================================
