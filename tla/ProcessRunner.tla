---------------------------- MODULE ProcessRunner ----------------------------
(***************************************************************************)
(* The process runner of the user interface (process_runner_posix.cpp,     *)
(* process_runner_win32.cpp) with the window that drives it: start, stop,  *)
(* clear the logs, quit.  start launches the pipeline as a child process   *)
(* with a pipe for each output stream; two reader threads take lines from  *)
(* the pipes into the log, a wait thread takes the exit code.              *)
(*   win32        CreateProcessW runs the pipeline itself                  *)
(*   posix        sh -c becomes the pipeline                               *)
(*   posix shell  sh -c stays and runs the pipeline as its child           *)
(* A mutex guards status, log and progress: each step below is a critical  *)
(* section or the code between two of them.                                *)
(***************************************************************************)
EXTENDS Integers, Sequences, FiniteSets

CONSTANTS Lines,        (* for each stream, the most lines a run writes     *)
          LogLimit,     (* the lines the log keeps (10000 in the code)      *)
          MaxRuns,      (* the bound on presses of Run                      *)
          Reports       (* the lines that tell of the progress: a run, the  *)
                        (* stream and the number of the line there          *)

Streams == {"stdout", "stderr"}
ASSUME RunnerAssumption == /\ Lines \in [Streams -> Nat]
                           /\ LogLimit \in Nat \ {0} /\ MaxRuns \in Nat
                           /\ Reports \subseteq Nat \X (Streams \cup {"runner"}) \X Nat

VARIABLES
    platform, run,      (* the number of starts                             *)
    ui, then, closing,  (* the window: its place, where a stop leads, quit  *)
    status, shown,      (* status_, progress_.running                       *)
    exitCode, childPid, (* exitCode_; the run whose child it is, or -1      *)
    handles,            (* the pipe ends and the process handle held open   *)
    log, progress,      (* logs_; the line a field of progress_ is from     *)
    reader, pending,    (* the reader threads and what they have read       *)
    waiter, code,       (* the wait thread, and the exit code it has        *)
    pipelines, shell,   (* the runs whose pipeline lives; sh lives          *)
    childCode,          (* what the child ended with, None while it lives   *)
    pipe, sent,         (* what the pipes hold; how much was written        *)
    stray               (* SIGTERM has gone to a process that is not ours   *)

window == <<ui, then, closing>>
shared == <<status, shown, exitCode, childPid>>
logging == <<log, progress>>
readers == <<reader, pending>>
processes == <<pipelines, shell, childCode, sent>>
vars == <<platform, run, window, shared, handles, logging, readers, waiter, code,
          processes, pipe, stray>>

None == 999
Terminated == 143
Platforms == {"win32", "posix", "posix shell"}
Posix == platform # "win32"
Child == IF platform = "posix shell" THEN shell ELSE run \in pipelines

(* A line is written and read in two pieces, the second with its newline. *)
EndsLine(piece) == piece % 2 = 0
LineOf(piece) == (piece + 1) \div 2
NoLine == [run |-> 0, stream |-> "none", n |-> 0, whole |-> TRUE]
HasLine(s) == \E i \in DOMAIN pending[s] : EndsLine(pending[s][i])
FirstEnd(s) == CHOOSE i \in DOMAIN pending[s] :
                  /\ EndsLine(pending[s][i])
                  /\ \A j \in 1 .. i - 1 : ~EndsLine(pending[s][j])

Init == /\ platform \in Platforms /\ run = 0
        /\ ui = "idle" /\ then = "idle" /\ closing = FALSE
        /\ status = "idle" /\ shown = FALSE /\ exitCode = 0 /\ childPid = -1
        /\ handles = {} /\ log = <<>> /\ progress = NoLine
        /\ reader = [s \in Streams |-> "none"] /\ pending = [s \in Streams |-> <<>>]
        /\ waiter = "none" /\ code = None
        /\ pipelines = {} /\ shell = FALSE /\ childCode = None
        /\ pipe = [s \in Streams |-> <<>>] /\ sent = [s \in Streams |-> 0]
        /\ stray = FALSE

-----------------------------------------------------------------------------
SetStatus(s) == status' = s /\ shown' = (s \in {"running", "stopping"})
Go(place) == ui' = place /\ UNCHANGED <<then, closing>>

(* parse_progress_line, for any one field of progress_: a line that tells  *)
(* of it sets it, whatever stream it is from; one that is cut short may    *)
(* not tell of it any more.                                                *)
Carries(line) == <<line.run, line.stream, line.n>> \in Reports
Parsed(line) == IF ~Carries(line) THEN {progress}
                ELSE IF line.whole THEN {line} ELSE {progress, line}
(* push_log: the line, the limit and the progress, under one lock.         *)
Limited(lines) == IF Len(lines) > LogLimit THEN Tail(lines) ELSE lines
(* Mutated: what comes as an error is not parsed. *)
PushLogUnparsed(line) ==
    /\ log' = Limited(Append(log, line))
    /\ progress' \in IF line.stream = "stdout" THEN Parsed(line) ELSE {progress}
PushLog(line) ==
    /\ log' = Limited(Append(log, line))
    /\ progress' \in Parsed(line)

(* The buttons Run, Stop and Clear logs, and the end of the window's loop. *)
Click == /\ ui = "idle"
         /\ \/ run < MaxRuns /\ ui' = "stop" /\ then' = "join" /\ UNCHANGED closing
            \/ ui' = "stop" /\ then' = "idle" /\ UNCHANGED closing
            \/ ui' = "stop" /\ then' = "stop" /\ closing' = TRUE
         /\ UNCHANGED <<platform, run, shared, handles, logging, readers, waiter, code,
                        processes, pipe, stray>>
ClearLogs == /\ ui = "idle" /\ log # <<>>
             /\ log' = <<>>
             /\ UNCHANGED <<platform, run, window, shared, handles, progress, readers,
                            waiter, code, processes, pipe, stray>>

(* stop: after the first of the two stops of the end the destructor runs.  *)
StopDone == /\ ui' = then /\ then' = IF closing THEN "join" ELSE "idle"
            /\ UNCHANGED closing
StopKeeps == UNCHANGED <<platform, run, exitCode, childPid, handles, logging, readers,
                         waiter, code, pipe>>
StopLook == /\ ui = "stop"
            /\ IF status # "running" THEN StopDone
               ELSE Go(IF Posix THEN "stopPid" ELSE "stopSet")
            /\ UNCHANGED <<status, shown, processes, stray>> /\ StopKeeps
StopPid == /\ ui = "stopPid"
           /\ IF childPid > 0 THEN Go("stopSet") ELSE StopDone
           /\ UNCHANGED <<status, shown, processes, stray>> /\ StopKeeps
StopSet == /\ ui = "stopSet"
           /\ SetStatus("stopping") /\ Go("stopKill")
           /\ UNCHANGED <<processes, stray>> /\ StopKeeps

(* kill(childPid_, SIGTERM), TerminateProcess: the child ends, not what sh *)
(* has started.  A child that has been waited for has left its number to   *)
(* others, and -1 is the number of every process.                          *)
Waited == childPid = -1 \/ waiter = "reaped"
StopKill ==
    /\ ui = "stopKill"
    /\ StopDone
    /\ stray' = (stray \/ (Posix /\ Waited))
    /\ IF Child /\ (Posix => ~Waited)
       THEN /\ childCode' = IF Posix THEN Terminated ELSE 1
            /\ shell' = FALSE
            /\ pipelines' = IF shell THEN pipelines ELSE pipelines \ {run}
       ELSE UNCHANGED <<childCode, shell, pipelines>>
    /\ UNCHANGED <<status, shown, sent>> /\ StopKeeps

(* Mutated: the readers are not joined. *)
JoinedWaiter == waiter \in {"none", "ended"}
(* The joins of start and of the destructor, and close_process_handles.    *)
Joined == waiter \in {"none", "ended"} /\ \A s \in Streams : reader[s] \in {"none", "ended"}
Join == /\ ui = "join" /\ Joined
        /\ handles' = {}
        /\ waiter' = "none" /\ reader' = [s \in Streams |-> "none"]
        /\ Go(IF closing THEN "gone" ELSE "launch")
        /\ UNCHANGED <<platform, run, shared, logging, pending, code, processes, pipe, stray>>

(* start: the log is cleared, the pipes and the child are made, or not.    *)
(* Win32 leaves a first pipe open when the second cannot be made.          *)
LaunchError == [run |-> run + 1, stream |-> "runner", n |-> 1, whole |-> TRUE]
Refused == /\ handles' \in IF Posix THEN {{}} ELSE {{}, {"stdout"}}
           /\ log' = <<LaunchError>> /\ progress' \in Parsed(LaunchError)
           /\ SetStatus("failed")
           /\ Go("idle")
           /\ UNCHANGED <<childPid, pipelines, shell, childCode, pipe, sent, pending>>
Launched == /\ handles' = IF Posix THEN Streams ELSE Streams \cup {"process"}
            /\ log' = <<>>
            /\ childPid' = IF Posix THEN run + 1 ELSE childPid
            /\ pipe' = [s \in Streams |-> <<>>] /\ sent' = [s \in Streams |-> 0]
            /\ pending' = [s \in Streams |-> <<>>]
            /\ \/ /\ pipelines' = pipelines \cup {run + 1}
                  /\ shell' = (platform = "posix shell")
                  /\ childCode' = None
               \/ /\ Posix                     (* chdir or execl fails       *)
                  /\ childCode' = 127 /\ shell' = FALSE
                  /\ UNCHANGED pipelines
            /\ Go("announce")
            /\ UNCHANGED <<status, shown, progress>>
Launch == /\ ui = "launch"
          /\ run' = run + 1
          /\ Refused \/ Launched
          /\ UNCHANGED <<platform, exitCode, reader, waiter, code, stray>>

(* Mutated: the wait thread is there before the status is Running. *)
AnnounceLate == /\ ui = "announce"
                /\ \/ waiter = "none" /\ waiter' = "waiting" /\ code' = None
                      /\ UNCHANGED <<exitCode, progress, status, shown, window>>
                   \/ waiter # "none" /\ exitCode' = 0 /\ progress' = NoLine
                      /\ SetStatus("running") /\ Go("spawn") /\ UNCHANGED <<waiter, code>>
                /\ UNCHANGED <<platform, run, childPid, handles, log, readers,
                               processes, pipe, stray>>
(* start: exit code and progress are reset, the status is Running, and     *)
(* only then the threads are created.                                      *)
Announce == /\ ui = "announce"
            /\ exitCode' = 0 /\ progress' = NoLine
            /\ SetStatus("running")
            /\ Go("spawn")
            /\ UNCHANGED <<platform, run, childPid, handles, log, readers, waiter, code,
                           processes, pipe, stray>>
Spawn == /\ ui = "spawn"
         /\ reader' = [s \in Streams |-> "reading"]
         /\ waiter' = "waiting" /\ code' = None
         /\ Go("idle")
         /\ UNCHANGED <<platform, run, shared, handles, logging, pending, processes, pipe, stray>>

-----------------------------------------------------------------------------
(* reader_loop: what the pipe has is read, then its lines are pushed one   *)
(* by one; what is left when the pipe has no writer any more is a line.    *)
(* Mutated: the runner keeps its own ends for writing. *)
HasWritersHere == TRUE
HasWriters == run \in pipelines \/ shell
Line(s, pieces) == [run |-> run, stream |-> s, n |-> LineOf(pieces[1]),
                    whole |-> pieces = <<2 * LineOf(pieces[1]) - 1, 2 * LineOf(pieces[1])>>]
ReaderKeeps == UNCHANGED <<platform, run, window, shared, handles, waiter, code, processes, stray>>
Read(s) ==
    /\ reader[s] = "reading" /\ ~HasLine(s)
    /\ \E k \in DOMAIN pipe[s] :
          /\ pending' = [pending EXCEPT ![s] = @ \o SubSeq(pipe[s], 1, k)]
          /\ pipe' = [pipe EXCEPT ![s] = SubSeq(@, k + 1, Len(@))]
    /\ UNCHANGED <<logging, reader>> /\ ReaderKeeps
PushLine(s) ==
    /\ reader[s] = "reading" /\ HasLine(s)
    /\ PushLog(Line(s, SubSeq(pending[s], 1, FirstEnd(s))))
    /\ pending' = [pending EXCEPT ![s] = SubSeq(@, FirstEnd(s) + 1, Len(@))]
    /\ UNCHANGED <<reader, pipe>> /\ ReaderKeeps
EndOfPipe(s) ==
    /\ reader[s] = "reading" /\ ~HasLine(s) /\ pipe[s] = <<>> /\ ~HasWriters
    /\ IF pending[s] = <<>> THEN UNCHANGED logging ELSE PushLog(Line(s, pending[s]))
    /\ pending' = [pending EXCEPT ![s] = <<>>]
    /\ reader' = [reader EXCEPT ![s] = "ended"]
    /\ UNCHANGED pipe /\ ReaderKeeps

(* wait_loop: waitpid or WaitForSingleObject, then the result. *)
WaitKeeps == UNCHANGED <<platform, run, window, handles, logging, readers, processes, pipe, stray>>
WaitReturns ==
    /\ waiter = "waiting" /\ childCode # None
    /\ code' = childCode
    /\ waiter' = "reaped"
    /\ UNCHANGED shared /\ WaitKeeps
WaitFinish ==
    /\ waiter = "reaped"
    /\ exitCode' = code
    /\ status' = IF code = 0 THEN "completed" ELSE "failed"
    /\ shown' = FALSE
    /\ childPid' = -1
    /\ waiter' = "ended"
    /\ UNCHANGED code /\ WaitKeeps

(* The processes: the pipeline writes and ends, in the middle of a line    *)
(* when it must; the sh that has stayed ends after it, with its code.      *)
ProcessKeeps == UNCHANGED <<platform, run, window, shared, handles, logging, readers, waiter,
                            code, stray>>
PipelineWrite(s) ==
    /\ run \in pipelines /\ sent[s] < 2 * Lines[s]
    /\ sent' = [sent EXCEPT ![s] = @ + 1]
    /\ pipe' = [pipe EXCEPT ![s] = Append(@, sent[s] + 1)]
    /\ UNCHANGED <<pipelines, shell, childCode>> /\ ProcessKeeps
PipelineEnd(r) ==
    /\ r \in pipelines
    /\ pipelines' = pipelines \ {r}
    /\ IF r = run /\ platform # "posix shell" THEN childCode' \in {0, 1} ELSE UNCHANGED childCode
    /\ UNCHANGED <<shell, sent, pipe>> /\ ProcessKeeps
ShellEnd ==
    /\ shell /\ run \notin pipelines
    /\ shell' = FALSE
    /\ childCode' \in {0, 1}
    /\ UNCHANGED <<pipelines, sent, pipe>> /\ ProcessKeeps

Stutter == ui = "gone" /\ UNCHANGED vars

UiStep == StopLook \/ StopPid \/ StopSet \/ StopKill \/ Join \/ Launch \/ Announce \/ Spawn
ReaderStep(s) == Read(s) \/ PushLine(s) \/ EndOfPipe(s)
WaiterStep == WaitReturns \/ WaitFinish
ProcessStep == ShellEnd \/ (\E s \in Streams : PipelineWrite(s))
                        \/ (\E r \in 1 .. MaxRuns : PipelineEnd(r))
Next == \/ Click \/ ClearLogs \/ UiStep \/ WaiterStep \/ ProcessStep
        \/ \E s \in Streams : ReaderStep(s)
        \/ Stutter

(* Threads run; a pipeline comes to its end, and sh after it. *)
Fairness == /\ WF_vars(UiStep) /\ WF_vars(WaiterStep) /\ WF_vars(ShellEnd)
            /\ \A s \in Streams : WF_vars(ReaderStep(s))
            /\ \A r \in 1 .. MaxRuns : WF_vars(PipelineEnd(r))
Spec == Init /\ [][Next]_vars /\ Fairness

-----------------------------------------------------------------------------
LinesOf(s) == {i \in DOMAIN log : log[i].stream = s}
LastOf(s, i) == \A j \in LinesOf(s) : j <= i
Neighbours(s, i, j) == i < j /\ \A k \in LinesOf(s) : k <= i \/ j <= k

(* Of the first k lines of s none that tells of the progress is lost: it   *)
(* is shown, or what is shown came after it.                               *)
NoneLost(s, k) ==
    \A n \in 1 .. k : <<run, s, n>> \in Reports =>
        progress # NoLine /\ (progress.stream = s => n <= progress.n)
(* What the log shows of a stream is a stretch of what this run has        *)
(* written there, however the reads cut it: every line whole, once and in  *)
(* order, up to the last, which alone may be cut short by the end of the   *)
(* pipeline.  The progress the two readers set is of this run, and never   *)
(* behind the log; at the end it is that of the last line of a stream that *)
(* tells of it, the reader that came last deciding which.                  *)
LogIsOfThisRun ==
    /\ \A s \in Streams : reader[s] # "none" =>
          /\ \A i \in LinesOf(s) :
                /\ log[i].run = run
                /\ ~log[i].whole => LastOf(s, i) /\ reader[s] = "ended"
                /\ LastOf(s, i) /\ reader[s] = "ended" => log[i].n = LineOf(sent[s])
          /\ \A i, j \in LinesOf(s) : Neighbours(s, i, j) => log[j].n = log[i].n + 1
          /\ progress # NoLine => progress.run = run /\ Carries(progress)
          /\ reader[s] = "ended" =>
                /\ NoneLost(s, sent[s] \div 2)
                /\ progress.stream = s => progress.n <= LineOf(sent[s])
    /\ \A i \in DOMAIN log : log[i].whole /\ Carries(log[i]) =>
          \E j \in i .. Len(log) : log[j] = progress

(* Of an earlier run nothing is left when another begins: its pipeline has *)
(* ended, also one that has outlived its sh, and no thread uses a handle   *)
(* that is closed; when the window is gone nothing is left at all.         *)
NothingOfAnEarlierRun ==
    /\ pipelines \subseteq {run}
    /\ \A s \in Streams : reader[s] = "reading" => s \in handles
    /\ waiter = "waiting" /\ ~Posix => "process" \in handles
    /\ ui = "gone" => handles = {} /\ pipelines = {} /\ ~shell

(* A status that tells of a result tells of the result of this run, and    *)
(* Running is never shown of a run that has been waited for.               *)
StatusIsTrue ==
    /\ status = "running" => waiter # "ended" /\ shown
    /\ waiter = "ended" /\ status # "stopping" =>
          /\ exitCode = childCode
          /\ status = IF childCode = 0 THEN "completed" ELSE "failed"

(* Run and the end of the program wait for the threads of the last run:    *)
(* the wait comes to an end.                                               *)
JoinsEnd == ui = "join" ~> ui # "join"

=============================================================================
